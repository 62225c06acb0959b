SPECIFICATION AccountSpec
CHECK_DEADLOCK FALSE
CONSTANTS
  Accounts <- TwoAccounts
  IdOf <- TwoIds
  MayTouch <- TwoTokens
  NoId = "none"
  Requests = {r1}
  MaxConnects = 3
  MaxFaults = 1
INVARIANTS ActsForOneAccount AnswersAreTrue
