SPECIFICATION FairSpec
CHECK_DEADLOCK FALSE
CONSTANTS
  Accounts <- ThreeAccounts
  NumberOf <- TwoNumbers
  AppOf <- TwoApps
  Keys = {k1, k2}
  Urls = {u1, u2}
  Configures = {1, 2}
  Exchanges = {e1}
  MaxConnects = 2
  MaxFaults = 1
INVARIANTS KeysAgree CredentialsAreWhole ForwardedOnce
PROPERTIES ExchangesHeal
