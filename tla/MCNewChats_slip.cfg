SPECIFICATION Spec
CONSTANTS
  Chats = {c1, c2}
  Sends = {s1, s2, s3}
  Operators = {}
  Limits <- OneChat
  NoLimit = NoLimit
  NoChat = NoChat
  Free = Free
  History = TRUE
  MaxClock = 0
  MaxFaults = 0
PROPERTIES LimitIsKept
CHECK_DEADLOCK FALSE
