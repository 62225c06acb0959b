SPECIFICATION Spec
CONSTANTS
  Chats = {c1, c2, c3}
  Sends = {s1, s2}
  Operators = {o1}
  Limits <- OneChat
  NoLimit = NoLimit
  NoChat = NoChat
  Free = Free
  History = TRUE
  MaxClock = 2
  MaxFaults = 1
SYMMETRY Symmetry
INVARIANTS RowsAreEarned
PROPERTIES NeverPastTheLimit
CHECK_DEADLOCK FALSE
