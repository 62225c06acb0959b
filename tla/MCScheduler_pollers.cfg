SPECIFICATION FairSpec
CONSTANTS
  Messages = {m1, m2}
  NoMessage = NoMessage
  Pollers = {p1, p2}
  Clients = {c1}
  Limit = 1
  Grace = 1
  MaxClock = 3
  MaxFaults = 2
  MaxCancels = 1
INVARIANTS AtMostOnce ToldTheTruth
PROPERTIES EveryMessageSettles
CHECK_DEADLOCK FALSE
