SPECIFICATION FairSpec
CONSTANTS
  Urls = {u1}
  Sessions = {s1}
  Deliveries = {d1, d2, d3}
  NoDelivery = NoDelivery
  Threshold = 2
  MaxAttempts = 2
  Capacity = 1
  MaxRun = 1
  Base = 2
  MaxCooldown = 4
  ProbeTimeout = 3
  MaxDeaths = 2
INVARIANTS ProbeIsAlone DeadLettersAreOnce
PROPERTIES AlwaysProbedAgain
CHECK_DEADLOCK FALSE
