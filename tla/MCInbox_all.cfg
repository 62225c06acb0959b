SPECIFICATION InboxFairSpec
CHECK_DEADLOCK FALSE
CONSTANTS
  Messages = {1, 2}
  Form <- ThreeForms
  Handlers = {h1, h2}
  Window = 1
  PageSize = 1
  MaxDeliveries = 2
  MaxStores = 2
  MaxFaults = 1
INVARIANTS RepeatsAreFarApart  WalkMissesNothing
PROPERTIES DeliveredIsTold StreamCatchesUp
