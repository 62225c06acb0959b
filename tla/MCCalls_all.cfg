SPECIFICATION FairSpec
CHECK_DEADLOCK FALSE
CONSTANTS
  Calls = {k1, k2}
  Requests = {r1, r2}
  MaxFaults = 1
INVARIANTS AnsweredOnce RegistriesFollowCalls 
PROPERTIES EndedCallsAreReleased
