SPECIFICATION FairSpec
CONSTANTS
  Jobs = {j1}
  NoJob = NoJob
  NumRecipients = 2
  Clients = {c1, c2}
  BatchSize = 2
  MaxAttempts = 2
  MaxFaults = 1
  MaxCancels = 1
  MaxRetries = 1
INVARIANTS DuplicatesNeedFaults JobsAreTold
PROPERTIES KeepsTheLedger EveryJobCloses
CHECK_DEADLOCK FALSE
