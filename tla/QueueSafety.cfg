CONSTANTS
  Job = {j1}
  Client = {c1}
  Worker = {w1, w2}
  NoJob = NoJob
  NoWorker = NoWorker
  AttemptLimits = {1}
  Stages = 1
  CheckedStages = {1}
  Requests = {"cancel", "retry"}
  Replicas = 2
  MaxCrashes = 1
  MaxRetries = 1
  Timely = TRUE
  RetryGrant = 3
SPECIFICATION FairSpec
INVARIANTS TypeOK ClaimsAreTicketed TerminalRecord LockIsHeld
PROPERTIES NoClaimAfterCancel IsALedger EventuallyDone
