CONSTANTS
  Job = {j1}
  Client = {c1}
  Worker = {w1, w2, w3}
  NoJob = NoJob
  NoWorker = NoWorker
  AttemptLimits = {3}
  Stages = 1
  CheckedStages = {1}
  Requests = {}
  Replicas = 2
  MaxCrashes = 1
  MaxRetries = 0
  Timely = TRUE
  RetryGrant = 1
SPECIFICATION Spec
INVARIANT ExclusiveExecution
