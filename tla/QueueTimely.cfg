CONSTANTS
  Job = {j1, j2}
  Client = {c1}
  Worker = {w1, w2}
  NoJob = NoJob
  NoWorker = NoWorker
  AttemptLimits = {1}
  Stages = 2
  CheckedStages = {2}
  Requests = {"cancel"}
  Replicas = 2
  MaxCrashes = 0
  MaxRetries = 0
  Timely = TRUE
  RetryGrant = 3
SPECIFICATION Spec
INVARIANT ExclusiveExecution
PROPERTY OldestFirst
SYMMETRY Symmetry
