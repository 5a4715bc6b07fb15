CONSTANTS
  Job = {j1}
  Client = {c1}
  Worker = {w1, w2}
  NoJob = NoJob
  NoWorker = NoWorker
  AttemptLimits = {2}
  Stages = 1
  CheckedStages = {1}
  Requests = {"cancel"}
  Replicas = 1
  MaxCrashes = 1
  MaxRetries = 0
  Timely = TRUE
  RetryGrant = 1
SPECIFICATION FairSpec
PROPERTY CancelHonoured
