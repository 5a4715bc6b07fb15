CONSTANTS
  Job = {j1}
  Client = {c1}
  Worker = {w1}
  NoJob = NoJob
  NoWorker = NoWorker
  AttemptLimits = {1}
  Stages = 1
  CheckedStages = {1}
  Requests = {"retry"}
  Replicas = 1
  MaxCrashes = 0
  MaxRetries = 1
  Timely = TRUE
  RetryGrant = 3
SPECIFICATION Spec
PROPERTY FollowsLifecycle
