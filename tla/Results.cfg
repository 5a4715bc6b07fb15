CONSTANTS
  ruleJob = ruleJob
  hybridJob = hybridJob
  Job = {ruleJob, hybridJob}
  Kind <- MCKind
  Path = {p1, p2}
  Trees = {{p1, p2}, {p2}}
  Model = {m1, m2}
  Attempts <- MCAttempts
  Replicas = 2
  BatchSize = 1
  NoTree = NoTree
SPECIFICATION Spec
INVARIANTS TypeOK ResultsOfOneRun InventoryOfOneTree
PROPERTY PublishedAtomically
CHECK_DEADLOCK FALSE
SYMMETRY MCSymmetry
