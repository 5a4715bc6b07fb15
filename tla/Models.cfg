CONSTANTS
  a1 = a1
  a2 = a2
  a3 = a3
  m1 = m1
  m2 = m2
  Artifact = {a1, a2, a3}
  Content = {m1, m2}
  ContentOf <- MCContentOf
  Process = {p1, p2}
  NoTarget = NoTarget
  Faults = {"commit", "copy"}
  MaxCrashes = 1
SPECIFICATION Spec
INVARIANTS TypeOK OneRowPerModel PredictionsHaveModel FilesAreWhole
PROPERTY DeletedForGood
SYMMETRY MCSymmetry
CHECK_DEADLOCK FALSE
