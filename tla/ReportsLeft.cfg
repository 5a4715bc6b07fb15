CONSTANTS
  p1 = p1
  p2 = p2
  j1 = j1
  j2 = j2
  r1 = r1
  r2 = r2
  Project = {p1, p2}
  Job = {j1, j2}
  Report = {r1, r2}
  ProjectOf <- MCProjectOf
  JobOf <- MCJobOf
  Handler = {h1}
  NoTarget = NoTarget
  Faults = {"write"}
  MaxCrashes = 0
SPECIFICATION Spec
INVARIANT DirsOfDeletedAreGone
CHECK_DEADLOCK FALSE
