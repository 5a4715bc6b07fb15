CONSTANTS
  p1 = p1
  p2 = p2
  j1 = j1
  j2 = j2
  r1 = r1
  r2 = r2
  Project = {p1, p2}
  Job = {j1, j2}
  Report = {r1, r2}
  ProjectOf <- MCProjectOf
  JobOf <- MCJobOf
  Handler = {h1, h2}
  NoTarget = NoTarget
  Faults = {"commit", "write"}
  MaxCrashes = 1
SPECIFICATION Spec
INVARIANTS TypeOK FilesAreThere UploadHasOwner RowsHaveOwners
SYMMETRY MCSymmetry
CHECK_DEADLOCK FALSE
