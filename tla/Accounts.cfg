CONSTANTS
  u1 = u1
  u2 = u2
  u3 = u3
  root = root
  ann = ann
  p = p
  q = q
  Account = {u1, u2, u3}
  Email = {root, ann}
  Password = {p, q}
  Role = {"admin", "viewer"}
  NoRow = NoRow
  Tables <- MCTables
  Asks <- MCAsks
  Call = {c1, c2}
  MaxCalls = 4
SPECIFICATION Spec
INVARIANTS TypeOK OneAccountPerEmail
PROPERTIES FinalAdminGoesByTwo ResetsStick
SYMMETRY MCSymmetry
CHECK_DEADLOCK FALSE
