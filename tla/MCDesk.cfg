SPECIFICATION Spec
CONSTANTS
  p1 = p1
  p2 = p2
  ann = ann
  bob = bob
  User = {u}
  Password = {p1, p2}
  Customer = {ann, bob}
  Employee = {e1, e2}
  Ticket = {t1, t2}
  UserRow <- MCUserRow
  Client = {c1, c2}
  Lifetime = 1
  MaxTime = 2
  None = None
SYMMETRY Symmetry
INVARIANTS
  AuthorityWasGranted
  DatesFit
  ActsWithinItsRow
  ReportsTheBest
