SPECIFICATION Spec
CONSTANTS
  c1 = c1
  c2 = c2
  c3 = c3
  b1 = b1
  a1 = a1
  a2 = a2
  k1 = k1
  k2 = k2
  t1 = t1
  e1 = e1
  u1 = u1
  r1 = r1
  r2 = r2
  r3 = r3
  m1 = m1
  m2 = m2
  v1 = v1
  v2 = v2
  Record <- MCRecord
  TableOf <- MCTableOf
  Key = {m1, m2}
  Value = {v1, v2}
  Admin = Admin
  Nobody = Nobody
  Request = {r1, r2, r3}
  Call <- MCCalls
  Opening <- MCOpening
  NoRow = NoRow
  Null = Null
  Free = Free
  NoView = NoView
SYMMETRY Symmetry
INVARIANTS
  EndpointsAreSound
  NoDanglingReference
  UniqueValues
  AnswersMatchRows
  UpdatesShown
  OnlyOwnersRead
  BranchesAreCounted
PROPERTIES
  OnlyOwnersWrite
  ImplementsRegistry
