SPECIFICATION Spec
CONSTANTS
  a1 = a1
  a2 = a2
  a3 = a3
  ann = ann
  bob = bob
  w1 = w1
  w2 = w2
  Account = {a1, a2, a3}
  Id = {1, 2, 3, 4}
  RowOf <- TwoSpellings
  Customer = {ann, bob}
  Admin = Admin
  Owner <- MCOwner
  Carded = {a3}
  Request = {r1, r2}
  Call <- SpellingCalls
  Opening <- MCOpening
  MaxBalance = 2
  Worker = {w1}
  WorkerOf <- OneWorker
  PoolSize = 2
  NoRow = NoRow
  Null = Null
  Free = Free
INVARIANTS
  NoDeadlock
