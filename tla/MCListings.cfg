SPECIFICATION FairSpecAll
CONSTANTS
  a1 = a1
  a2 = a2
  ann = ann
  bob = bob
  cid = cid
  r1 = r1
  r2 = r2
  w1 = w1
  w2 = w2
  Account = {a1, a2}
  Id = {1, 2}
  RowOf <- MCRowOf
  Customer = {ann, bob, cid}
  Admin = Admin
  Owner <- MCOwner
  Carded = {}
  Request = {r1, r2}
  Call <- MCCall
  Opening <- MCOpening
  MaxBalance = 3
  Worker = {w1, w2}
  WorkerOf <- MCWorkerOf
  PoolSize = 1
  NoRow = NoRow
  Null = Null
  Free = Free
  Scenario <- MCScenario
  Reader = {x}
  ReadCall <- MCReadCall
  ReaderOf <- MCReaderOf
  MaxTime = 1
  None = None
INVARIANTS
  ListingsInvariant
  PaidIsListed
  PartiesSeeTheirEntry
PROPERTIES
  StampsFollowCommits
  EveryoneIsAnswered
