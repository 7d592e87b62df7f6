SPECIFICATION FairSpec
CONSTANTS
  b1 = b1
  b2 = b2
  b3 = b3
  Block = {b1, b2, b3}
  Mix <- MCMix
  PoolSize = 2
  None = None
INVARIANTS
  NothingHalfDone
  ReadsAreFresh
  OneSnapshotPerBlock
  ProbeIsTrue
  HealsAfterRestart
  OnePool
PROPERTIES
  EveryBlockEnds
