SPECIFICATION FairSpec
CONSTANTS
  Runner = {c1, c2, c3}
  MaxRunning = 2
  Seeding = {c1, c2}
  Files = 2
  Object <- MCObject
  Script <- MCScript
  IfNotExists <- TableNames
  Needs <- MCNeeds
  Batch <- TableNames
  Seeds <- SeededTables
  Refers <- MCRefers
INVARIANTS
  IInv
  RecordedIsComplete
  ServesWholeSchema
  FindsItsTables
  ServesWholeDemo
PROPERTIES
  StartLeadsToService
