SPECIFICATION Spec
CONSTANTS
  Runner = {c1, c2}
  MaxRunning = 1
  Seeding = {c1, c2}
  Files = 2
  Object <- MCObject
  Script <- MCScript
  IfNotExists <- TableNames
  Needs <- MCNeeds
  Batch <- TableNames
  Seeds <- SeededTables
  Refers <- MCRefers
INVARIANTS
  RerunIsSafe
