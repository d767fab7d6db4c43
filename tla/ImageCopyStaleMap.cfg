SPECIFICATION Spec
CONSTANTS
  N = 4
  PhysEnd = 4
  ZeroCells = {}
  FlakyCells = {}
  Starts = {0}
  Ends = {4}
  Retries = {0}
  Chunk = 2
  SparseBlock = 1
  FlushEvery = 3
  MaxRuns = 3
  RestartOverMap = TRUE
  TornMapWrites = FALSE
PROPERTY ResumeOnlyOwnCopy
CHECK_DEADLOCK FALSE
