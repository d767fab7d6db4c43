SPECIFICATION FairSpec
CONSTANTS
  N = 6
  PhysEnd = 4
  ZeroCells = {2}
  FlakyCells = {1, 3}
  Starts = {1}
  Ends = {4, 6}
  Retries = {0, 2}
  Chunk = 2
  SparseBlock = 1
  FlushEvery = 2
  MaxRuns = 3
  RestartOverMap = FALSE
  TornMapWrites = FALSE
INVARIANTS TypeOK NothingMisplaced MapSound FaithfulImage PrefixFaithful ZeroedMatchesBad CountersCoverCopy
PROPERTIES  Terminates
CHECK_DEADLOCK FALSE
