SPECIFICATION Spec
CONSTANTS
  Size = 12
  PhysEnd = 11
  Candidates <- DiskWithOffice
  KnownExts <- Table
  Ends = {10, 12}
  Aligns = {1}
  MinSizes = {0}
  MaxSizes = {NoLimit, 4}
  MaxFiles = {NoLimit}
  NoLimit = NoLimit
  ScanChunk = 4
  Overlap = 3
  CheckpointEvery = 4
  MaxRuns = 2
INVARIANT ResumeEqualsUninterrupted
CHECK_DEADLOCK FALSE
