SPECIFICATION FairSpec
CONSTANTS
  Size = 12
  PhysEnd = 11
  Candidates <- Disk
  KnownExts <- Table
  Ends = {10, 12}
  Aligns = {1}
  MinSizes = {0}
  MaxSizes = {NoLimit, 4}
  MaxFiles = {NoLimit, 2}
  NoLimit = NoLimit
  ScanChunk = 4
  Overlap = 3
  CheckpointEvery = 4
  MaxRuns = 2
INVARIANTS TypeOK ResumeEqualsUninterrupted CheckpointSound ManifestBacked CountsMatchManifest NothingNested
PROPERTIES NeverClobbers Terminates
CHECK_DEADLOCK FALSE
