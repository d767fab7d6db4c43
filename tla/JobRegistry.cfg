SPECIFICATION FairSpec
CONSTANTS
  MaxJobs = 2
  Chunks = 2
  Froms = {0, 2}
  Paths = {p}
  None = None
INVARIANTS TypeOK DoneHasResult StopIsReported  CancelStopsAtNextChunk
PROPERTIES ReplyIsFinal EverySurvivorReports
CHECK_DEADLOCK FALSE
