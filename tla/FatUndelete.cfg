SPECIFICATION FairSpec
CONSTANTS
  FileSystems = {"fat16", "fat32", "exfat"}
  MaxCluster = 6
  Half = 4
  Files = {"a", "b", "j"}
  Dirs = {"d","e"}
  Root = "root"
  Hands = {2}
  RootAt = 3
  Blocks <- BlocksOf
  Ext <- ExtOf
  MaxSlots = 2
  MaxOps = 6
  Refused = {"b"}
  MaxTries = 2
  Wanted <- Commands
  MaxFaults = 1
INVARIANTS TypeOK  FreeClustersWalkedOnce EveryDeletedFileReported
PROPERTIES Terminates
CHECK_DEADLOCK FALSE
