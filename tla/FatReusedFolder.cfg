SPECIFICATION Spec
CONSTANTS
  FileSystems = {"fat32"}
  MaxCluster = 6
  Half = 4
  Files = {"a", "b", "j"}
  Dirs = {"d", "e"}
  Root = "root"
  RootAt = 3
  Hands = {2}
  Blocks <- BlocksOf
  Ext <- ExtOf
  MaxSlots = 2
  MaxOps = 6
  Refused = {"b"}
  MaxTries = 2
  Wanted <- Commands
  MaxFaults = 0
INVARIANTS OnlyDeletedReported
CHECK_DEADLOCK FALSE
