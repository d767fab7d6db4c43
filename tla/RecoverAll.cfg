SPECIFICATION Spec
CONSTANTS
  MaxLogical = 4
  MaxEntries = 4
  MaxMapBlocks = 4
  MaxProbes = 6
  ByteBits = 2
  MaxMap = 9
  MaxPlants = 2
  MaxFaults = 1
  Jobs <- AllJobs
  Identified <- Kinds
  PlantAt <- InTheWay
  PlantKinds = {"file", "dir", "link"}
INVARIANTS   RestoredAndKept
