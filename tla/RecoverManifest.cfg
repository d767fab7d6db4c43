SPECIFICATION Spec
CONSTANTS
  MaxLogical = 4
  MaxEntries = 4
  MaxMapBlocks = 4
  MaxProbes = 6
  ByteBits = 2
  MaxMap = 9
  MaxPlants = 0
  MaxFaults = 0
  Jobs <- SaveJobs
  Identified <- Kinds
  PlantAt = {}
  PlantKinds = {}
INVARIANT ManifestVerifies
