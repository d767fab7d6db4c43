SPECIFICATION Spec
CONSTANTS
  FileSystems = {"ext"}
  MaxBlock = 4
  SourceEnd = 4
  Files = {"a", "b"}
  Dirs = {"d", "e"}
  Root = "root"
  Size <- SizeOf
  Holes <- HolesOf
  Hands = {1, 3}
  MaxOps = 2
  Wanted <- Commands
  MaxFaults = 0
  Records = 3
  MaxPathDepth = 3
  Inodes = 3
  JournalSlots = 3
  Direct = 1
  PerBlock = 1
  MaxDirDepth = 3
  SparseIndirect = TRUE
  InlineExtents = 1
  MaxFolders = 3
  Copies = 3
  MaxDepth = 3
  MaxEntries = 9
  MaxCeFollow = 2
INVARIANTS BlocksOfOneFile
