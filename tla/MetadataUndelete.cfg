SPECIFICATION Spec
CONSTANTS
  FileSystems = {"ntfs", "ext", "hfs", "iso"}
  MaxBlock = 4
  SourceEnd = 3
  Files = {"a", "b"}
  Dirs = {"d", "e"}
  Root = "root"
  Size <- SizeOf
  Holes <- HolesOf
  Hands = {1, 3}
  MaxOps = 5
  Wanted <- Commands
  MaxFaults = 1
  Records = 3
  MaxPathDepth = 3
  Inodes = 3
  JournalSlots = 3
  Direct = 2
  PerBlock = 1
  MaxDirDepth = 3
  SparseIndirect = FALSE
  InlineExtents = 1
  MaxFolders = 3
  Copies = 3
  MaxDepth = 3
  MaxEntries = 9
  MaxCeFollow = 2
INVARIANTS   EachLostFileOnce 
