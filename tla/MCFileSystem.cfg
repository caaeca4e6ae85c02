CONSTANTS
  SECTOR_SIZE = 4
  DIRENT_SIZE = 2
  fat_upper <- MCUpper
  MAX_OPEN_FILES = 2
  MAX_PARTS = 4
  Disks <- MCDisks
  Paths <- MCPaths
  ReadSizes = {0, 6}
  Offsets <- MCOffsets
  TestPath <- MCTestPath
  TestSize = 2
SPECIFICATION FairSpec
INVARIANT OpenFindsTheFile
INVARIANT ReadGivesTheFile
INVARIANT CommandsPrintEverything
INVARIANT MemoryIsThatOfOpenFiles
PROPERTY TestLeavesNothing
PROPERTY EveryCallReturns
