SPECIFICATION CrashSpec
CONSTANTS
  GroupCount = 2
  BlocksPerGroup = 8
  TableBlocks = 1
  InodesPerTable = 2
  Direct = 1
  PtrsPerBlock = 2
  DiskBlocks = 16
  BlockLen = 6
  Names = {a, b}
  RecLen <- Short
  Datas = {x}
  Sizes = {1}
  DirMax = 1
  CrashMax = 1
  Kinds = {"reg", "dir"}
INVARIANTS
  TypeOK
  BlocksOwned
  EntriesTrue
  CountsSaved
  OnlyWriteCutsLose
  
  DeleteCutsOthersKept
PROPERTIES
  StoreImplemented
SYMMETRY Sym
