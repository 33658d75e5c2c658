SPECIFICATION Spec
CONSTANTS
  GroupCount = 4
  BlocksPerGroup = 8
  TableBlocks = 1
  InodesPerTable = 1
  Direct = 2
  PtrsPerBlock = 2
  DiskBlocks = 80
  BlockLen = 4
  Names = {"a", "c"}
  RecLen <- Mixed
  Datas = {x, y}
  Sizes = {0, 1, 3, 5}
  DirMax = 2
  Kinds = {"reg"}
INVARIANTS
  BlocksOwned
  NoBlockLost
  CountsExact
  TreeExact
  RecordsFit
PROPERTIES
  OthersKept
  AcceptedIsStored
SYMMETRY Sym
