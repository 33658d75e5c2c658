SPECIFICATION Spec
CONSTANTS
  GroupCount = 1
  BlocksPerGroup = 20
  TableBlocks = 6
  InodesPerTable = 1
  Direct = 6
  PtrsPerBlock = 2
  DiskBlocks = 80
  BlockLen = 3
  Names = {"a", "b"}
  RecLen <- Short
  Datas = {x}
  Sizes = {1}
  DirMax = 9
  Kinds = {"reg", "dir"}
PROPERTY
  NotEmptyKept
