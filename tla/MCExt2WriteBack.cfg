SPECIFICATION Spec
CONSTANTS
  GroupCount = 2
  BlocksPerGroup = 8
  TableBlocks = 2
  InodesPerTable = 2
  Direct = 6
  PtrsPerBlock = 2
  DiskBlocks = 80
  BlockLen = 4
  Names = {"a", "b", "c"}
  RecLen <- Lengths
  Datas = {x}
  Sizes = {1}
  DirMax = 9
  Kinds = {"reg"}
PROPERTY
  AcceptedIsStored
