SPECIFICATION ShellSpec
CONSTANTS
  s1 = s1
  s2 = s2
  root = root
  bin = bin
  i = i
  j = j
  k = k
  l = l
  None = None
  Ids = {root, bin, i, j, k, l}
  RootId = root
  Bin = bin
  BinName = "bin"
  Names <- Two
  Cells <- Blocks
  Contents <- Fits
  Shells = {s1, s2}
  Lines <- Pair
  Room = 1
  Junk = "junk"
  Excused = TRUE
SYMMETRY Free
INVARIANTS
  OneEntry
  DeadIsEmpty
  Rooted
  MoveExact
  CopyExact
  RemoveExact

  
