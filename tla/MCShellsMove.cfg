SPECIFICATION ShellSpec
CONSTANTS
  s1 = s1
  s2 = s2
  root = root
  bin = bin
  i = i
  j = j
  k = k
  l = l
  None = None
  Ids = {root, bin, i, j, k, l}
  RootId = root
  Bin = bin
  BinName = "bin"
  Names <- Two
  Cells <- Blocks
  Contents <- Fits
  Shells = {s1}
  Lines <- Alone
  Room = 1
  Junk = "junk"
  Excused = FALSE
INVARIANT
  MoveExact
