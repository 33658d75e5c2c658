SPECIFICATION PagingSpec
CONSTANTS
  FrameCount = 5
  DirCount = 2
  UserPages = {low, stack}
  LowPage = low
  StackPage = stack
INVARIANTS
  FrameIsolation
  MappedIsMarked
  FreeCountExact
