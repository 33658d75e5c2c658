SPECIFICATION FairSpec
CONSTANTS
  FrameCount = 10
  DirCount = 4
  UserPages = {low, stack}
  LowPage = low
  StackPage = stack
  ProcessMax = 3
  FrameMax = 2
  SizeSpan = 8
  Requests <- Anything
  BootRequests <- ShellOrNot
  Words = {0}
  Zero = 0
  Start = 0
  TickSpan = 1
  Naps = {0}
INVARIANTS
  TypeOK
  CountExact
  RunningIsCurrent
  LiveSpaces
  RunsOnUsedDirectory
PROPERTIES
  EveryoneRuns
  SpacesUndisturbed
  ExecFindsDirectory
CHECK_DEADLOCK FALSE
