SPECIFICATION SleepFairSpec
CONSTANTS
  FrameCount = 6
  DirCount = 2
  UserPages = {low, stack}
  LowPage = low
  StackPage = stack
  ProcessMax = 2
  FrameMax = 2
  SizeSpan = 8
  Requests <- Programs
  BootRequests <- Shell
  Words = {0}
  Zero = 0
  Start = 0
  TickSpan = 4
  Naps = {0, 1}
CHECK_DEADLOCK FALSE
PROPERTY
  SleepReturns
