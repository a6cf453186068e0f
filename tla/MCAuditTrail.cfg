SPECIFICATION PartsSpec
CONSTANTS
  RenewEvery = 2
  HolderBound = 4
  Confirm = 10
  StaleAge = 12
  SpanMax = 1
  WallSteps = FALSE
  RemoveFaults = TRUE
  e1 = e1
  e2 = e2
  Missing = Missing
  Torn = Torn
  None = None
CHECK_DEADLOCK FALSE
INVARIANTS
  NoTakeoverUnderWrite
PROPERTIES
  LiveLockKept
  DeadReclaimed
  Delivered
