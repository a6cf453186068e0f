SPECIFICATION FairSpec
CONSTANTS
  a1 = a1
  a2 = a2
  b1 = b1
  c1 = c1
  p1 = p1
  p2 = p2
  p3 = p3
  Writers = {a1, a2, b1}
  Processes = {p1, p2}
  Proc <- ProcOf
  Pids = {1, 2}
  CanCrash = {p1, p2}
  WriteFaults = TRUE
  MaxLog = 2
  None = None
CHECK_DEADLOCK FALSE
INVARIANTS
  ChainIntact
PROPERTIES
  NeverStolen
  StaleReclaimed
