SPECIFICATION Spec
CONSTANTS
  a1 = a1
  a2 = a2
  b1 = b1
  c1 = c1
  p1 = p1
  p2 = p2
  p3 = p3
  Writers = {a1, b1, c1}
  Processes = {p1, p2, p3}
  Proc <- ProcOf
  Pids = {1, 2, 3}
  CanCrash = {p1}
  WriteFaults = FALSE
  MaxLog = 3
  None = None
CHECK_DEADLOCK FALSE
INVARIANTS
  ExclusiveWriter
