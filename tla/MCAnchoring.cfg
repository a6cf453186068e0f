SPECIFICATION Spec
CONSTANTS
  Emitters = {e1, e2}
  Scheduled = {e1}
  MaxEvents = 2
  MaxFaults = 1
  Missing = Missing
  Torn = Torn
  None = None
CHECK_DEADLOCK FALSE
INVARIANTS
  OnlyAcceptedReachesStore
