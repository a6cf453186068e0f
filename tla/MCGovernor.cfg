SPECIFICATION EitherSpec
CONSTANTS
  h1 = h1
  h2 = h2
  k1 = k1
  Holds = {h1, h2}
  Callers = {k1}
  Attributed = {h2}
  Ledger = TRUE
  Budget = 2
  StartSpent = 0
  EnvelopeFunds = 2
  EstCosts = {2}
  Costs = {1, 3}
  DeadlineCanPass = TRUE
  AppendFaults = FALSE
  PersistFaults = FALSE
  FailureThreshold = 2
  HalfOpenSuccessThreshold = 2
CHECK_DEADLOCK FALSE
INVARIANTS
  AnswersBacked
  HoldTotalExact
PROPERTIES
  DestroyEnds
  EveryHoldRecorded
