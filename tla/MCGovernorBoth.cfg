SPECIFICATION BothSpec
CONSTANTS
  h1 = h1
  h2 = h2
  k1 = k1
  k2 = k2
  k3 = k3
  Holds = {h1, h2}
  Callers = {k1, k2, k3}
  Attributed = {}
  Ledger = TRUE
  Budget = 4
  StartSpent = 0
  EnvelopeFunds = 0
  EstCosts = {2}
  Costs = {1, 3}
  DeadlineCanPass = TRUE
  AppendFaults = TRUE
  PersistFaults = FALSE
  FailureThreshold = 2
  HalfOpenSuccessThreshold = 2
SYMMETRY CallerSymmetry
CHECK_DEADLOCK FALSE
INVARIANTS
  OneTerminalRecord
  ReleasedNeverCharged
  MoneyAccounted
