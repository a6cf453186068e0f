SPECIFICATION PartsSpec
CONSTANTS
  c1 = c1
  c2 = c2
  c3 = c3
  c4 = c4
  Main = Main
  Fork = Fork
  p1 = p1
  q1 = q1
  s1 = s1
  s2 = s2
  h1 = h1
  h2 = h2
  h3 = h3
  h4 = h4
  None = None
  Messages = {1, 2}
  Pres = {p1}
  Posts = {q1}
  Stops = {s1, s2}
  Transfers = {h1, h2, h3, h4}
  Sessions <- AllSessions
  Calls = {c1, c2, c3, c4}
  Kinds = {"none", "plain", "google", "iter", "helper"}
  Attributed = {c4}
  Engines = {TRUE, FALSE}
  Budget = 4
  EnvelopeFunds = 3
  EstCosts = {2}
  Costs = {1, 3}
  FailClosed = TRUE
  AppendFaults = {c1}
  LedgerFaults = {c1, c3}
  HoldsExpire = {c1, c3}
  LateSignals = TRUE
  DeadlineCanPass = TRUE
CHECK_DEADLOCK FALSE
INVARIANTS
  VoidedNeverCharged
  ChargeExplained
  NothingLeftPending
  PostedOnce
  DoneIsCharged
PROPERTIES
  StreamsAnswer
