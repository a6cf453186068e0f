SPECIFICATION PartsSpec
CONSTANTS
  FailureThreshold = 3
  HalfOpenSuccessThreshold = 2
  ResetTimeout = 3
  MaxOutstanding = 4
  LastChild = 3
  LastProbe = 4
  Transfers = {x1}
  Ping = Ping
  LastClient = 1
  MaxRetries = 2
  DestroyThrows = TRUE
  Torn = {t1, t2}
  Clean = Clean
  MaxEvents = 3
  MaxFaults = 5
CHECK_DEADLOCK FALSE
INVARIANTS
  StateHonest
  NeverAborts
  TransferOnce
  EvidenceKept
PROPERTIES
  ImplementsContract
  CloseEndsRequests
  Converges
