SPECIFICATION FairSpec
CONSTANTS
  h1 = h1
  h2 = h2
  Holds = {h1, h2}
  Settlers = {"settle1"}
  Procs <- Beside
  Amount = 2
  Intents <- Settlements
  Budget = 4
  Loads <- FaultsOrTwo
  None = None
CHECK_DEADLOCK FALSE
INVARIANTS
  BilledOnce
  TerminalAgrees
  DebtAgrees
PROPERTIES
  AdmittedWithinBudget
  Resolves
