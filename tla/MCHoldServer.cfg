SPECIFICATION FairSpec
CONSTANTS
  h1 = h1
  h2 = h2
  Holds = {h1, h2}
  Settles <- SomeSettles
  Ends <- SomeEnds
  Memory = 1
  Throws = TRUE
CHECK_DEADLOCK FALSE
INVARIANTS
  GoneIsUncharged
PROPERTIES
  OutageAnswered
