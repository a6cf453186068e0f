SPECIFICATION PartsSpec
CONSTANTS
  i1 = i1
  i2 = i2
  c1 = c1
  c2 = c2
  d1 = d1
  d2 = d2
  Instances = {i1, i2}
  Calls = {c1, c2, d1, d2}
  Of <- CallsOf
  Costs = {1, 2}
  Serialized = {i1}
  MaxPersistable = 5
  None = None
  k1 = k1
  k2 = k2
  HookCalls = {k1, k2}
  Transfers = {h1, h2, h3}
  Stops = {s1, s2}
  Hosts <- AllHosts
  MaxFires = 2
  s1 = s1
  s2 = s2
  e1 = e1
  e2 = e2
  Missing = Missing
  Torn = Torn
CHECK_DEADLOCK FALSE
INVARIANTS
  QuietIsOnDisk
  ChargedOnce
  UnchargedIsTold
  NoFreshBeside
  StoreIsOneChain
PROPERTIES
  FallsOnlyInARace
