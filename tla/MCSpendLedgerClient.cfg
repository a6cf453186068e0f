SPECIFICATION Spec
CONSTANTS
  i1 = i1
  i2 = i2
  c1 = c1
  c2 = c2
  d1 = d1
  d2 = d2
  Instances = {i2}
  Calls = {d1, d2}
  Of <- CallsOf
  Costs = {1, 2}
  Serialized = {}
  MaxPersistable = 6
  None = None
CHECK_DEADLOCK FALSE
PROPERTIES
  NeverRegresses
