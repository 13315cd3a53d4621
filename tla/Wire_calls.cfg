SPECIFICATION FairSpec
CONSTANTS
  h = h
  i = i
  u = u
  v = v
  None = None
  Call = {h, i, u, v}
  Core = {h, i}
  Timed = {h, u}
  Parent <- MCParent
  Capacity = 1
  SlowStart = TRUE
  Mortal = TRUE
INVARIANTS
  TableIsSound
PROPERTIES
  EveryCallReturns
CHECK_DEADLOCK FALSE
