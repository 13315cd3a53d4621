SPECIFICATION FairSpec
CONSTANTS
  Stoppers = {s1, s2}
  s1 = s1
  s2 = s2
  Concurrent = FALSE
  Restarts = TRUE
  MaxRestarts = 2
  Launches = 4
INVARIANTS
  ProcessAndWire
PROPERTIES
  StopIsOrderly
  StopStops
