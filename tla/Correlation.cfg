\* Two loads of one survey and the fills of its column, in a stream that is deep enough.
SPECIFICATION SurfaceSpec
CONSTANTS
  MaxLoads = 2
  MaxTokens = 4
  UpdatesBuffer = 8
  ParkedCap = 4
INVARIANTS
  WaitsForAnEnd
PROPERTIES
  SupersededNeverPaints
  SpinnersStop
CHECK_DEADLOCK FALSE
