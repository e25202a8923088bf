CONSTANTS
  Bounds <- FaultBounds
  Malformed = {3}
  Max <- FaultMax
  Chunks <- FaultChunks
  MaxThrows = 2
  MaxClears = 2
SPECIFICATION Spec
INVARIANTS
  TypeOK
  NothingWaits
  NoPacketLost
PROPERTIES
  FramesWhole
  StallReported
CHECK_DEADLOCK FALSE
