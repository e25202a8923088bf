CONSTANTS
  Bounds <- WholeBounds
  Malformed = {}
  Max <- WholeMax
  Chunks <- WholeChunks
  MaxThrows = 0
  MaxClears = 0
SPECIFICATION Spec
INVARIANTS
  NeverRefused
PROPERTIES
  Feed
CHECK_DEADLOCK FALSE
