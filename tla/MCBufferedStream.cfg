CONSTANTS
  Data <- MCData
  Zero = 0
  MaxRead = 3
  MaxPeeks = 3
SPECIFICATION Spec
INVARIANTS
  TypeOK
  PositionsNest
  BufferCoherent
PROPERTY PeekableSpec
CHECK_DEADLOCK TRUE
