CONSTANTS
  Octets = {0, 1, 2}
  MaxSize = 5
  MaxCall = 3
SPECIFICATION Spec
INVARIANT
  TypeOK
PROPERTY
  QueueSpec
