CONSTANTS
  Objects <- MCObjects
  Cases <- MCCases
  Size <- MCSize
  MaxCalls = 2
  MaxFailures = 2
SPECIFICATION Spec
INVARIANTS
  TypeOK
  LayersOpen
  NothingHeldBack
  FailureReported
  OutputWhole
  OutputIsWritten
