CONSTANTS
  Cases <- MCCases
  Types <- MCTypes
  MaxStructure <- MCMaxStructure
  MaxItems <- MCMaxItems
SPECIFICATION Spec
INVARIANTS
  TypeOK
  ScopesOpen
  HeadersAligned
  RoundTrip
  ExtensionsSkipped
  TruncationReported
  OverrunReported
PROPERTIES
  OptionalLeavesNoTrace
  Termination
