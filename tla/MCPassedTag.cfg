CONSTANTS
  Cases <- PassedTagCases
  Types <- PassedTagTypes
  MaxStructure <- MCMaxStructure
  MaxItems <- MCMaxItems
SPECIFICATION Spec
INVARIANTS
  RoundTrip
