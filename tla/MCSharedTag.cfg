CONSTANTS
  Cases <- SharedTagCases
  Types <- SharedTagTypes
  MaxStructure <- MCMaxStructure
  MaxItems <- MCMaxItems
SPECIFICATION Spec
INVARIANTS
  RoundTrip
