CONSTANTS
  WordOctets = 2
  Headers <- MCHeaders
  Foreign <- MCForeign
  Behind <- MCBehind
  MaxStructure = 300
SPECIFICATION Spec
INVARIANTS
  HeaderReadBack
  CutWhereItEnds
  LongTagExact
PROPERTIES
  EndIsFinal
