CONSTANTS
  WordOctets = 3
  Values <- SomeValues
  Foreign <- SomeForeign
  IntOctets = 2
  RealOctets = 2
  Precision = 11
  Exponents <- SomeExponents
  Fractions <- SomeFractions
  Seconds <- SomeSeconds
  Milliseconds <- SomeMilliseconds
  Inconvertible <- MCInconvertible
SPECIFICATION Spec
INVARIANT
  ExactOrRefused
