CONSTANTS
  WordOctets = 3
  Values <- MCValues
  Foreign <- MCForeign
  IntOctets = 2
  RealOctets = 2
  Precision = 11
  Exponents <- MCExponents
  Fractions <- MCFractions
  Seconds <- MCSeconds
  Milliseconds <- MCMilliseconds
  Inconvertible <- MCInconvertible
SPECIFICATION Spec
INVARIANTS
  WrittenShortest
  ReadByEveryType
  SignedExactOrRefused
  UnsignedExactOrRefused
  RealReadBack
  MantissaNormalised
  TimeReadBack
