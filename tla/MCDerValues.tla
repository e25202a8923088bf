---------------------------- MODULE MCDerValues -----------------------------
EXTENDS DerValues

\* Octets around the places where a carry or a sign could go wrong.
Edges == {0, 1, 127, 128, 129, 254, 255}
MCValues ==
  { s * (a * 65536 + b * 256 + c) + d :
      a \in Edges, b \in Edges, c \in Edges, s \in {1, -1}, d \in {-1, 0} }
MCForeign == UNION { [1 .. n -> Edges] : n \in 0 .. 4 }

\* All fractions of half precision, with exponents of double precision around
\* those where the exponent's octets change.
MCFractions == 2 ^ 10 .. 2 ^ 11 - 1
MCExponents == {-1021, -129, -118, -117, -112, 0, 1, 128, 136, 139, 1024}

\* Around 1970, days before, and far from it.
MCSeconds == (-3 .. 3) \cup {-86401, -86400, -40000, 86399, 86400, 1700000}
MCMilliseconds == 0 .. 999
MCInconvertible == {-40000, 1700000}

\* For the runs that look at one kind of value.
SomeValues == {0, 1, 255, 256}
SomeForeign == UNION { [1 .. n -> {0, 1, 128}] : n \in 1 .. 2 }
SomeFractions == {2 ^ 10, 2 ^ 11 - 1}
SomeExponents == -2 .. 2
SomeSeconds == {0}
SomeMilliseconds == {0, 1}
=============================================================================
