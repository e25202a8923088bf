----------------------------- MODULE DerInteger -----------------------------
(***************************************************************************)
(* The types of integers, and what reading octets as one of them yields.   *)
(*                                                                         *)
(* A type is its size in octets and whether it has a sign; between the     *)
(* variable and the codec the value is a word (promote_type).              *)
(***************************************************************************)
EXTENDS DerOctets

Types == [size : 1 .. WordOctets, signed : BOOLEAN]

Least(type) == IF type.signed THEN -TwoTo[8 * type.size - 1] ELSE 0
Greatest(type) == IF type.signed THEN TwoTo[8 * type.size - 1] - 1 ELSE TwoTo[8 * type.size] - 1
Holds(type, n) == Least(type) <= n /\ n <= Greatest(type)

\* The number a variable of a type has that is assigned a word, whose upper
\* octets are lost.
Assigned(type, word) ==
  LET low == word % TwoTo[8 * type.size] IN
  IF type.signed /\ low > Greatest(type) THEN low - TwoTo[8 * type.size] ELSE low

\* Mutant: no type has one more.
Fits_tightly(length, type) == length >= 1 /\ length <= type.size

\* Mutant: every type has one more.
Fits_loosely(length, type) == length >= 1 /\ length <= type.size + 1

\* The lengths the decoder lets through: an unsigned type has one more, for
\* an octet of zeros in front.
Fits(length, type) == length >= 1 /\ length <= type.size + (IF type.signed THEN 0 ELSE 1)

\* Mutant: the sign is not looked at.
IntegerOf_unchecked(type, octets) ==
  IF Fits(Len(octets), type)
  THEN {Assigned(type, decode_integer(octets, type.size))}
  ELSE {}

\* asn_der_decoder::decode_integer and deserialiser::handle of an integer: a
\* set, nothing if they throw.
IntegerOf(type, octets) ==
  IF Fits(Len(octets), type) /\ (type.signed \/ octets[1] < 128)
  THEN {Assigned(type, decode_integer(octets, type.size))}
  ELSE {}

\* The number octets stand for: two's complement, the most significant first
\* (serialisation/types.hpp:38).
Number(s) == IF s[1] >= 128 THEN Magnitude(s) - TwoTo[8 * Len(s)] ELSE Magnitude(s)
=============================================================================
