------------------------------ MODULE DerReal -------------------------------
(***************************************************************************)
(* Real numbers as octets.                                                 *)
(*                                                                         *)
(* A normal one is its sign, the fraction that frexp yields, as a number   *)
(* of Precision bits of which the first is set, and the exponent: it is    *)
(* fraction / 2^Precision * 2^exponent.  What is read is what encode_real  *)
(* has written: the rounding of longer mantissas is left out.              *)
(***************************************************************************)
EXTENDS DerOctets

CONSTANTS
  IntOctets,     \* sizeof(int): an exponent is one
  RealOctets,    \* sizeof(Real)
  Precision,     \* how many bits its fraction has
  Exponents,     \* the exponents of normal numbers that are written
  Fractions      \* and their fractions

\* An exponent is still an int when the bits of a fraction are taken off it.
ASSUME DerRealAssumption ==
  /\ IntOctets \in 1 .. WordOctets /\ IntOctets < 256
  /\ RealOctets \in Nat \ {0}
  /\ Precision \in 1 .. 8 * RealOctets
  /\ Fractions \subseteq TwoTo[Precision - 1] .. TwoTo[Precision] - 1
  /\ Exponents \subseteq
       8 * RealOctets - TwoTo[8 * IntOctets - 1] .. TwoTo[8 * IntOctets - 1] - 1

Normals == [kind : {"normal"}, negative : BOOLEAN, fraction : Fractions, exponent : Exponents]
Specials ==
  [kind : {"zero", "infinity", "subnormal"}, negative : BOOLEAN] \cup [kind : {"nan"}]

\* encode_special_real: a set, nothing if it throws.
encode_special_real(r) ==
  CASE r.kind = "nan" -> {<<66>>}
    [] r.kind = "infinity" -> {<<IF r.negative THEN 65 ELSE 64>>}
    [] r.kind = "zero" -> {IF r.negative THEN <<67>> ELSE <<>>}
    [] r.kind = "subnormal" -> {}

\* export_mantissa: the fraction's octets without the zeros at the end.
export_mantissa(fraction) ==
  LET all == fraction * TwoTo[8 * RealOctets - Precision]
      octet(i) == (all \div TwoTo[8 * (RealOctets - i)]) % 256
      length == CHOOSE n \in 1 .. RealOctets :
                  octet(n) # 0 /\ \A i \in n + 1 .. RealOctets : octet(i) = 0
  IN [i \in 1 .. length |-> octet(i)]

\* The least bit set in the last octet.
least_sig_bit(mantissa) ==
  CHOOSE n \in 0 .. 7 : /\ IsSet(mantissa[Len(mantissa)], n)
                        /\ \A k \in 0 .. n - 1 : ~IsSet(mantissa[Len(mantissa)], k)

\* Mutant: the bits that leave one octet do not come into the next.
normalise_mantissa_lossy(mantissa) ==
  [i \in DOMAIN mantissa |-> mantissa[i] \div TwoTo[least_sig_bit(mantissa)]]

\* normalise_mantissa: shifted to the right until it is odd.
normalise_mantissa(mantissa) ==
  LET n == least_sig_bit(mantissa) IN
  [i \in DOMAIN mantissa |->
     (mantissa[i] \div TwoTo[n])
     + (IF i = 1 THEN 0 ELSE (mantissa[i - 1] % TwoTo[n]) * TwoTo[8 - n])]

\* Mutant: shifted by an octet at a time only.
encode_normal_real_even(r) ==
  LET mantissa == export_mantissa(r.fraction)
      exponent == encode_integer(r.exponent - Len(mantissa) * 8, IntOctets)
  IN <<128 + (IF r.negative THEN 64 ELSE 0) + Len(exponent) - 1>> \o exponent \o mantissa

\* encode_normal_real: sign, base 2 and scale 0, exponent, mantissa.
encode_normal_real(r) ==
  LET mantissa == export_mantissa(r.fraction)
      shift == Len(mantissa) * 8 - least_sig_bit(mantissa)
      exponent == encode_integer(r.exponent - shift, IntOctets)
      length == Len(exponent)
      first == 128 + (IF r.negative THEN 64 ELSE 0) + (IF length > 3 THEN 3 ELSE length - 1)
  IN <<first>> \o (IF length > 3 THEN <<length>> ELSE <<>>)
     \o exponent \o normalise_mantissa(mantissa)

\* encode_real: a set, nothing if it throws.
encode_real(r) == IF r.kind = "normal" THEN {encode_normal_real(r)} ELSE encode_special_real(r)

\* ldexp, of a mantissa that has no more bits than a real.
Ldexp(negative, mantissa, exponent) ==
  LET n == CHOOSE k \in 0 .. Precision - 1 :
             mantissa * TwoTo[k] \in TwoTo[Precision - 1] .. TwoTo[Precision] - 1
  IN [kind |-> "normal", negative |-> negative,
      fraction |-> mantissa * TwoTo[n], exponent |-> exponent + Precision - n]

\* decode_special_real: a set, nothing if it throws.
decode_special_real(octet) ==
  CASE octet = 66 -> {[kind |-> "nan"]}
    [] octet = 64 -> {[kind |-> "infinity", negative |-> FALSE]}
    [] octet = 65 -> {[kind |-> "infinity", negative |-> TRUE]}
    [] octet = 67 -> {[kind |-> "zero", negative |-> TRUE]}
    [] OTHER -> {}

\* check_to_decode_normal_real: only binary, base 2, scale 0.
Accepted(first) == first >= 128 /\ \A n \in 2 .. 5 : ~IsSet(first, n)

\* decode_normal_real: a set, nothing if it throws.
decode_normal_real(s) ==
  LET long == s[1] % 4 = 3
      size == IF long THEN s[2] ELSE (s[1] % 4) + 1
      start == IF long THEN 2 ELSE 1
      exponent == Signed(decode_integer(SubSeq(s, start + 1, start + size), IntOctets))
      mantissa == Magnitude(SubSeq(s, start + size + 1, Len(s)))
  IN IF Accepted(s[1]) /\ Len(s) >= start + size + 1
     THEN {Ldexp(IsSet(s[1], 6), mantissa, exponent)}
     ELSE {}

\* decode_real: of no octets at all, a variable nobody has assigned.
decode_real(s) ==
  CASE Len(s) = 0 -> Normals \cup Specials
    [] Len(s) = 1 -> decode_special_real(s[1])
    [] OTHER -> decode_normal_real(s)
=============================================================================
