----------------------------- MODULE DerOctets -----------------------------
(***************************************************************************)
(* Numbers as octets: what the codecs of integers, of tags and lengths and *)
(* of a real's exponent are made of.  Words are unsigned and WordOctets    *)
(* wide (eight in the program); a negative number is what it is, and       *)
(* Word(n) the word that stands for it.                                    *)
(***************************************************************************)
EXTENDS Integers, Sequences

CONSTANT WordOctets

ASSUME DerOctetsAssumption == WordOctets \in Nat \ {0}

WordBits == 8 * WordOctets

\* 2 to the n.
TwoTo[n \in Nat] == IF n = 0 THEN 1 ELSE 2 * TwoTo[n - 1]

Word(n) == n % TwoTo[WordBits]

Octet == 0 .. 255

\* Bit n of a number; a negative one has its two's complement bits.
IsSet(value, n) == (value \div TwoTo[n]) % 2 = 1

\* The number a word stands for as a signed one.
Signed(word) == IF word < TwoTo[WordBits - 1] THEN word ELSE word - TwoTo[WordBits]

\* highest_bit_block: in which block of bits the highest one set is, counting
\* from 0, one more for a sign if there is no room for it.
highest_bit_block(value, treat_as_signed, size_hint, block) ==
  LET set == { n \in 0 .. size_hint * 8 - 1 : IsSet(value, n) }
      bits == IF set = {} THEN 0 ELSE 1 + CHOOSE n \in set : \A k \in set : k <= n
      needed == IF treat_as_signed /\ bits % block = 0 THEN bits + 1 ELSE bits
  IN IF needed = 0 THEN 0 ELSE (needed - 1) \div block

\* bits_from_position.
bits_from_position(value, pos, block) ==
  IF pos < WordBits THEN (value \div TwoTo[pos]) % TwoTo[block] ELSE 0

\* encode_to_octets, without the mask its caller adds.
encode_to_octets(value, size_hint, treat_as_signed, block) ==
  LET length == highest_bit_block(value, treat_as_signed, size_hint, block) + 1
  IN [i \in 1 .. length |-> bits_from_position(value, (length - i) * block, block)]

\* The word that digits have shifted in one after the other: bits that are
\* shifted out are lost.
ShiftedIn(digits, base) ==
  LET value[i \in 0 .. Len(digits)] ==
        IF i = 0 THEN 0 ELSE Word(value[i - 1] * base + digits[i])
  IN value[Len(digits)]

\* decode_from_octets.
decode_from_octets(octets) == ShiftedIn(octets, 256)

\* The number octets are, however many, the most significant first.
Magnitude(octets) ==
  LET value[i \in 0 .. Len(octets)] == IF i = 0 THEN 0 ELSE value[i - 1] * 256 + octets[i]
  IN value[Len(octets)]

\* value ^ mask, for the mask of all ones that is octets wide.
Complemented(value, octets) ==
  LET m == TwoTo[8 * octets] IN (value \div m) * m + (m - 1) - (value % m)

\* Mutant: the number is complemented in the width of its type.
translate_negative_wide(value, size_hint) == Complemented(-(value + 1), size_hint)

\* translate_negative.
translate_negative(value, size_hint) ==
  LET number == -(value + 1)
  IN Complemented(number, highest_bit_block(number, TRUE, size_hint, 8) + 1)

\* encode_integer: the fewest octets that have the value in two's complement.
encode_integer(value, size_hint) ==
  IF value < 0
  THEN encode_to_octets(translate_negative(value, size_hint), size_hint, FALSE, 8)
  ELSE encode_to_octets(value, size_hint, TRUE, 8)

\* decode_integer, as a word.
decode_integer(octets, size_hint) ==
  LET value == decode_from_octets(octets)
      width == highest_bit_block(value, FALSE, size_hint, 8) + 1
  IN IF octets[1] >= 128 THEN Word(-Complemented(value, width) - 1) ELSE value
=============================================================================
