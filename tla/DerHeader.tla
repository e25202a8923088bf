----------------------------- MODULE DerHeader ------------------------------
(***************************************************************************)
(* Headers octet by octet, and how a receiver finds out from the octets    *)
(* that have come in so far where a structure ends (has_next).             *)
(*                                                                         *)
(* A decoding operator yields a set: what has been decoded, or nothing     *)
(* where the code throws.                                                  *)
(***************************************************************************)
EXTENDS DerOctets

CONSTANTS
  Headers,        \* the headers written, records as of asn_header
  Foreign,        \* octets somebody else has sent
  Behind,         \* what comes after a structure
  MaxStructure    \* max_structure_size

ASSUME DerHeaderAssumption ==
  /\ Headers \subseteq [class : 0 .. 3, constructed : BOOLEAN,
                       tag : 0 .. TwoTo[WordBits] - 1, length : 0 .. TwoTo[WordBits] - 1]
  /\ Foreign \subseteq Seq(Octet)
  /\ Behind \in Seq(Octet)
  /\ MaxStructure \in Nat
  /\ WordOctets < 128      \* a long length counts its octets in seven bits

VARIABLES
  sent,           \* the header written, if any
  message,        \* all the octets there will be
  arrived         \* how many have come in

vars == <<sent, message, arrived>>

Nothing == [length |-> 0]

Init ==
  /\ sent = Nothing
  /\ message = <<>>
  /\ arrived = 0

-----------------------------------------------------------------------------

\* encode_tag_first_byte.
encode_tag_first_byte(h, low) == h.class * 64 + (IF h.constructed THEN 32 ELSE 0) + low

\* encode_long_tag: digits of seven bits, all but the last marked.
encode_long_tag(h) ==
  LET digits == encode_to_octets(h.tag, WordOctets, FALSE, 7) IN
  <<encode_tag_first_byte(h, 31)>> \o
  [i \in DOMAIN digits |-> IF i < Len(digits) THEN digits[i] + 128 ELSE digits[i]]

\* Mutant: 31 is taken for a short tag.
encode_tag_31(h) ==
  IF h.tag > 31 THEN encode_long_tag(h) ELSE <<encode_tag_first_byte(h, h.tag % 32)>>

\* encode_tag.
encode_tag(h) ==
  IF h.tag > 30 THEN encode_long_tag(h) ELSE <<encode_tag_first_byte(h, h.tag % 32)>>

\* Mutant: 128 is taken for a short length.
encode_length_128(length) ==
  LET octets == encode_to_octets(length, WordOctets, FALSE, 8) IN
  IF length > 128 THEN <<128 + Len(octets)>> \o octets ELSE <<length % 128>>

\* encode_length and encode_long_length.
encode_length(length) ==
  LET octets == encode_to_octets(length, WordOctets, FALSE, 8) IN
  IF length > 127 THEN <<128 + Len(octets)>> \o octets ELSE <<length % 128>>

encode_header(h) == encode_tag(h) \o encode_length(h.length)

\* How many digits decode_long_tag takes.
MaxDigits == WordBits \div 7 + 1

\* Mutant: a digit is an octet.
decode_long_tag_octets(s) ==
  { [tag |-> ShiftedIn([i \in 1 .. n |-> s[i + 1] % 128], 256), size |-> n + 1] :
      n \in { k \in 1 .. MaxDigits : /\ k + 1 <= Len(s)
                                     /\ s[k + 1] < 128
                                     /\ \A i \in 2 .. k : s[i] >= 128 } }

\* decode_long_tag: the digits behind the first octet of s, up to one that is
\* not marked; bits shifted out of the word are lost.
decode_long_tag(s) ==
  { [tag |-> ShiftedIn([i \in 1 .. n |-> s[i + 1] % 128], 128), size |-> n + 1] :
      n \in { k \in 1 .. MaxDigits : /\ k + 1 <= Len(s)
                                     /\ s[k + 1] < 128
                                     /\ \A i \in 2 .. k : s[i] >= 128 } }

\* decode_tag.
decode_tag(s) ==
  CASE s = <<>> -> {}
    [] s # <<>> /\ s[1] % 32 = 31 -> decode_long_tag(s)
    [] OTHER -> {[tag |-> s[1] % 32, size |-> 1]}

\* decode_length and decode_long_length, behind the first p octets.
decode_length(s, p) ==
  LET n == s[p + 1] % 128 IN
  CASE p >= Len(s) -> {}
    [] p < Len(s) /\ s[p + 1] < 128 -> {[length |-> n, size |-> p + 1]}
    [] p < Len(s) /\ s[p + 1] >= 128 ->
         { [length |-> decode_from_octets(SubSeq(s, p + 2, p + 1 + k)), size |-> p + 1 + k] :
             k \in {n} \cap (1 .. WordOctets) \cap (1 .. Len(s) - p - 1) }

\* decode_header: size is how many octets it is.
decode_header(s) ==
  UNION { { [class |-> s[1] \div 64, constructed |-> IsSet(s[1], 5), tag |-> t.tag,
             length |-> l.length, size |-> l.size] :
              l \in { k \in decode_length(s, t.size) : k.length <= MaxStructure } } :
          t \in decode_tag(s) }

\* Mutant: what there is is all there will be.
has_next_partly(s) ==
  LET lengths == { h.size + h.length : h \in decode_header(s) } IN
  IF lengths = {} THEN 0 ELSE CHOOSE n \in 0 .. Len(s) : \A k \in lengths : n = k \/ n = Len(s)

\* next_length and has_next: how long the structure is that s starts with, 0
\* if it is not all there yet or has no legal header.
has_next(s) ==
  LET lengths == { n \in { h.size + h.length : h \in decode_header(s) } : n <= Len(s) }
  IN IF lengths = {} THEN 0 ELSE CHOOSE n \in lengths : TRUE

\* A structure is sent, with content that is not looked at.
Send(h) ==
  /\ message = <<>>
  /\ sent' = h
  /\ message' = encode_header(h) \o [i \in 1 .. h.length |-> 255] \o Behind
  /\ UNCHANGED arrived

Receive(s) ==
  /\ message = <<>>
  /\ message' = s
  /\ UNCHANGED <<sent, arrived>>

\* Octets come in, one after the other.
Arrive ==
  /\ arrived < Len(message)
  /\ arrived' = arrived + 1
  /\ UNCHANGED <<sent, message>>

Done == message # <<>> /\ arrived = Len(message) /\ UNCHANGED vars

Next ==
  \/ \E h \in Headers : Send(h)
  \/ \E s \in Foreign : Receive(s)
  \/ Arrive
  \/ Done

Spec == Init /\ [][Next]_vars

-----------------------------------------------------------------------------

here == SubSeq(message, 1, arrived)

\* How long what was sent is, without what comes behind it.
SentSize == Len(message) - Len(Behind)

\* A header is read back as soon as it is there, not before, and as it was
\* written, whichever form its tag and length have, unless its structure is
\* bigger than the decoder allows (asn_der_encoder.hpp:111-156,
\* asn_der_decoder.hpp:186-237).
HeaderReadBack ==
  sent # Nothing =>
    decode_header(here) =
      IF arrived >= SentSize - sent.length /\ sent.length <= MaxStructure
      THEN {[class |-> sent.class, constructed |-> sent.constructed, tag |-> sent.tag,
             length |-> sent.length, size |-> SentSize - sent.length]}
      ELSE {}

\* The receiver cuts what was sent where it ends, when its last octet is
\* there and not earlier, whatever follows (asn_der_decoder.hpp:143-162).
CutWhereItEnds ==
  sent # Nothing /\ sent.length <= MaxStructure =>
    has_next(here) = IF arrived < SentSize THEN 0 ELSE SentSize

\* Whatever has come in: once the receiver knows where a structure ends, more
\* octets do not change it.
EndIsFinal ==
  [][arrived' > arrived /\ has_next(here) # 0 => has_next(here') = has_next(here)]_vars

\* The number the digits of a long tag stand for.
DigitsValue(s, size) ==
  LET value[i \in 0 .. size - 1] == IF i = 0 THEN 0 ELSE value[i - 1] * 128 + (s[i + 1] % 128)
  IN value[size - 1]

\* A long tag that fits into a word is read as what its digits say, in as
\* many as the decoder takes (asn_der_decoder.hpp:186-197).
LongTagExact ==
  \A t \in decode_tag(here) :
    t.size > 1 /\ DigitsValue(here, t.size) < TwoTo[WordBits] => t.tag = DigitsValue(here, t.size)
=============================================================================
