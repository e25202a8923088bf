--------------------------- MODULE DerHeaderProofs ----------------------------
(***************************************************************************)
(* For words of any size, any headers and any octets of others, however    *)
(* many of them have come in: a header is read back as it was written, as  *)
(* soon as it is there and not before, and where a structure ends does not *)
(* change with what comes behind it.                                       *)
(***************************************************************************)
EXTENDS DerHeader, DerProofs

\* t is s, with more behind it.
Continues(t, s) ==
  /\ s \in Seq(Octet) /\ t \in Seq(Octet)
  /\ Len(s) <= Len(t)
  /\ \A i \in 1 .. Len(s) : t[i] = s[i]

LEMMA OctetFacts ==
  ASSUME NEW s \in Seq(Octet)
  PROVE  /\ Len(s) \in Nat
         /\ \A i \in 1 .. Len(s) : s[i] \in Nat /\ s[i] <= 255
<1>1. \A i \in 1 .. Len(s) : s[i] \in Octet
  BY ElementOfSeq
<1>2. \A o \in Octet : o \in Nat /\ o <= 255
  BY DEF Octet
<1>3. Len(s) \in Nat
  BY LenProperties
<1> QED BY <1>1, <1>2, <1>3

-----------------------------------------------------------------------------
(***************************************************************************)
(* What is decoded is one thing at most, and stays it.                     *)
(***************************************************************************)

\* Where the digits of a long tag may end, and the tag if they end there.
Ends(s) == { k \in 1 .. MaxDigits : /\ k + 1 <= Len(s)
                                    /\ s[k + 1] < 128
                                    /\ \A i \in 2 .. k : s[i] >= 128 }
LongTag(s, n) == [tag |-> ShiftedIn([i \in 1 .. n |-> s[i + 1] % 128], 128), size |-> n + 1]

\* The length that has k octets.
LongLength(s, p, k) ==
  [length |-> decode_from_octets(SubSeq(s, p + 2, p + 1 + k)), size |-> p + 1 + k]

LEMMA DecodeLongTag ==
  ASSUME NEW s
  PROVE  decode_long_tag(s) = { LongTag(s, n) : n \in Ends(s) }
BY Zenon DEF decode_long_tag, LongTag, Ends

LEMMA MaxDigitsNat == MaxDigits \in Nat
<1>1. PICK b \in Nat : WordBits = b
  BY WordFacts
<1>2. (b \div 7) + 1 \in Nat
  BY <1>1
<1> QED BY <1>1, <1>2 DEF MaxDigits

LEMMA EndsFacts ==
  ASSUME NEW s \in Seq(Octet)
  PROVE  /\ \A k \in Ends(s) : k \in Nat /\ k >= 1 /\ k + 1 <= Len(s)
         /\ \A k, l \in Ends(s) : k = l
<1>1. MaxDigits \in Nat
  BY MaxDigitsNat
<1>2. \A k \in Ends(s) : /\ k \in Nat /\ k >= 1 /\ k + 1 <= Len(s) /\ s[k + 1] < 128
                         /\ \A i \in 2 .. k : s[i] >= 128
  BY <1>1 DEF Ends
<1>3. ASSUME NEW k \in Ends(s), NEW l \in Ends(s), k < l
      PROVE  FALSE
  <2>1. k + 1 \in 2 .. l /\ k + 1 \in 1 .. Len(s)
    BY <1>2, <1>3, OctetFacts
  <2>2. s[k + 1] >= 128 /\ s[k + 1] < 128 /\ s[k + 1] \in Nat
    BY <2>1, <1>2, OctetFacts
  <2> QED BY <2>2
<1>4. \A k, l \in Ends(s) : k = l
  BY <1>2, <1>3
<1> QED BY <1>2, <1>4

LEMMA EndsStay ==
  ASSUME NEW s, NEW t, Continues(t, s), NEW k \in Ends(s)
  PROVE  k \in Ends(t) /\ LongTag(t, k) = LongTag(s, k)
<1>1. /\ s \in Seq(Octet) /\ t \in Seq(Octet) /\ Len(s) <= Len(t)
      /\ Len(s) \in Nat /\ Len(t) \in Nat
      /\ \A i \in 1 .. Len(s) : t[i] = s[i]
  BY OctetFacts DEF Continues
<1>2. k \in Nat /\ k >= 1 /\ k + 1 <= Len(s)
  BY <1>1, EndsFacts
<1>3. k \in 1 .. MaxDigits /\ s[k + 1] < 128 /\ \A i \in 2 .. k : s[i] >= 128
  BY DEF Ends
<1>4. k + 1 \in 1 .. Len(s) /\ \A i \in 2 .. k : i \in 1 .. Len(s)
  BY <1>1, <1>2
<1>5. k \in Ends(t)
  <2>1. k + 1 <= Len(t) /\ t[k + 1] < 128
    BY <1>1, <1>2, <1>3, <1>4
  <2>2. \A i \in 2 .. k : t[i] >= 128
    BY <1>1, <1>3, <1>4
  <2> QED BY <2>1, <2>2, <1>3 DEF Ends
<1>6. \A i \in 1 .. k : t[i + 1] % 128 = s[i + 1] % 128
  <2>1. \A i \in 1 .. k : i + 1 \in 1 .. Len(s)
    BY <1>1, <1>2
  <2> QED BY <2>1, <1>1
<1>7. [i \in 1 .. k |-> t[i + 1] % 128] = [i \in 1 .. k |-> s[i + 1] % 128]
  BY <1>6, Zenon
<1>8. LongTag(t, k) = LongTag(s, k)
  BY <1>7, Zenon DEF LongTag
<1> QED BY <1>5, <1>8

LEMMA DecodeTagCases ==
  ASSUME NEW s \in Seq(Octet)
  PROVE  /\ s = <<>> => decode_tag(s) = {}
         /\ s # <<>> /\ s[1] % 32 = 31 => decode_tag(s) = { LongTag(s, n) : n \in Ends(s) }
         /\ s # <<>> /\ s[1] % 32 # 31 => decode_tag(s) = {[tag |-> s[1] % 32, size |-> 1]}
<1>1. CASE s = <<>>
  BY <1>1 DEF decode_tag
<1>2. CASE s # <<>>
  BY <1>2, DecodeLongTag DEF decode_tag
<1> QED BY <1>1, <1>2

LEMMA TagStays ==
  ASSUME NEW s, NEW t, Continues(t, s)
  PROVE  /\ decode_tag(s) \subseteq decode_tag(t)
         /\ \A g, h \in decode_tag(t) : g = h
         /\ \A g \in decode_tag(t) : g.size \in Nat /\ g.size >= 1 /\ g.size <= Len(t)
<1>1. /\ s \in Seq(Octet) /\ t \in Seq(Octet) /\ Len(s) <= Len(t)
      /\ Len(s) \in Nat /\ Len(t) \in Nat
      /\ \A i \in 1 .. Len(s) : t[i] = s[i]
  BY OctetFacts DEF Continues
<1>2. CASE t = <<>>
  <2>1. s = <<>>
    <3>1. Len(t) = 0
      BY <1>2
    <3>2. Len(s) = 0
      BY <3>1, <1>1
    <3> QED BY <3>2, <1>1
  <2> QED BY <2>1, <1>1, <1>2, DecodeTagCases
<1>3. CASE t # <<>> /\ t[1] % 32 # 31
  <2>1. decode_tag(t) = {[tag |-> t[1] % 32, size |-> 1]}
    BY <1>1, <1>3, DecodeTagCases
  <2>2. decode_tag(s) \subseteq decode_tag(t)
    <3>1. CASE s = <<>>
      BY <3>1, <1>1, DecodeTagCases
    <3>2. CASE s # <<>>
      <4>1. 1 \in 1 .. Len(s)
        BY <3>2, <1>1
      <4>2. s[1] = t[1]
        BY <4>1, <1>1
      <4> QED BY <4>2, <3>2, <2>1, <1>1, <1>3, DecodeTagCases
    <3> QED BY <3>1, <3>2
  <2>3. Len(t) >= 1
    BY <1>1, <1>3
  <2> QED BY <2>1, <2>2, <2>3
<1>4. CASE t # <<>> /\ t[1] % 32 = 31
  <2>1. decode_tag(t) = { LongTag(t, n) : n \in Ends(t) }
    BY <1>1, <1>4, DecodeTagCases
  <2>2. decode_tag(s) \subseteq decode_tag(t)
    <3>1. CASE s = <<>>
      BY <3>1, <1>1, DecodeTagCases
    <3>2. CASE s # <<>>
      <4>1. 1 \in 1 .. Len(s)
        BY <3>2, <1>1
      <4>2. s[1] = t[1]
        BY <4>1, <1>1
      <4>3. decode_tag(s) = { LongTag(s, n) : n \in Ends(s) }
        BY <4>2, <3>2, <1>1, <1>4, DecodeTagCases
      <4>4. \A n \in Ends(s) : n \in Ends(t) /\ LongTag(t, n) = LongTag(s, n)
        BY EndsStay
      <4> QED BY <4>3, <4>4, <2>1
    <3> QED BY <3>1, <3>2
  <2>3. \A k, l \in Ends(t) : k = l
    BY <1>1, EndsFacts
  <2>4. \A k \in Ends(t) : k \in Nat /\ k >= 1 /\ k + 1 <= Len(t)
    BY <1>1, EndsFacts
  <2>5. \A k \in Ends(t) : LongTag(t, k).size = k + 1
    BY DEF LongTag
  <2> QED BY <2>1, <2>2, <2>3, <2>4, <2>5
<1> QED BY <1>2, <1>3, <1>4

\* The octets of a long length.
LEMMA LengthOctets ==
  ASSUME NEW s, NEW p \in Nat, NEW k \in Nat
  PROVE  SubSeq(s, p + 2, p + 1 + k) = [i \in 1 .. k |-> s[p + 1 + i]]
<1> DEFINE x == SubSeq(s, p + 2, p + 1 + k)
<1>1. x = [i \in 1 .. (p + 1 + k) - (p + 2) + 1 |-> s[(p + 2) + i - 1]]
  OBVIOUS
<1>2. (p + 1 + k) - (p + 2) + 1 = k
  OBVIOUS
<1>3. \A i \in 1 .. k : (p + 2) + i - 1 = p + 1 + i
  OBVIOUS
<1>4. \A i \in 1 .. k : s[(p + 2) + i - 1] = s[p + 1 + i]
  BY <1>3
<1>5. [i \in 1 .. k |-> s[(p + 2) + i - 1]] = [i \in 1 .. k |-> s[p + 1 + i]]
  BY <1>4, Zenon
<1> HIDE DEF x
<1>6. x = [i \in 1 .. k |-> s[(p + 2) + i - 1]]
  BY <1>1, <1>2
<1> QED BY <1>5, <1>6 DEF x

LEMMA DecodeLengthCases ==
  ASSUME NEW s \in Seq(Octet), NEW p \in Nat
  PROVE  /\ p >= Len(s) => decode_length(s, p) = {}
         /\ p < Len(s) /\ s[p + 1] < 128 =>
              decode_length(s, p) = {[length |-> s[p + 1] % 128, size |-> p + 1]}
         /\ p < Len(s) /\ s[p + 1] >= 128 =>
              decode_length(s, p) =
                { LongLength(s, p, k) :
                    k \in {s[p + 1] % 128} \cap (1 .. WordOctets) \cap (1 .. Len(s) - p - 1) }
<1>1. Len(s) \in Nat
  BY OctetFacts
<1>2. CASE p >= Len(s)
  <2>1. ~(p < Len(s))
    BY <1>1, <1>2
  <2> QED BY <2>1, <1>2 DEF decode_length
<1>3. CASE p < Len(s) /\ s[p + 1] < 128
  <2>1. ~(p >= Len(s))
    BY <1>1, <1>3
  <2>2. ~(s[p + 1] >= 128)
    <3>1. p + 1 \in 1 .. Len(s)
      BY <1>1, <1>3
    <3>2. s[p + 1] \in Nat
      BY <3>1, OctetFacts
    <3> QED BY <3>2, <1>3
  <2> QED BY <2>1, <2>2, <1>3 DEF decode_length
<1>4. CASE p < Len(s) /\ s[p + 1] >= 128
  <2>1. ~(p >= Len(s))
    BY <1>1, <1>4
  <2>2. ~(s[p + 1] < 128)
    <3>1. p + 1 \in 1 .. Len(s)
      BY <1>1, <1>4
    <3>2. s[p + 1] \in Nat
      BY <3>1, OctetFacts
    <3> QED BY <3>2, <1>4
  <2> QED BY <2>1, <2>2, <1>4 DEF decode_length, LongLength
<1> QED BY <1>1, <1>2, <1>3, <1>4

LEMMA LengthFacts ==
  ASSUME NEW s \in Seq(Octet), NEW p \in Nat, NEW g \in decode_length(s, p)
  PROVE  g.length \in Nat /\ g.size \in Nat /\ g.size > p /\ g.size <= Len(s)
<1>1. PICK a \in Nat : Len(s) = a
  BY OctetFacts
<1>2. p < a
  BY <1>1, DecodeLengthCases
<1>3. p + 1 \in 1 .. a
  BY <1>2
<1>4. PICK o \in Nat : s[p + 1] = o
  BY <1>1, <1>3, OctetFacts
<1>5. CASE o < 128
  <2>0. p < Len(s) /\ s[p + 1] < 128 /\ s[p + 1] = o
    BY <1>1, <1>2, <1>4, <1>5
  <2>1. g = [length |-> o % 128, size |-> p + 1]
    <3>1. decode_length(s, p) = {[length |-> s[p + 1] % 128, size |-> p + 1]}
      BY <2>0, DecodeLengthCases
    <3>2. g = [length |-> s[p + 1] % 128, size |-> p + 1]
      BY <3>1, Zenon
    <3> QED BY <3>2, <2>0, Zenon
  <2>2. o % 128 \in Nat
    OBVIOUS
  <2> QED BY <2>1, <2>2, <1>1, <1>2
<1>6. CASE o >= 128
  <2>1. PICK k \in {o % 128} \cap (1 .. WordOctets) \cap (1 .. a - p - 1) :
          g = LongLength(s, p, k)
    BY <1>1, <1>2, <1>4, <1>6, DecodeLengthCases
  <2>2. k \in 1 .. a - p - 1
    BY <2>1
  <2>3. k \in Nat /\ k >= 1 /\ p + 1 + k <= a
    BY <2>2, <1>2
  <2> DEFINE x == SubSeq(s, p + 2, p + 1 + k)
  <2>4. /\ Len(x) = k
        /\ \A i \in 1 .. k : x[i] \in Nat
    <3>3. x = [i \in 1 .. k |-> s[p + 1 + i]]
      BY <2>3, LengthOctets
    <3>4. \A i \in 1 .. k : p + 1 + i \in 1 .. a
      BY <2>3
    <3>5. \A i \in 1 .. k : s[p + 1 + i] \in Nat
      BY <3>4, <1>1, OctetFacts
    <3>6. x \in [1 .. k -> Nat]
      BY <3>3, <3>5
    <3> HIDE DEF x
    <3>7. Len(x) = k
      BY <3>6, <2>3
    <3> QED BY <3>6, <3>7
  <2> HIDE DEF x
  <2>5. ShiftedIn(x, 256) \in Nat
    <3>1. Len(x) \in Nat /\ \A i \in 1 .. Len(x) : x[i] \in Nat
      BY <2>3, <2>4
    <3> QED BY <3>1, ShiftedInWord
  <2>6. g.length = ShiftedIn(x, 256) /\ g.size = p + 1 + k
    BY <2>1 DEF LongLength, decode_from_octets, x
  <2> QED BY <2>3, <2>5, <2>6, <1>1
<1> QED BY <1>5, <1>6

LEMMA LengthStays ==
  ASSUME NEW s, NEW t, Continues(t, s), NEW p \in Nat
  PROVE  /\ decode_length(s, p) \subseteq decode_length(t, p)
         /\ \A g, h \in decode_length(t, p) : g = h
<1>1. /\ s \in Seq(Octet) /\ t \in Seq(Octet) /\ Len(s) <= Len(t)
      /\ Len(s) \in Nat /\ Len(t) \in Nat
      /\ \A i \in 1 .. Len(s) : t[i] = s[i]
  BY OctetFacts DEF Continues
<1>2. \A g, h \in decode_length(t, p) : g = h
  <2>1. CASE p >= Len(t)
    BY <2>1, <1>1, DecodeLengthCases
  <2>2. CASE p < Len(t)
    <3>1. p + 1 \in 1 .. Len(t)
      BY <1>1, <2>2
    <3>2. t[p + 1] \in Nat
      BY <3>1, <1>1, OctetFacts
    <3>3. CASE t[p + 1] < 128
      BY <3>3, <2>2, <1>1, DecodeLengthCases, SMTT(20)
    <3>4. CASE t[p + 1] >= 128
      <4>1. decode_length(t, p) =
              { LongLength(t, p, k) :
                  k \in {t[p + 1] % 128} \cap (1 .. WordOctets) \cap (1 .. Len(t) - p - 1) }
        BY <3>4, <2>2, <1>1, DecodeLengthCases
      <4> QED BY <4>1
    <3> QED BY <3>2, <3>3, <3>4
  <2> QED BY <1>1, <2>1, <2>2
<1>3. decode_length(s, p) \subseteq decode_length(t, p)
  <2>1. CASE p >= Len(s)
    BY <2>1, <1>1, DecodeLengthCases
  <2>2. CASE p < Len(s)
    <3>1. p + 1 \in 1 .. Len(s) /\ p < Len(t)
      BY <1>1, <2>2
    <3>2. s[p + 1] = t[p + 1] /\ s[p + 1] \in Nat
      BY <3>1, <1>1, OctetFacts
    <3>3. CASE s[p + 1] < 128
      BY <3>1, <3>2, <3>3, <2>2, <1>1, DecodeLengthCases
    <3>4. CASE s[p + 1] >= 128
      <4> DEFINE n == s[p + 1] % 128
                 A == {n} \cap (1 .. WordOctets) \cap (1 .. Len(s) - p - 1)
                 B == {n} \cap (1 .. WordOctets) \cap (1 .. Len(t) - p - 1)
      <4>1. decode_length(s, p) = { LongLength(s, p, k) : k \in A }
        BY <3>4, <2>2, <1>1, DecodeLengthCases
      <4>2. decode_length(t, p) = { LongLength(t, p, k) : k \in B }
        BY <3>1, <3>2, <3>4, <1>1, DecodeLengthCases
      <4>3. ASSUME NEW k \in A
            PROVE  k \in B /\ LongLength(s, p, k) = LongLength(t, p, k)
        <5> HIDE DEF n
        <5>1. k \in 1 .. Len(s) - p - 1 /\ k \in 1 .. WordOctets /\ k = n
          OBVIOUS
        <5> HIDE DEF A, B
        <5>2. PICK a \in Nat, b \in Nat : Len(s) = a /\ Len(t) = b /\ a <= b
          BY <1>1
        <5>3. k \in Nat /\ k >= 1 /\ p + 1 + k <= a
          BY <5>1, <5>2, <2>2
        <5>4. k \in 1 .. b - p - 1
          BY <5>2, <5>3
        <5>5. k \in B
          BY <5>1, <5>2, <5>4 DEF B
        <5>6. SubSeq(s, p + 2, p + 1 + k) = SubSeq(t, p + 2, p + 1 + k)
          <6>1. \A i \in 1 .. k : s[p + 1 + i] = t[p + 1 + i]
            <7>1. \A i \in 1 .. k : p + 1 + i \in 1 .. a
              BY <5>3
            <7> QED BY <7>1, <5>2, <1>1
          <6>2. [i \in 1 .. k |-> s[p + 1 + i]] = [i \in 1 .. k |-> t[p + 1 + i]]
            BY <6>1, Zenon
          <6>3. k \in Nat
            BY <5>3
          <6>4. SubSeq(s, p + 2, p + 1 + k) = [i \in 1 .. k |-> s[p + 1 + i]]
            BY <6>3, LengthOctets
          <6>5. SubSeq(t, p + 2, p + 1 + k) = [i \in 1 .. k |-> t[p + 1 + i]]
            BY <6>3, LengthOctets
          <6> QED BY <6>2, <6>4, <6>5, Zenon
        <5> QED BY <5>5, <5>6, Zenon DEF LongLength
      <4> HIDE DEF A, B
      <4> QED BY <4>1, <4>2, <4>3
    <3> QED BY <3>2, <3>3, <3>4
  <2> QED BY <1>1, <2>1, <2>2
<1> QED BY <1>2, <1>3

-----------------------------------------------------------------------------

\* The header of a tag and a length.
HeaderOf(s, t, l) ==
  [class |-> s[1] \div 64, constructed |-> IsSet(s[1], 5), tag |-> t.tag,
   length |-> l.length, size |-> l.size]

LEMMA DecodeHeader ==
  ASSUME NEW s
  PROVE  decode_header(s) =
           UNION { { HeaderOf(s, t, l) :
                       l \in { k \in decode_length(s, t.size) : k.length <= MaxStructure } } :
                   t \in decode_tag(s) }
BY Zenon DEF decode_header, HeaderOf

\* A header that has been decoded stays the one, whatever comes behind it.
LEMMA HeaderStays ==
  ASSUME NEW s, NEW t, Continues(t, s), NEW h \in decode_header(s)
  PROVE  decode_header(t) = {h}
<1>1. PICK g \in decode_tag(s) :
        \E l \in decode_length(s, g.size) : h = HeaderOf(s, g, l) /\ l.length <= MaxStructure
  BY DecodeHeader
<1> PICK l \in decode_length(s, g.size) : h = HeaderOf(s, g, l) /\ l.length <= MaxStructure
  BY <1>1
<1>2. /\ s \in Seq(Octet) /\ Len(s) \in Nat /\ Len(s) <= Len(t)
      /\ \A i \in 1 .. Len(s) : t[i] = s[i]
  BY OctetFacts DEF Continues
<1>3. s[1] = t[1]
  <2>1. s # <<>>
    BY <1>1, <1>2, DecodeTagCases
  <2>2. 1 \in 1 .. Len(s)
    BY <2>1, <1>2
  <2> QED BY <2>2, <1>2
<1>4. g \in decode_tag(t) /\ g.size \in Nat /\ \A x \in decode_tag(t) : x = g
  BY <1>1, TagStays
<1>5. l \in decode_length(t, g.size) /\ \A x \in decode_length(t, g.size) : x = l
  BY <1>1, <1>4, LengthStays
<1>6. h = HeaderOf(t, g, l)
  BY <1>1, <1>3, Zenon DEF HeaderOf
<1> QED BY <1>1, <1>4, <1>5, <1>6, DecodeHeader

LEMMA EndStays ==
  ASSUME NEW s, NEW t, Continues(t, s), has_next(s) # 0
  PROVE  has_next(t) = has_next(s)
<1> DEFINE L(u) == { n \in { h.size + h.length : h \in decode_header(u) } : n <= Len(u) }
<1>1. \A u : has_next(u) = IF L(u) = {} THEN 0 ELSE CHOOSE n \in L(u) : TRUE
  BY Zenon DEF has_next
<1>2. L(s) # {}
  BY <1>1
<1>3. PICK h \in decode_header(s) : h.size + h.length <= Len(s)
  BY <1>2
<1>4. decode_header(s) = {h} /\ decode_header(t) = {h}
  <2>1. Continues(s, s)
    BY OctetFacts DEF Continues
  <2> QED BY <2>1, <1>3, HeaderStays
<1>5. Len(s) \in Nat /\ Len(t) \in Nat /\ Len(s) <= Len(t)
  BY OctetFacts DEF Continues
<1>6. h.size \in Nat /\ h.length \in Nat
  <2> PICK g \in decode_tag(s) : \E l \in decode_length(s, g.size) : h = HeaderOf(s, g, l)
    BY DecodeHeader
  <2>1. PICK l \in decode_length(s, g.size) : h = HeaderOf(s, g, l)
    OBVIOUS
  <2>2. Continues(s, s) /\ s \in Seq(Octet)
    BY OctetFacts DEF Continues
  <2>3. l.size \in Nat /\ l.length \in Nat
    BY <2>1, <2>2, TagStays, LengthFacts
  <2> QED BY <2>1, <2>3 DEF HeaderOf
<1>7. h.size + h.length <= Len(t)
  BY <1>3, <1>5, <1>6
<1>8. L(s) = {h.size + h.length} /\ L(t) = {h.size + h.length}
  BY <1>3, <1>4, <1>7
<1> QED BY <1>1, <1>8

-----------------------------------------------------------------------------
(***************************************************************************)
(* What is encoded, and what of it is read as far as it has come in.       *)
(***************************************************************************)

AllHeaders == [class : 0 .. 3, constructed : BOOLEAN,
               tag : 0 .. TwoTo[WordBits] - 1, length : 0 .. TwoTo[WordBits] - 1]

\* s is the octets of e, as many as have come, or more.
Begins(s, e) == \A i \in 1 .. Len(s) : i <= Len(e) => s[i] = e[i]

LEMMA FirstOctet ==
  ASSUME NEW h \in AllHeaders, NEW low \in 0 .. 31, NEW b, b = encode_tag_first_byte(h, low)
  PROVE  /\ b \in Octet /\ b \in Nat
         /\ b % 32 = low /\ b \div 64 = h.class
         /\ IsSet(b, 5) = h.constructed
<1>1. h.class \in 0 .. 3 /\ h.constructed \in BOOLEAN
  BY DEF AllHeaders
<1>2. PICK c \in 0 .. 3 : h.class = c
  BY <1>1
<1>3. CASE h.constructed
  <2>1. b = c * 64 + 32 + low
    BY <1>2, <1>3 DEF encode_tag_first_byte
  <2>2. b \in 0 .. 255 /\ b % 32 = low /\ b \div 64 = c /\ (b \div 32) % 2 = 1
    BY <2>1
  <2>3. IsSet(b, 5)
    BY <2>2, TwoToValues DEF IsSet
  <2>4. IsSet(b, 5) = h.constructed
    BY <2>3, <1>1, <1>3, Zenon DEF IsSet
  <2>5. b \in 0 .. 255 /\ b \in Nat
    BY <2>2
  <2> QED BY <2>2, <2>4, <2>5, <1>2, Zenon DEF Octet
<1>4. CASE ~h.constructed
  <2>1. b = c * 64 + 0 + low
    BY <1>2, <1>4 DEF encode_tag_first_byte
  <2>2. b \in 0 .. 255 /\ b % 32 = low /\ b \div 64 = c /\ (b \div 32) % 2 # 1
    BY <2>1
  <2>3. ~IsSet(b, 5)
    BY <2>2, TwoToValues DEF IsSet
  <2>4. IsSet(b, 5) = h.constructed
    BY <2>3, <1>1, <1>4, Zenon DEF IsSet
  <2>5. b \in 0 .. 255 /\ b \in Nat
    BY <2>2
  <2> QED BY <2>2, <2>4, <2>5, <1>2, Zenon DEF Octet
<1> QED BY <1>3, <1>4

\* f, and g behind it.
Joined(f, g) == f \o g

LEMMA Concatenated ==
  ASSUME NEW f \in Seq(Octet), NEW g \in Seq(Octet), NEW p \in Nat, NEW q \in Nat,
         Len(f) = p, Len(g) = q
  PROVE  /\ Joined(f, g) \in Seq(Octet) /\ Len(Joined(f, g)) = p + q
         /\ \A i \in 1 .. p : Joined(f, g)[i] = f[i]
         /\ \A i \in 1 .. q : Joined(f, g)[p + i] = g[i]
<1> DEFINE x == Joined(f, g)
<1>1. /\ x \in Seq(Octet) /\ Len(x) = p + q
      /\ \A i \in 1 .. p + q : x[i] = IF i <= p THEN f[i] ELSE g[i - p]
  BY ConcatProperties DEF Joined
<1> HIDE DEF x
<1>2. ASSUME NEW i \in 1 .. p
      PROVE  x[i] = f[i]
  <2>1. i \in 1 .. p + q /\ i <= p
    OBVIOUS
  <2> QED BY <2>1, <1>1
<1>3. ASSUME NEW i \in 1 .. q
      PROVE  x[p + i] = g[i]
  <2>1. p + i \in 1 .. p + q /\ ~(p + i <= p) /\ (p + i) - p = i
    OBVIOUS
  <2> QED BY <2>1, <1>1
<1> QED BY <1>1, <1>2, <1>3 DEF x

\* An octet, and m behind it.
InFront(b, m) == <<b>> \o m

LEMMA Prepended ==
  ASSUME NEW b \in Octet, NEW m \in Seq(Octet), NEW n \in Nat, Len(m) = n
  PROVE  /\ InFront(b, m) \in Seq(Octet) /\ Len(InFront(b, m)) = n + 1 /\ InFront(b, m)[1] = b
         /\ \A i \in 1 .. n : InFront(b, m)[i + 1] = m[i]
<1> DEFINE f == <<b>>
           x == InFront(b, m)
<1>1. f \in Seq(Octet) /\ Len(f) = 1 /\ f[1] = b
  OBVIOUS
<1>2. x = f \o m
  BY DEF InFront
<1> HIDE DEF f, x
<1>3. /\ f \o m \in Seq(Octet)
      /\ Len(f \o m) = Len(f) + Len(m)
      /\ \A i \in 1 .. Len(f) + Len(m) : (f \o m)[i] = IF i <= Len(f) THEN f[i] ELSE m[i - Len(f)]
  BY <1>1, ConcatProperties
<1>4. \A i \in 1 .. 1 + n : x[i] = IF i <= 1 THEN f[i] ELSE m[i - 1]
  BY <1>1, <1>2, <1>3
<1>5. x \in Seq(Octet) /\ Len(x) = 1 + n
  BY <1>1, <1>2, <1>3, Zenon
<1>6. ASSUME NEW i \in 1 .. n
      PROVE  x[i + 1] = m[i]
  <2>1. i + 1 \in 1 .. 1 + n /\ ~(i + 1 <= 1) /\ (i + 1) - 1 = i
    OBVIOUS
  <2> QED BY <2>1, <1>4
<1>7. 1 \in 1 .. 1 + n /\ 1 <= 1 /\ 1 + n = n + 1
  OBVIOUS
<1>8. x[1] = b
  BY <1>1, <1>4, <1>7
<1> QED BY <1>5, <1>6, <1>7, <1>8 DEF x

\* Digits of seven bits, all but the last marked.
Marked(e) == [i \in DOMAIN e |-> IF i < Len(e) THEN e[i] + 128 ELSE e[i]]

LEMMA LongTagOctets ==
  ASSUME NEW tag \in Nat, tag < TwoTo[WordBits],
         NEW e, e = OctetsOf(tag, 7), NEW b \in Octet, NEW x, x = InFront(b, Marked(e))
  PROVE  /\ Len(e) \in 1 .. MaxDigits
         /\ \A i \in 1 .. Len(e) : e[i] \in 0 .. 127
         /\ x \in Seq(Octet) /\ Len(x) = Len(e) + 1 /\ x[1] = b
         /\ \A i \in 1 .. Len(e) : x[i + 1] = IF i < Len(e) THEN e[i] + 128 ELSE e[i]
         /\ ShiftedIn(e, 128) = tag
<1>1. /\ Len(e) \in Nat /\ Len(e) >= 1 /\ (Len(e) - 1) * 7 < WordBits
      /\ e \in [1 .. Len(e) -> 0 .. 128 - 1]
      /\ ShiftedIn(e, 128) = tag
  <2>1. 7 \in Nat \ {0}
    OBVIOUS
  <2>2. /\ Len(e) \in Nat /\ Len(e) >= 1 /\ (Len(e) - 1) * 7 < WordBits
        /\ e \in [1 .. Len(e) -> 0 .. TwoTo[7] - 1]
        /\ ShiftedIn(e, TwoTo[7]) = tag
    BY <2>1, OctetsOfFacts, Zenon
  <2>3. TwoTo[7] = 128
    BY TwoToValues
  <2> QED BY <2>2, <2>3, Zenon
<1>2. PICK n \in Nat : Len(e) = n /\ n >= 1
  BY <1>1
<1>3. n \in 1 .. MaxDigits
  <2>1. PICK w \in Nat : WordBits = w
    BY WordFacts
  <2>2. (n - 1) * 7 < w
    BY <1>1, <1>2, <2>1
  <2>3. n <= (w \div 7) + 1 /\ (w \div 7) + 1 \in Nat
    BY <2>2
  <2>4. MaxDigits = (w \div 7) + 1
    BY <2>1 DEF MaxDigits
  <2> QED BY <2>3, <2>4, <1>2
<1>4. \A i \in 1 .. n : e[i] \in 0 .. 127
  <2>1. e \in [1 .. n -> 0 .. 128 - 1]
    BY <1>1, <1>2, Zenon
  <2>2. 128 - 1 = 127
    OBVIOUS
  <2> QED BY <2>1, <2>2
<1> DEFINE m == Marked(e)
<1>5. /\ m = [i \in 1 .. n |-> IF i < n THEN e[i] + 128 ELSE e[i]]
      /\ m \in [1 .. n -> Octet]
  <2>1. DOMAIN e = 1 .. n
    BY <1>1, <1>2
  <2>2. m = [i \in 1 .. n |-> IF i < n THEN e[i] + 128 ELSE e[i]]
    BY <2>1, <1>2 DEF Marked
  <2>3. \A i \in 1 .. n : (IF i < n THEN e[i] + 128 ELSE e[i]) \in 0 .. 255
    <3> TAKE i \in 1 .. n
    <3> PICK k \in 0 .. 127 : e[i] = k
      BY <1>4
    <3>1. k + 128 \in 0 .. 255 /\ k \in 0 .. 255
      OBVIOUS
    <3> QED BY <3>1
  <2> QED BY <2>2, <2>3 DEF Octet
<1> HIDE DEF m
<1>6. m \in Seq(Octet) /\ Len(m) = n
  BY <1>5
<1>7. /\ x \in Seq(Octet) /\ Len(x) = n + 1 /\ x[1] = b
      /\ \A i \in 1 .. n : x[i + 1] = m[i]
  <2>1. /\ InFront(b, m) \in Seq(Octet) /\ Len(InFront(b, m)) = n + 1 /\ InFront(b, m)[1] = b
        /\ \A i \in 1 .. n : InFront(b, m)[i + 1] = m[i]
    BY <1>6, Prepended
  <2>2. x = InFront(b, m)
    BY DEF m
  <2> QED BY <2>1, <2>2, Zenon
<1>8. \A i \in 1 .. n : x[i + 1] = IF i < n THEN e[i] + 128 ELSE e[i]
  BY <1>5, <1>7
<1> QED BY <1>1, <1>2, <1>3, <1>4, <1>7, <1>8

LEMMA LongLengthOctets ==
  ASSUME NEW v \in Nat, v < TwoTo[WordBits],
         NEW e, e = OctetsOf(v, 8), NEW x, x = InFront(128 + Len(e), e)
  PROVE  \E n \in 1 .. WordOctets :
           /\ n < 128 /\ Len(e) = n /\ e \in [1 .. n -> Octet]
           /\ decode_from_octets(e) = v
           /\ x \in Seq(Octet) /\ Len(x) = n + 1 /\ x[1] = 128 + n
           /\ \A i \in 1 .. n : x[i + 1] = e[i]
<1>1. /\ Len(e) \in Nat /\ Len(e) >= 1 /\ (Len(e) - 1) * 8 < WordBits
      /\ e \in [1 .. Len(e) -> 0 .. 256 - 1]
      /\ ShiftedIn(e, 256) = v
  <2>1. 8 \in Nat \ {0}
    OBVIOUS
  <2>2. /\ Len(e) \in Nat /\ Len(e) >= 1 /\ (Len(e) - 1) * 8 < WordBits
        /\ e \in [1 .. Len(e) -> 0 .. TwoTo[8] - 1]
        /\ ShiftedIn(e, TwoTo[8]) = v
    BY <2>1, OctetsOfFacts, Zenon
  <2>3. TwoTo[8] = 256
    BY TwoToValues
  <2> QED BY <2>2, <2>3, Zenon
<1>2. PICK n \in Nat : Len(e) = n /\ n >= 1 /\ (n - 1) * 8 < WordBits
  BY <1>1
<1>3. n \in 1 .. WordOctets /\ n < 128
  <2>1. PICK w \in Nat : WordOctets = w /\ w < 128
    BY DerOctetsAssumption, DerHeaderAssumption
  <2>2. (n - 1) * 8 < 8 * w
    BY <1>2, <2>1 DEF WordBits
  <2> QED BY <2>1, <2>2, <1>2
<1>4. e \in [1 .. n -> Octet]
  <2>1. e \in [1 .. n -> 0 .. 256 - 1]
    BY <1>1, <1>2, Zenon
  <2>2. 256 - 1 = 255
    OBVIOUS
  <2> QED BY <2>1, <2>2 DEF Octet
<1>5. e \in Seq(Octet)
  BY <1>4
<1>6. 128 + n \in Octet
  BY <1>3 DEF Octet
<1>7. /\ x \in Seq(Octet) /\ Len(x) = n + 1 /\ x[1] = 128 + n
      /\ \A i \in 1 .. n : x[i + 1] = e[i]
  <2> PICK b \in Octet : b = 128 + n
    BY <1>6
  <2>1. x = InFront(b, e)
    BY <1>2
  <2>3. /\ InFront(b, e) \in Seq(Octet) /\ Len(InFront(b, e)) = n + 1 /\ InFront(b, e)[1] = b
        /\ \A i \in 1 .. n : InFront(b, e)[i + 1] = e[i]
    BY <1>2, <1>5, Prepended
  <2>2. /\ x \in Seq(Octet) /\ Len(x) = n + 1 /\ x[1] = b
        /\ \A i \in 1 .. n : x[i + 1] = e[i]
    BY <2>1, <2>3, ZenonT(20)
  <2> QED BY <2>2
<1>8. decode_from_octets(e) = v
  BY <1>1, Zenon DEF decode_from_octets
<1> QED BY <1>2, <1>3, <1>4, <1>7, <1>8

-----------------------------------------------------------------------------

\* What comes of an encoded tag is the tag, when all of it is there.
LEMMA TagReadBack ==
  ASSUME NEW h \in AllHeaders, NEW e, e = encode_tag(h)
  PROVE  /\ e \in Seq(Octet) /\ Len(e) \in Nat /\ Len(e) >= 1
         /\ \A s \in Seq(Octet) : Begins(s, e) =>
              /\ decode_tag(s) =
                   IF Len(s) >= Len(e) THEN {[tag |-> h.tag, size |-> Len(e)]} ELSE {}
              /\ Len(s) >= Len(e) => s[1] \div 64 = h.class /\ IsSet(s[1], 5) = h.constructed
<1>1. PICK v \in Nat : h.tag = v /\ v < TwoTo[WordBits]
  <2>1. PICK m \in Nat : TwoTo[WordBits] = m
    BY WordFacts, TwoToFacts
  <2>2. h.tag \in 0 .. m - 1
    BY <2>1 DEF AllHeaders
  <2>3. \A i \in 0 .. m - 1 : i \in Nat /\ i < m
    OBVIOUS
  <2> QED BY <2>1, <2>2, <2>3
<1>2. CASE v <= 30
  <2>1. v % 32 = v /\ v \in 0 .. 31 /\ ~(v > 30) /\ v # 31
    BY <1>2
  <2> DEFINE b == encode_tag_first_byte(h, v)
  <2>2. e = <<b>>
    BY <1>1, <2>1 DEF encode_tag
  <2>3. /\ b \in Octet /\ b % 32 = v /\ b \div 64 = h.class /\ IsSet(b, 5) = h.constructed
    <3>1. v \in 0 .. 31
      BY <2>1
    <3> QED BY <3>1, FirstOctet, Zenon
  <2> HIDE DEF b
  <2>4. e \in Seq(Octet) /\ Len(e) = 1 /\ e[1] = b
    BY <2>2, <2>3
  <2>5. ASSUME NEW s \in Seq(Octet), Begins(s, e)
        PROVE  /\ decode_tag(s) =
                     IF Len(s) >= Len(e) THEN {[tag |-> h.tag, size |-> Len(e)]} ELSE {}
               /\ Len(s) >= Len(e) => s[1] \div 64 = h.class /\ IsSet(s[1], 5) = h.constructed
    <3>1. PICK a \in Nat : Len(s) = a
      BY OctetFacts
    <3>2. CASE a >= 1
      <4>1. s # <<>>
        BY <3>1, <3>2
      <4>2. s[1] = b
        BY <3>1, <3>2, <2>4, <2>5 DEF Begins
      <4>3. decode_tag(s) = {[tag |-> v, size |-> 1]}
        BY <4>1, <4>2, <2>1, <2>3, DecodeTagCases
      <4> QED BY <3>1, <3>2, <4>2, <4>3, <2>3, <2>4, <1>1
    <3>3. CASE a = 0
      <4>1. s = <<>> /\ ~(a >= 1)
        BY <3>1, <3>3
      <4> QED BY <3>1, <4>1, <2>4, DecodeTagCases
    <3> QED BY <3>2, <3>3
  <2> QED BY <2>4, <2>5
<1>3. CASE v > 30
  <2> DEFINE b == encode_tag_first_byte(h, 31)
             d == OctetsOf(v, 7)
  <2>1. e = InFront(b, Marked(d))
    BY <1>1, <1>3 DEF encode_tag, encode_long_tag, InFront, Marked, OctetsOf
  <2>2. /\ b \in Octet /\ b % 32 = 31 /\ b \div 64 = h.class /\ IsSet(b, 5) = h.constructed
    <3>1. 31 \in 0 .. 31
      OBVIOUS
    <3> QED BY <3>1, FirstOctet, Zenon
  <2> HIDE DEF b, d
  <2>3. /\ Len(d) \in 1 .. MaxDigits
        /\ \A i \in 1 .. Len(d) : d[i] \in 0 .. 127
        /\ e \in Seq(Octet) /\ Len(e) = Len(d) + 1 /\ e[1] = b
        /\ \A i \in 1 .. Len(d) : e[i + 1] = IF i < Len(d) THEN d[i] + 128 ELSE d[i]
        /\ ShiftedIn(d, 128) = v
    BY <1>1, <2>1, <2>2, LongTagOctets DEF d
  <2>4. PICK n \in Nat : Len(d) = n /\ n >= 1 /\ n \in 1 .. MaxDigits /\ Len(e) = n + 1
    <3>1. PICK k \in Nat : MaxDigits = k
      BY MaxDigitsNat
    <3> QED BY <3>1, <2>3
  <2>5. d = [i \in 1 .. n |-> d[i]]
    <3>1. d \in [1 .. Len(d) -> 0 .. TwoTo[7] - 1]
      <4>1. 7 \in Nat \ {0}
        OBVIOUS
      <4> QED BY <4>1, <1>1, OctetsOfFacts, Zenon DEF d
    <3> QED BY <3>1, <2>4
  <2>6. ASSUME NEW s \in Seq(Octet), Begins(s, e)
        PROVE  /\ decode_tag(s) =
                     IF Len(s) >= Len(e) THEN {[tag |-> h.tag, size |-> Len(e)]} ELSE {}
               /\ Len(s) >= Len(e) => s[1] \div 64 = h.class /\ IsSet(s[1], 5) = h.constructed
    <3>1. PICK a \in Nat : Len(s) = a
      BY OctetFacts
    <3>2. \A i \in 1 .. n : i + 1 <= a => s[i + 1] = IF i < n THEN d[i] + 128 ELSE d[i]
      <4>1. \A i \in 1 .. n : i + 1 <= a => i + 1 \in 1 .. a /\ i + 1 <= n + 1
        OBVIOUS
      <4> QED BY <4>1, <3>1, <2>3, <2>4, <2>6 DEF Begins
    <3>3. a >= 1 => s # <<>> /\ s[1] = b
      BY <3>1, <2>3, <2>4, <2>6 DEF Begins
    <3>4. CASE a >= n + 1
      <4>1. n \in Ends(s)
        <5>1. s[n + 1] < 128
          <6>1. PICK k \in 0 .. 127 : d[n] = k
            BY <2>3, <2>4
          <6>2. n \in 1 .. n /\ ~(n < n)
            BY <2>4
          <6>3. s[n + 1] = k
            BY <3>2, <3>4, <6>1, <6>2
          <6> QED BY <6>3
        <5>2. ASSUME NEW i \in 2 .. n
              PROVE  s[i] >= 128
          <6>1. i - 1 \in 1 .. n /\ i - 1 < n /\ (i - 1) + 1 = i /\ i <= a
            BY <3>4
          <6>2. PICK k \in 0 .. 127 : d[i - 1] = k
            BY <6>1, <2>3, <2>4
          <6>3. s[i] = k + 128
            BY <6>1, <6>2, <3>2
          <6> QED BY <6>3
        <5>3. n + 1 <= Len(s)
          BY <3>1, <3>4
        <5> QED BY <2>4, <5>1, <5>2, <5>3 DEF Ends
      <4>2. LongTag(s, n) = [tag |-> v, size |-> n + 1]
        <5>1. ASSUME NEW i \in 1 .. n
              PROVE  s[i + 1] % 128 = d[i]
          <6>1. PICK k \in 0 .. 127 : d[i] = k
            BY <2>3, <2>4
          <6>2. s[i + 1] = k + 128 \/ s[i + 1] = k
            BY <3>2, <3>4, <6>1
          <6> QED BY <6>1, <6>2
        <5>2. [i \in 1 .. n |-> s[i + 1] % 128] = [i \in 1 .. n |-> d[i]]
          BY <5>1, Zenon
        <5> QED BY <5>2, <2>3, <2>5, Zenon DEF LongTag
      <4>3. Ends(s) = {n}
        <5>1. \A k, l \in Ends(s) : k = l
          BY EndsFacts
        <5> QED BY <4>1, <5>1
      <4>4. decode_tag(s) = {[tag |-> v, size |-> n + 1]}
        <5>1. s # <<>> /\ s[1] % 32 = 31
          BY <3>3, <3>4, <2>2
        <5> QED BY <5>1, <4>2, <4>3, DecodeTagCases
      <4> QED BY <3>1, <3>3, <3>4, <4>4, <2>2, <2>4, <1>1
    <3>5. CASE ~(a >= n + 1)
      <4>1. Ends(s) = {}
        <5> SUFFICES ASSUME NEW k \in Ends(s)
                     PROVE  FALSE
          OBVIOUS
        <5>1. k \in Nat /\ k >= 1 /\ k + 1 <= a
          BY <3>1, EndsFacts
        <5>2. s[k + 1] < 128
          BY DEF Ends
        <5>3. k \in 1 .. n /\ k < n
          BY <5>1, <3>5
        <5>4. PICK j \in 0 .. 127 : d[k] = j
          BY <5>3, <2>3, <2>4
        <5>5. s[k + 1] = j + 128
          BY <5>1, <5>3, <5>4, <3>2
        <5> QED BY <5>2, <5>5
      <4>2. decode_tag(s) = {}
        <5>1. CASE s = <<>>
          BY <5>1, DecodeTagCases
        <5>2. CASE s # <<>>
          <6>1. a >= 1
            BY <3>1, <5>2
          <6> QED BY <6>1, <3>3, <2>2, <4>1, <5>2, DecodeTagCases
        <5> QED BY <5>1, <5>2
      <4> QED BY <3>1, <3>5, <4>2, <2>4
    <3> QED BY <3>4, <3>5
  <2> QED BY <2>3, <2>4, <2>6
<1> QED BY <1>1, <1>2, <1>3

\* s has the octets of e behind its first p, as far as it goes.
BeginsBehind(s, p, e) == \A i \in 1 .. Len(e) : p + i <= Len(s) => s[p + i] = e[i]

LEMMA LengthReadBack ==
  ASSUME NEW v \in Nat, v < TwoTo[WordBits], NEW e, e = encode_length(v)
  PROVE  /\ e \in Seq(Octet) /\ Len(e) \in Nat /\ Len(e) >= 1
         /\ \A s \in Seq(Octet), p \in Nat : BeginsBehind(s, p, e) =>
              decode_length(s, p) =
                IF Len(s) >= p + Len(e) THEN {[length |-> v, size |-> p + Len(e)]} ELSE {}
<1>1. CASE v <= 127
  <2>1. v % 128 = v /\ v < 128 /\ ~(v > 127) /\ v \in 0 .. 255
    BY <1>1
  <2>2. e = <<v>>
    BY <2>1 DEF encode_length
  <2>3. e \in Seq(Octet) /\ Len(e) = 1 /\ e[1] = v
    BY <2>1, <2>2 DEF Octet
  <2>4. ASSUME NEW s \in Seq(Octet), NEW p \in Nat, BeginsBehind(s, p, e)
        PROVE  decode_length(s, p) =
                 IF Len(s) >= p + Len(e) THEN {[length |-> v, size |-> p + Len(e)]} ELSE {}
    <3>1. PICK a \in Nat : Len(s) = a
      BY OctetFacts
    <3>2. CASE a >= p + 1
      <4>1. s[p + 1] = v
        BY <3>1, <3>2, <2>3, <2>4 DEF BeginsBehind
      <4>2. p < a
        BY <3>2
      <4>3. decode_length(s, p) = {[length |-> v, size |-> p + 1]}
        BY <4>1, <4>2, <3>1, <2>1, DecodeLengthCases
      <4> QED BY <4>3, <3>1, <3>2, <2>3
    <3>3. CASE ~(a >= p + 1)
      <4>1. p >= a
        BY <3>3
      <4> QED BY <4>1, <3>1, <3>3, <2>3, DecodeLengthCases
    <3> QED BY <3>2, <3>3
  <2> QED BY <2>3, <2>4
<1>2. CASE v > 127
  <2> PICK o : o = OctetsOf(v, 8)
    OBVIOUS
  <2>1. e = InFront(128 + Len(o), o)
    BY <1>2 DEF encode_length, InFront, OctetsOf
  <2>2. \E n \in 1 .. WordOctets :
           /\ n < 128 /\ Len(o) = n /\ o \in [1 .. n -> Octet]
           /\ decode_from_octets(o) = v
           /\ e \in Seq(Octet) /\ Len(e) = n + 1 /\ e[1] = 128 + n
           /\ \A i \in 1 .. n : e[i + 1] = o[i]
    BY <2>1, LongLengthOctets, SMTT(20)
  <2>3. PICK n \in 1 .. WordOctets :
           /\ n < 128 /\ o \in [1 .. n -> Octet]
           /\ decode_from_octets(o) = v
           /\ e \in Seq(Octet) /\ Len(e) = n + 1 /\ e[1] = 128 + n
           /\ \A i \in 1 .. n : e[i + 1] = o[i]
    BY <2>2
  <2>4. n \in Nat /\ n >= 1
    BY DerOctetsAssumption
  <2>5. ASSUME NEW s \in Seq(Octet), NEW p \in Nat, BeginsBehind(s, p, e)
        PROVE  decode_length(s, p) =
                 IF Len(s) >= p + Len(e) THEN {[length |-> v, size |-> p + Len(e)]} ELSE {}
    <3>1. PICK a \in Nat : Len(s) = a
      BY OctetFacts
    <3>2. CASE p >= a
      <4>1. ~(a >= p + (n + 1))
        BY <2>4, <3>2
      <4> QED BY <4>1, <3>1, <3>2, <2>3, DecodeLengthCases
    <3>3. CASE p < a
      <4>1. s[p + 1] = 128 + n
        <5>1. 1 \in 1 .. n + 1 /\ p + 1 <= a
          BY <2>4, <3>3
        <5> QED BY <5>1, <3>1, <2>3, <2>5 DEF BeginsBehind
      <4>2. (128 + n) % 128 = n /\ 128 + n >= 128
        <5>1. n < 128
          BY <2>3
        <5> QED BY <5>1, <2>4
      <4> DEFINE K == {n} \cap (1 .. WordOctets) \cap (1 .. Len(s) - p - 1)
      <4>3. decode_length(s, p) = { LongLength(s, p, k) : k \in K }
        <5>1. decode_length(s, p) =
                { LongLength(s, p, k) :
                    k \in {s[p + 1] % 128} \cap (1 .. WordOctets) \cap (1 .. Len(s) - p - 1) }
          BY <4>1, <4>2, <3>1, <3>3, DecodeLengthCases, SMTT(20)
        <5> QED BY <5>1, <4>1, <4>2
      <4>4. CASE a >= p + (n + 1)
        <5>1. n \in 1 .. a - p - 1
          BY <2>4, <4>4
        <5>2. K = {n}
          BY <5>1, <3>1
        <5>3. ASSUME NEW i \in 1 .. n
              PROVE  s[p + 1 + i] = o[i]
          <6>1. i + 1 \in 1 .. n + 1 /\ p + (i + 1) <= a /\ p + (i + 1) = p + 1 + i
            BY <2>4, <4>4
          <6> QED BY <6>1, <3>1, <2>3, <2>5 DEF BeginsBehind
        <5>4. [i \in 1 .. n |-> s[p + 1 + i]] = [i \in 1 .. n |-> o[i]]
          BY <5>3, Zenon
        <5>5. o = [i \in 1 .. n |-> o[i]]
          BY <2>3
        <5>6. SubSeq(s, p + 2, p + 1 + n) = o
          <6>1. SubSeq(s, p + 2, p + 1 + n) = [i \in 1 .. n |-> s[p + 1 + i]]
            BY <2>4, LengthOctets
          <6> QED BY <6>1, <5>4, <5>5, Zenon
        <5>7. p + 1 + n = p + (n + 1)
          BY <2>4
        <5>8. LongLength(s, p, n) = [length |-> v, size |-> p + (n + 1)]
          BY <5>6, <5>7, <2>3, Zenon DEF LongLength
        <5> HIDE DEF K
        <5> QED BY <5>2, <5>8, <4>3, <4>4, <3>1, <2>3
      <4>5. CASE ~(a >= p + (n + 1))
        <5>1. ~(n \in 1 .. a - p - 1)
          BY <2>4, <4>5
        <5>2. K = {}
          BY <5>1, <3>1
        <5> HIDE DEF K
        <5> QED BY <5>2, <4>3, <4>5, <3>1, <2>3
      <4> QED BY <4>4, <4>5
    <3> QED BY <3>2, <3>3
  <2> QED BY <2>3, <2>4, <2>5
<1> QED BY <1>1, <1>2

LEMMA EncodedHeader ==
  ASSUME NEW h \in AllHeaders, NEW e, e = encode_header(h)
  PROVE  /\ e \in Seq(Octet) /\ Len(e) \in Nat /\ Len(e) >= 1
         /\ \A s \in Seq(Octet) : BeginsBehind(s, 0, e) =>
              decode_header(s) =
                IF Len(s) >= Len(e) /\ h.length <= MaxStructure
                THEN {[class |-> h.class, constructed |-> h.constructed, tag |-> h.tag,
                       length |-> h.length, size |-> Len(e)]}
                ELSE {}
<1>1. PICK v \in Nat : h.length = v /\ v < TwoTo[WordBits]
  <2>1. PICK m \in Nat : TwoTo[WordBits] = m
    BY WordFacts, TwoToFacts
  <2>2. h.length \in 0 .. m - 1
    BY <2>1 DEF AllHeaders
  <2>3. \A i \in 0 .. m - 1 : i \in Nat /\ i < m
    OBVIOUS
  <2> QED BY <2>1, <2>2, <2>3
<1> PICK f : f = encode_tag(h)
  OBVIOUS
<1> PICK g : g = encode_length(v)
  OBVIOUS
<1>2. e = Joined(f, g)
  BY <1>1 DEF encode_header, Joined
<1>3. PICK p \in Nat : Len(f) = p /\ p >= 1 /\ f \in Seq(Octet)
  BY TagReadBack
<1>4. PICK q \in Nat : Len(g) = q /\ q >= 1 /\ g \in Seq(Octet)
  BY <1>1, LengthReadBack
<1>5. /\ e \in Seq(Octet) /\ Len(e) = p + q
      /\ \A i \in 1 .. p : e[i] = f[i]
      /\ \A i \in 1 .. q : e[p + i] = g[i]
  <2>1. /\ Joined(f, g) \in Seq(Octet) /\ Len(Joined(f, g)) = p + q
        /\ \A i \in 1 .. p : Joined(f, g)[i] = f[i]
        /\ \A i \in 1 .. q : Joined(f, g)[p + i] = g[i]
    BY <1>3, <1>4, Concatenated
  <2> QED BY <2>1, <1>2, Zenon
<1>6. ASSUME NEW s \in Seq(Octet), BeginsBehind(s, 0, e)
      PROVE  decode_header(s) =
                IF Len(s) >= p + q /\ v <= MaxStructure
                THEN {[class |-> h.class, constructed |-> h.constructed, tag |-> h.tag,
                       length |-> v, size |-> p + q]}
                ELSE {}
  <2>1. PICK a \in Nat : Len(s) = a
    BY OctetFacts
  <2>2. \A i \in 1 .. p + q : i <= a => s[i] = e[i]
    <3>1. \A i \in 1 .. p + q : 0 + i = i
      OBVIOUS
    <3> QED BY <3>1, <2>1, <1>5, <1>6 DEF BeginsBehind
  <2>3. Begins(s, f)
    <3>1. ASSUME NEW i \in 1 .. a, i <= p
          PROVE  s[i] = f[i]
      <4>1. i \in 1 .. p /\ i \in 1 .. p + q /\ i <= a
        BY <3>1
      <4> QED BY <4>1, <2>2, <1>5
    <3> QED BY <3>1, <2>1, <1>3 DEF Begins
  <2>4. BeginsBehind(s, p, g)
    <3>1. ASSUME NEW i \in 1 .. q, p + i <= a
          PROVE  s[p + i] = g[i]
      <4>1. p + i \in 1 .. p + q
        OBVIOUS
      <4> QED BY <4>1, <3>1, <2>2, <1>5
    <3> QED BY <3>1, <2>1, <1>4 DEF BeginsBehind
  <2>5. decode_tag(s) = IF a >= p THEN {[tag |-> h.tag, size |-> p]} ELSE {}
    BY <2>1, <2>3, <1>3, TagReadBack
  <2>6. a >= p => s[1] \div 64 = h.class /\ IsSet(s[1], 5) = h.constructed
    BY <2>1, <2>3, <1>3, TagReadBack, Zenon
  <2>7. decode_length(s, p) = IF a >= p + q THEN {[length |-> v, size |-> p + q]} ELSE {}
    <3>1. /\ Len(g) = q
          /\ \A r \in Seq(Octet), b \in Nat : BeginsBehind(r, b, g) =>
               decode_length(r, b) =
                 IF Len(r) >= b + Len(g) THEN {[length |-> v, size |-> b + Len(g)]} ELSE {}
      BY <1>1, <1>4, LengthReadBack
    <3>2. decode_length(s, p) =
            IF Len(s) >= p + Len(g) THEN {[length |-> v, size |-> p + Len(g)]} ELSE {}
      BY <3>1, <2>4, <1>3, Zenon
    <3> QED BY <3>1, <3>2, <2>1, Zenon
  <2>8. CASE ~(a >= p + q)
    <3>1. decode_length(s, p) = {}
      BY <2>7, <2>8
    <3>2. \A t \in decode_tag(s) : t.size = p
      BY <2>5
    <3>3. decode_header(s) = {}
      BY <3>1, <3>2, DecodeHeader
    <3> QED BY <3>3, <2>1, <2>8
  <2>9. CASE a >= p + q
    <3>1. a >= p
      BY <2>9
    <3> PICK t : t = [tag |-> h.tag, size |-> p]
      OBVIOUS
    <3> PICK l : l = [length |-> v, size |-> p + q]
      OBVIOUS
    <3>2. decode_tag(s) = {t} /\ t.tag = h.tag /\ t.size = p
      BY <3>1, <2>5
    <3>3. decode_length(s, p) = {l} /\ l.length = v /\ l.size = p + q
      BY <2>7, <2>9
    <3>4. HeaderOf(s, t, l) =
            [class |-> h.class, constructed |-> h.constructed, tag |-> h.tag,
             length |-> v, size |-> p + q]
      BY <2>6, <3>1, <3>2, <3>3, Zenon DEF HeaderOf
    <3>5. decode_header(s) = { HeaderOf(s, t, k) : k \in { j \in {l} : j.length <= MaxStructure } }
      BY <3>2, <3>3, DecodeHeader
    <3> PICK H : H = HeaderOf(s, t, l)
      OBVIOUS
    <3>6. CASE v <= MaxStructure
      <4>1. decode_header(s) = {H}
        BY <3>3, <3>5, <3>6
      <4> QED BY <4>1, <3>4, <3>6, <2>1, <2>9
    <3>7. CASE ~(v <= MaxStructure)
      <4>1. decode_header(s) = {}
        BY <3>3, <3>5, <3>7
      <4> QED BY <4>1, <3>7
    <3> QED BY <3>6, <3>7
  <2> QED BY <2>8, <2>9
<1>7. p + q \in Nat /\ p + q >= 1
  BY <1>3
<1> QED BY <1>1, <1>5, <1>6, <1>7

-----------------------------------------------------------------------------
(***************************************************************************)
(* The digits of a long tag that fits into a word.                         *)
(***************************************************************************)

\* value is what the digits of s stand for, up to the last of n.
Stands(value, s, n) ==
  /\ value[0] = 0
  /\ \A i \in 1 .. n : value[i] = value[i - 1] * 128 + (s[i + 1] % 128)

LEMMA DigitsValueFacts ==
  ASSUME NEW s, NEW n \in Nat
  PROVE  \E value : Stands(value, s, n) /\ DigitsValue(s, n + 1) = value[n]
<1> DEFINE Body(f, k) ==
      [i \in 0 .. k |-> IF i = 0 THEN 0 ELSE f[i - 1] * 128 + (s[i + 1] % 128)]
           S == { k \in Nat : \E f : f = Body(f, k) }
<1>1. 0 \in S
  <2> DEFINE f == [i \in 0 .. 0 |-> 0]
  <2>1. f = Body(f, 0)
    OBVIOUS
  <2> QED BY <2>1
<1>2. ASSUME NEW k \in Nat, k \in S
      PROVE  k + 1 \in S
  <2>1. PICK f : f = Body(f, k)
    BY <1>2
  <2> DEFINE g == [i \in 0 .. k + 1 |->
                     IF i = k + 1 THEN f[k] * 128 + (s[(k + 1) + 1] % 128) ELSE f[i]]
  <2>2. ASSUME NEW i \in 0 .. k + 1
        PROVE  g[i] = IF i = 0 THEN 0 ELSE g[i - 1] * 128 + (s[i + 1] % 128)
    <3>1. CASE i = 0
      <4>1. f[0] = 0
        BY <2>1
      <4>2. 0 # k + 1 /\ 0 \in 0 .. k + 1
        OBVIOUS
      <4> QED BY <3>1, <4>1, <4>2
    <3>2. CASE i = k + 1
      <4>1. i - 1 = k /\ k \in 0 .. k + 1 /\ k # k + 1 /\ i # 0
        BY <3>2
      <4>2. g[i - 1] = f[k]
        BY <4>1
      <4> QED BY <4>1, <4>2, <3>2
    <3>3. CASE i # 0 /\ i # k + 1
      <4>1. i \in 0 .. k /\ i - 1 \in 0 .. k + 1 /\ i - 1 # k + 1
        BY <3>3
      <4>2. f[i] = f[i - 1] * 128 + (s[i + 1] % 128)
        <5>1. Body(f, k)[i] = f[i - 1] * 128 + (s[i + 1] % 128)
          BY <3>3, <4>1
        <5> QED BY <5>1, <2>1
      <4>3. g[i] = f[i] /\ g[i - 1] = f[i - 1]
        BY <3>3, <4>1
      <4> QED BY <3>3, <4>2, <4>3
    <3> QED BY <3>1, <3>2, <3>3
  <2>3. g = [i \in 0 .. k + 1 |-> g[i]]
    OBVIOUS
  <2> HIDE DEF g
  <2>4. g = Body(g, k + 1)
    BY <2>2, <2>3
  <2> QED BY <2>4
<1> HIDE DEF S
<1>3. \A k \in Nat : k \in S
  BY <1>1, <1>2, SetInduction
<1>4. \E f : f = Body(f, n)
  BY <1>3 DEF S
<1> DEFINE value == CHOOSE f : f = Body(f, n)
<1>5. value = Body(value, n)
  BY <1>4
<1>6. DigitsValue(s, n + 1) = value[n]
  <2>1. (n + 1) - 1 = n
    OBVIOUS
  <2> QED BY <2>1 DEF DigitsValue
<1> HIDE DEF value
<1>7. Stands(value, s, n)
  <2>1. value[0] = 0
    BY <1>5
  <2>2. ASSUME NEW i \in 1 .. n
        PROVE  value[i] = value[i - 1] * 128 + (s[i + 1] % 128)
    <3>1. i \in 0 .. n /\ i # 0
      OBVIOUS
    <3>2. Body(value, n)[i] = value[i - 1] * 128 + (s[i + 1] % 128)
      BY <3>1
    <3> QED BY <3>2, <1>5
  <2> QED BY <2>1, <2>2 DEF Stands
<1> QED BY <1>6, <1>7

\* As long as it fits, no digit loses a bit.
LEMMA DigitsExact ==
  ASSUME NEW s \in Seq(Octet), NEW n \in Nat, n + 1 <= Len(s),
         DigitsValue(s, n + 1) < TwoTo[WordBits]
  PROVE  ShiftedIn([i \in 1 .. n |-> s[i + 1] % 128], 128) = DigitsValue(s, n + 1)
<1> DEFINE d == [i \in 1 .. n |-> s[i + 1] % 128]
<1>1. \A i \in 1 .. n : d[i] = s[i + 1] % 128 /\ d[i] \in Nat
  <2> TAKE i \in 1 .. n
  <2>1. d[i] = s[i + 1] % 128
    OBVIOUS
  <2>2. i + 1 \in 1 .. Len(s)
    BY OctetFacts
  <2>3. PICK o \in Nat : s[i + 1] = o
    BY <2>2, OctetFacts
  <2>4. o % 128 \in Nat
    OBVIOUS
  <2> QED BY <2>1, <2>3, <2>4
<1>2. Len(d) = n
  <2>1. d \in [1 .. n -> Nat]
    BY <1>1
  <2> HIDE DEF d
  <2>2. d \in Seq(Nat) /\ Len(d) = n
    BY <2>1
  <2> QED BY <2>2
<1> HIDE DEF d
<1>3. PICK value : Stands(value, s, n) /\ DigitsValue(s, n + 1) = value[n]
  BY DigitsValueFacts
<1>4. PICK word : ShiftsIn(word, d, 128) /\ ShiftedIn(d, 128) = word[n]
  BY <1>2, ShiftedInFacts
<1>5. PICK M \in Nat : M = TwoTo[WordBits]
  BY WordFacts, TwoToFacts
<1> DEFINE S == { k \in Nat : k <= n => /\ value[k] \in Nat
                                        /\ value[k] < M => word[k] = value[k] }
<1>6. 0 \in S
  BY <1>3, <1>4 DEF Stands, ShiftsIn
<1>7. ASSUME NEW k \in Nat, k \in S
      PROVE  k + 1 \in S
  <2> SUFFICES ASSUME k + 1 <= n
               PROVE  /\ value[k + 1] \in Nat
                      /\ value[k + 1] < M => word[k + 1] = value[k + 1]
    OBVIOUS
  <2>1. k + 1 \in 1 .. n /\ (k + 1) - 1 = k /\ k <= n
    OBVIOUS
  <2>2. PICK v \in Nat : value[k] = v /\ (v < M => word[k] = v)
    BY <1>7, <2>1
  <2>3. PICK c \in Nat : d[k + 1] = c
    BY <1>1, <2>1
  <2>4. value[k + 1] = v * 128 + c
    <3>1. value[k + 1] = value[k] * 128 + (s[(k + 1) + 1] % 128)
      BY <1>3, <2>1 DEF Stands
    <3>2. s[(k + 1) + 1] % 128 = c
      BY <1>1, <2>1, <2>3
    <3> QED BY <3>1, <3>2, <2>2
  <2>5. word[k + 1] = Word(word[k] * 128 + c)
    BY <1>2, <1>4, <2>1, <2>3 DEF ShiftsIn
  <2>6. PICK x \in Nat : x = v * 128 + c /\ v <= x
    OBVIOUS
  <2>7. ASSUME x < M
        PROVE  word[k + 1] = x
    <3>1. word[k] = v
      BY <2>2, <2>6, <2>7
    <3>2. word[k + 1] = x % M
      BY <3>1, <2>5, <2>6, <1>5 DEF Word
    <3>3. x % M = x
      BY <2>7
    <3> QED BY <3>2, <3>3
  <2> QED BY <2>4, <2>6, <2>7
<1> HIDE DEF S
<1>8. n \in S
  BY <1>6, <1>7, SetInduction
<1>9. word[n] = value[n]
  BY <1>3, <1>5, <1>8 DEF S
<1> QED BY <1>3, <1>4, <1>9 DEF d

-----------------------------------------------------------------------------
(***************************************************************************)
(* What holds in every state.                                              *)
(***************************************************************************)

\* The octets are those of what was sent, if anything was.
Sound ==
  /\ message \in Seq(Octet)
  /\ arrived \in 0 .. Len(message)
  /\ message = <<>> => sent = Nothing
  /\ sent # Nothing =>
       /\ sent \in Headers
       /\ message = encode_header(sent) \o [i \in 1 .. sent.length |-> 255] \o Behind

LEMMA HeadersAreAll == Headers \subseteq AllHeaders
BY DerHeaderAssumption, Zenon DEF AllHeaders

LEMMA LengthNat ==
  ASSUME NEW h \in AllHeaders
  PROVE  h.length \in Nat
<1>1. PICK m \in Nat : TwoTo[WordBits] = m
  BY WordFacts, TwoToFacts
<1>2. h.length \in 0 .. m - 1
  BY <1>1 DEF AllHeaders
<1> QED BY <1>2

\* A structure with what comes behind it.
LEMMA Structure ==
  ASSUME NEW h \in AllHeaders, NEW e, e = encode_header(h),
         NEW x, x = e \o [i \in 1 .. h.length |-> 255] \o Behind
  PROVE  /\ x \in Seq(Octet)
         /\ Len(e) \in Nat /\ h.length \in Nat /\ Len(Behind) \in Nat
         /\ Len(x) = (Len(e) + h.length) + Len(Behind)
         /\ \A i \in 1 .. Len(e) : x[i] = e[i]
<1>1. PICK n \in Nat : Len(e) = n /\ e \in Seq(Octet)
  BY EncodedHeader
<1>2. PICK l \in Nat : h.length = l
  BY LengthNat
<1>3. PICK c : c = [i \in 1 .. l |-> 255]
  OBVIOUS
<1>4. c \in Seq(Octet) /\ Len(c) = l
  <2>1. c \in [1 .. l -> Octet]
    BY <1>3 DEF Octet
  <2> QED BY <2>1
<1>5. PICK b \in Nat : Len(Behind) = b /\ Behind \in Seq(Octet)
  BY DerHeaderAssumption, OctetFacts
<1> PICK y : y = Joined(e, c)
  OBVIOUS
<1>6. x = Joined(y, Behind)
  BY <1>2, <1>3 DEF Joined
<1>7. y \in Seq(Octet) /\ Len(y) = n + l /\ \A i \in 1 .. n : y[i] = e[i]
  BY <1>1, <1>4, Concatenated
<1>8. /\ Joined(y, Behind) \in Seq(Octet) /\ Len(Joined(y, Behind)) = (n + l) + b
      /\ \A i \in 1 .. n + l : Joined(y, Behind)[i] = y[i]
  <2>1. n + l \in Nat
    OBVIOUS
  <2> QED BY <2>1, <1>5, <1>7, Concatenated
<1>9. x \in Seq(Octet) /\ Len(x) = (n + l) + b
  BY <1>6, <1>8
<1>10. ASSUME NEW i \in 1 .. n
       PROVE  x[i] = e[i]
  <2>1. i \in 1 .. n + l
    OBVIOUS
  <2> QED BY <2>1, <1>6, <1>7, <1>8
<1> QED BY <1>1, <1>2, <1>5, <1>9, <1>10

LEMMA Soundness == Spec => []Sound
<1>1. Init => Sound
  BY DEF Init, Sound
<1>2. Sound /\ [Next]_vars => Sound'
  <2> SUFFICES ASSUME Sound, [Next]_vars
               PROVE  Sound'
    OBVIOUS
  <2>1. Sound
    OBVIOUS
  <2>2. CASE UNCHANGED vars
    BY <2>1, <2>2 DEF vars, Sound, Nothing
  <2>3. ASSUME NEW h \in Headers, Send(h)
        PROVE  Sound'
    <3>1. h \in AllHeaders
      BY HeadersAreAll
    <3>2. message' = encode_header(h) \o [i \in 1 .. h.length |-> 255] \o Behind
      BY <2>3 DEF Send
    <3>3. PICK e : e = encode_header(h) /\ Len(e) \in Nat /\ Len(e) >= 1
      BY <3>1, EncodedHeader
    <3>4. /\ message' \in Seq(Octet) /\ h.length \in Nat /\ Len(Behind) \in Nat
          /\ Len(message') = (Len(e) + h.length) + Len(Behind)
      BY <3>1, <3>2, <3>3, Structure
    <3>5. Len(message') \in Nat /\ Len(message') >= 1
      <4> PICK a \in Nat, b \in Nat, c \in Nat : Len(e) = a /\ h.length = b /\ Len(Behind) = c
        BY <3>3, <3>4
      <4> QED BY <3>3, <3>4
    <3>6. message' # <<>>
      BY <3>5
    <3>7. arrived' = 0
      BY <2>1, <2>3 DEF Send, Sound
    <3>8. arrived' \in 0 .. Len(message')
      BY <3>5, <3>7
    <3>9. sent' = h
      BY <2>3 DEF Send
    <3> QED BY <3>2, <3>4, <3>6, <3>8, <3>9 DEF Sound
  <2>4. ASSUME NEW s \in Foreign, Receive(s)
        PROVE  Sound'
    <3>1. s \in Seq(Octet) /\ Len(s) \in Nat
      BY DerHeaderAssumption, OctetFacts
    <3>2. arrived' = 0 /\ sent' = Nothing /\ message' = s
      BY <2>1, <2>4 DEF Receive, Sound
    <3> QED BY <3>1, <3>2 DEF Sound, Nothing
  <2>5. CASE Arrive
    <3>1. message \in Seq(Octet) /\ message' = message /\ sent' = sent /\ arrived' = arrived + 1
      BY <2>1, <2>5 DEF Arrive, Sound
    <3>2. PICK n \in Nat : Len(message) = n
      BY <3>1, OctetFacts
    <3>3. arrived \in 0 .. n /\ arrived < n
      BY <2>1, <2>5, <3>2 DEF Arrive, Sound
    <3>4. arrived' \in 0 .. Len(message')
      BY <3>1, <3>2, <3>3
    <3> QED BY <2>1, <3>1, <3>4 DEF Sound, Nothing
  <2>6. CASE Done
    BY <2>1, <2>6 DEF Done, vars, Sound, Nothing
  <2> QED BY <2>2, <2>3, <2>4, <2>5, <2>6 DEF Next
<1> QED BY <1>1, <1>2, PTL DEF Spec

LEMMA Prefix ==
  ASSUME NEW s \in Seq(Octet), NEW a \in 0 .. Len(s)
  PROVE  /\ SubSeq(s, 1, a) \in Seq(Octet) /\ Len(SubSeq(s, 1, a)) = a
         /\ \A i \in 1 .. a : SubSeq(s, 1, a)[i] = s[i]
<1>1. PICK n \in Nat : Len(s) = n
  BY OctetFacts
<1>2. a \in Nat /\ a <= n
  BY <1>1
<1> PICK k \in Nat : k = a
  BY <1>2
<1>3. SubSeq(s, 1, k) = [i \in 1 .. k |-> s[i]]
  <2>1. SubSeq(s, 1, k) = [i \in 1 .. k - 1 + 1 |-> s[1 + i - 1]]
    OBVIOUS
  <2>2. k - 1 + 1 = k
    OBVIOUS
  <2>3. \A i \in 1 .. k : s[1 + i - 1] = s[i]
    <3>1. \A i \in 1 .. k : 1 + i - 1 = i
      OBVIOUS
    <3> QED BY <3>1
  <2>4. [i \in 1 .. k |-> s[1 + i - 1]] = [i \in 1 .. k |-> s[i]]
    BY <2>3, Zenon
  <2> QED BY <2>1, <2>2, <2>4
<1> PICK x : x = SubSeq(s, 1, k)
  OBVIOUS
<1>4. x \in [1 .. k -> Octet] /\ \A i \in 1 .. k : x[i] = s[i]
  <2>1. \A i \in 1 .. k : s[i] \in Octet
    <3>1. \A i \in 1 .. k : i \in 1 .. Len(s)
      BY <1>1, <1>2
    <3> QED BY <3>1, ElementOfSeq
  <2> QED BY <2>1, <1>3
<1>5. x \in Seq(Octet) /\ Len(x) = k
  BY <1>4
<1> QED BY <1>4, <1>5

LEMMA HereFacts ==
  ASSUME Sound
  PROVE  /\ here \in Seq(Octet) /\ Len(here) = arrived /\ arrived \in Nat
         /\ Len(message) \in Nat /\ arrived <= Len(message)
         /\ \A i \in 1 .. arrived : here[i] = message[i]
<1>1. message \in Seq(Octet) /\ arrived \in 0 .. Len(message)
  BY DEF Sound
<1>2. here \in Seq(Octet) /\ Len(here) = arrived /\ \A i \in 1 .. arrived : here[i] = message[i]
  BY <1>1, Prefix DEF here
<1>3. Len(message) \in Nat
  BY <1>1, OctetFacts
<1> QED BY <1>1, <1>2, <1>3

\* What of a structure has come in is decoded as its header, when that is
\* there.
LEMMA WhatIsThere ==
  ASSUME Sound, sent # Nothing
  PROVE  \E n \in Nat, l \in Nat :
           /\ sent.length = l /\ SentSize = n + l
           /\ decode_header(here) =
                IF arrived >= n /\ l <= MaxStructure
                THEN {[class |-> sent.class, constructed |-> sent.constructed, tag |-> sent.tag,
                       length |-> l, size |-> n]}
                ELSE {}
<1>1. /\ sent \in AllHeaders
      /\ message = encode_header(sent) \o [i \in 1 .. sent.length |-> 255] \o Behind
  BY HeadersAreAll DEF Sound
<1> PICK e : e = encode_header(sent)
  OBVIOUS
<1>2. /\ Len(e) \in Nat /\ sent.length \in Nat /\ Len(Behind) \in Nat
      /\ Len(message) = (Len(e) + sent.length) + Len(Behind)
      /\ \A i \in 1 .. Len(e) : message[i] = e[i]
  <2> PICK h \in AllHeaders : h = sent
    BY <1>1
  <2> PICK x : x = message
    OBVIOUS
  <2>1. e = encode_header(h) /\ x = e \o [i \in 1 .. h.length |-> 255] \o Behind
    BY <1>1
  <2>2. /\ Len(e) \in Nat /\ h.length \in Nat /\ Len(Behind) \in Nat
        /\ Len(x) = (Len(e) + h.length) + Len(Behind)
        /\ \A i \in 1 .. Len(e) : x[i] = e[i]
    BY <2>1, Structure, ZenonT(20)
  <2> QED BY <2>2, Zenon
<1>3. PICK n \in Nat : Len(e) = n
  BY <1>2
<1>4. PICK l \in Nat : sent.length = l
  BY <1>2
<1>5. SentSize = n + l
  <2> PICK b \in Nat : Len(Behind) = b
    BY <1>2
  <2>1. Len(message) = (n + l) + b
    BY <1>2, <1>3, <1>4
  <2> QED BY <2>1 DEF SentSize
<1>6. here \in Seq(Octet) /\ Len(here) = arrived /\ \A i \in 1 .. arrived : here[i] = message[i]
  BY HereFacts
<1>7. BeginsBehind(here, 0, e)
  <2>1. PICK a \in Nat : arrived = a
    BY HereFacts
  <2>2. ASSUME NEW i \in 1 .. n, 0 + i <= a
        PROVE  here[0 + i] = e[i]
    <3>1. 0 + i = i /\ i \in 1 .. a
      BY <2>2
    <3> QED BY <3>1, <2>1, <1>2, <1>3, <1>6
  <2> QED BY <2>1, <2>2, <1>3, <1>6 DEF BeginsBehind
<1>8. decode_header(here) =
        IF Len(here) >= Len(e) /\ sent.length <= MaxStructure
        THEN {[class |-> sent.class, constructed |-> sent.constructed, tag |-> sent.tag,
               length |-> sent.length, size |-> Len(e)]}
        ELSE {}
  BY <1>1, <1>6, <1>7, EncodedHeader
<1> QED BY <1>3, <1>4, <1>5, <1>6, <1>8

\* Of a message of any length, with a tag and a length of any form and size:
\* a header is read back as soon as all of it is there, not before, and as it
\* was written (asn_der_encoder.hpp:111-156, asn_der_decoder.hpp:186-237).
THEOREM HeaderIsReadBack == Spec => []HeaderReadBack
<1>1. Sound => HeaderReadBack
  <2> SUFFICES ASSUME Sound, sent # Nothing
               PROVE  decode_header(here) =
                        IF arrived >= SentSize - sent.length /\ sent.length <= MaxStructure
                        THEN {[class |-> sent.class, constructed |-> sent.constructed,
                               tag |-> sent.tag, length |-> sent.length,
                               size |-> SentSize - sent.length]}
                        ELSE {}
    BY DEF HeaderReadBack
  <2>1. PICK n \in Nat, l \in Nat :
           /\ sent.length = l /\ SentSize = n + l
           /\ decode_header(here) =
                IF arrived >= n /\ l <= MaxStructure
                THEN {[class |-> sent.class, constructed |-> sent.constructed, tag |-> sent.tag,
                       length |-> l, size |-> n]}
                ELSE {}
    BY WhatIsThere
  <2>2. SentSize - sent.length = n
    BY <2>1
  <2> QED BY <2>1, <2>2
<1> QED BY <1>1, Soundness, PTL

\* What was sent is cut where it ends, when its last octet is there and not
\* earlier, whatever follows (asn_der_decoder.hpp:143-162).
THEOREM CutWhereSentEnds == Spec => []CutWhereItEnds
<1>1. Sound => CutWhereItEnds
  <2> SUFFICES ASSUME Sound, sent # Nothing, sent.length <= MaxStructure
               PROVE  has_next(here) = IF arrived < SentSize THEN 0 ELSE SentSize
    BY DEF CutWhereItEnds
  <2>1. PICK n \in Nat, l \in Nat :
           /\ sent.length = l /\ SentSize = n + l
           /\ decode_header(here) =
                IF arrived >= n /\ l <= MaxStructure
                THEN {[class |-> sent.class, constructed |-> sent.constructed, tag |-> sent.tag,
                       length |-> l, size |-> n]}
                ELSE {}
    BY WhatIsThere
  <2>2. PICK a \in Nat : arrived = a /\ Len(here) = a
    BY HereFacts
  <2> DEFINE L == { k \in { h.size + h.length : h \in decode_header(here) } : k <= Len(here) }
  <2>3. has_next(here) = IF L = {} THEN 0 ELSE CHOOSE k \in L : TRUE
    BY Zenon DEF has_next
  <2>4. CASE a < n + l
    <3>1. L = {}
      <4> SUFFICES ASSUME NEW h \in decode_header(here), h.size + h.length <= a
                   PROVE  FALSE
        BY <2>2
      <4>1. h.size = n /\ h.length = l
        BY <2>1
      <4> QED BY <4>1, <2>4
    <3> HIDE DEF L
    <3> QED BY <3>1, <2>1, <2>2, <2>3, <2>4
  <2>5. CASE ~(a < n + l)
    <3>1. a >= n /\ l <= MaxStructure /\ n + l <= a
      BY <2>1, <2>5
    <3> PICK H : H = [class |-> sent.class, constructed |-> sent.constructed, tag |-> sent.tag,
                      length |-> l, size |-> n]
      OBVIOUS
    <3>2. decode_header(here) = {H} /\ H.size = n /\ H.length = l
      BY <3>1, <2>1, <2>2
    <3>3. L = {n + l}
      BY <3>1, <3>2, <2>2
    <3> HIDE DEF L
    <3> QED BY <3>3, <2>1, <2>2, <2>3, <2>5
  <2> QED BY <2>4, <2>5
<1> QED BY <1>1, Soundness, PTL

\* Of any octets, legal or not, in whatever portions they come in: once the
\* receiver knows where a structure ends, more octets do not change it.
THEOREM EndStaysFinal == Spec => EndIsFinal
<1>1. ASSUME Sound, [Next]_vars, arrived' > arrived, has_next(here) # 0
      PROVE  has_next(here') = has_next(here)
  <2>1. message' = message /\ arrived' = arrived + 1 /\ arrived < Len(message)
    <3>1. arrived' # arrived
      BY <1>1, HereFacts
    <3> QED BY <1>1, <3>1 DEF Next, vars, Send, Receive, Arrive, Done
  <2>2. PICK a \in Nat : arrived = a
    BY <1>1, HereFacts
  <2>3. PICK n \in Nat : Len(message) = n /\ message \in Seq(Octet)
    BY <1>1, HereFacts DEF Sound
  <2>4. a + 1 \in 0 .. n /\ a \in 0 .. n
    BY <2>1, <2>2, <2>3
  <2> PICK s : s = here
    OBVIOUS
  <2> PICK t : t = here'
    OBVIOUS
  <2>5. s \in Seq(Octet) /\ Len(s) = a /\ \A i \in 1 .. a : s[i] = message[i]
    BY <2>2, <2>3, <2>4, Prefix DEF here
  <2>6. t \in Seq(Octet) /\ Len(t) = a + 1 /\ \A i \in 1 .. a + 1 : t[i] = message[i]
    <3>1. t = SubSeq(message, 1, a + 1)
      BY <2>1, <2>2 DEF here
    <3> QED BY <3>1, <2>3, <2>4, Prefix
  <2>7. Continues(t, s)
    <3>1. \A i \in 1 .. a : i \in 1 .. a + 1
      OBVIOUS
    <3>2. a <= a + 1
      OBVIOUS
    <3> QED BY <3>1, <3>2, <2>5, <2>6 DEF Continues
  <2>8. has_next(s) # 0
    BY <1>1
  <2>9. has_next(t) = has_next(s)
    BY <2>7, <2>8, EndStays
  <2> QED BY <2>9
<1>2. Sound /\ [Next]_vars =>
        [arrived' > arrived /\ has_next(here) # 0 => has_next(here') = has_next(here)]_vars
  BY <1>1
<1> QED BY <1>2, Soundness, PTL DEF Spec, EndIsFinal

\* Of any octets: a long tag that fits into a word is read as what its digits
\* say (asn_der_decoder.hpp:186-197).
THEOREM LongTagIsExact == Spec => []LongTagExact
<1>1. Sound => LongTagExact
  <2> SUFFICES ASSUME Sound, NEW t \in decode_tag(here), t.size > 1,
                      DigitsValue(here, t.size) < TwoTo[WordBits]
               PROVE  t.tag = DigitsValue(here, t.size)
    BY DEF LongTagExact
  <2>1. here \in Seq(Octet)
    BY HereFacts
  <2>2. PICK n \in Ends(here) : t = LongTag(here, n)
    <3>1. here # <<>> /\ here[1] % 32 = 31
      <4>1. here # <<>>
        BY <2>1, DecodeTagCases
      <4>2. CASE here[1] % 32 # 31
        <5>1. t = [tag |-> here[1] % 32, size |-> 1]
          BY <4>1, <4>2, <2>1, DecodeTagCases
        <5> QED BY <5>1
      <4> QED BY <4>1, <4>2
    <3> QED BY <3>1, <2>1, DecodeTagCases
  <2>3. n \in Nat /\ n + 1 <= Len(here)
    BY <2>1, EndsFacts
  <2>4. t.size = n + 1 /\ t.tag = ShiftedIn([i \in 1 .. n |-> here[i + 1] % 128], 128)
    BY <2>2 DEF LongTag
  <2>5. ShiftedIn([i \in 1 .. n |-> here[i + 1] % 128], 128) = DigitsValue(here, n + 1)
    BY <2>1, <2>3, <2>4, DigitsExact
  <2> QED BY <2>4, <2>5
<1> QED BY <1>1, Soundness, PTL
=============================================================================
