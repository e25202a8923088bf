--------------------------- MODULE DerValuesProofs ----------------------------
(***************************************************************************)
(* That the codecs of values read what they have written, whatever the     *)
(* width of a word, and nothing else as something it is not.               *)
(***************************************************************************)
EXTENDS DerValues, DerProofs

-----------------------------------------------------------------------------
(***************************************************************************)
(* The number octets are, and the octets of a number.                      *)
(***************************************************************************)

\* The number of the first i octets, for each i.
Leading(lead, s) ==
  /\ lead[0] = 0
  /\ \A i \in 1 .. Len(s) : lead[i] = lead[i - 1] * 256 + s[i]

LEMMA OctetStrings ==
  ASSUME NEW s \in Seq(Octet)
  PROVE  /\ Len(s) \in Nat /\ DOMAIN s = 1 .. Len(s)
         /\ \A i \in 1 .. Len(s) : s[i] \in Nat /\ s[i] < 256 /\ s[i] \in Octet
<1>1. Len(s) \in Nat /\ DOMAIN s = 1 .. Len(s) /\ \A i \in 1 .. Len(s) : s[i] \in Octet
  BY LenProperties, ElementOfSeq
<1>2. \A o \in Octet : o \in Nat /\ o < 256
  BY DEF Octet
<1> QED BY <1>1, <1>2

LEMMA LeadingExists ==
  ASSUME NEW s \in Seq(Octet), NEW n \in Nat, n <= Len(s)
  PROVE  \E f \in [0 .. n -> Nat] :
           f = [i \in 0 .. n |-> IF i = 0 THEN 0 ELSE f[i - 1] * 256 + s[i]]
<1> DEFINE Body(f, k) == [i \in 0 .. k |-> IF i = 0 THEN 0 ELSE f[i - 1] * 256 + s[i]]
           Has(k) == \E f \in [0 .. k -> Nat] : f = Body(f, k)
           S == { k \in Nat : k <= Len(s) => Has(k) }
<1>0. Len(s) \in Nat
  BY OctetStrings
<1>1. Has(0)
  <2> DEFINE f == [i \in 0 .. 0 |-> 0]
  <2>1. f = Body(f, 0) /\ f \in [0 .. 0 -> Nat]
    OBVIOUS
  <2> QED BY <2>1
<1>2. ASSUME NEW k \in Nat, Has(k), k + 1 <= Len(s)
      PROVE  Has(k + 1)
  <2>1. PICK f \in [0 .. k -> Nat] : f = Body(f, k)
    BY <1>2
  <2> DEFINE g == [i \in 0 .. k + 1 |-> IF i = k + 1 THEN f[k] * 256 + s[k + 1] ELSE f[i]]
  <2>2. ASSUME NEW i \in 0 .. k + 1
        PROVE  g[i] = IF i = 0 THEN 0 ELSE g[i - 1] * 256 + s[i]
    <3>1. CASE i = 0
      <4>1. f[0] = 0
        BY <2>1
      <4>2. 0 # k + 1 /\ 0 \in 0 .. k + 1
        OBVIOUS
      <4> QED BY <3>1, <4>1, <4>2
    <3>2. CASE i = k + 1
      <4>1. i - 1 = k /\ k \in 0 .. k + 1 /\ k # k + 1 /\ i # 0
        BY <3>2
      <4>2. g[i - 1] = f[k]
        BY <4>1
      <4> QED BY <4>1, <4>2, <3>2
    <3>3. CASE i # 0 /\ i # k + 1
      <4>1. i \in 0 .. k /\ i - 1 \in 0 .. k + 1 /\ i - 1 # k + 1
        BY <3>3
      <4>2. Body(f, k)[i] = f[i - 1] * 256 + s[i]
        BY <3>3, <4>1
      <4>3. f[i] = f[i - 1] * 256 + s[i]
        BY <4>2, <2>1
      <4>4. g[i] = f[i] /\ g[i - 1] = f[i - 1]
        BY <3>3, <4>1
      <4> QED BY <3>3, <4>3, <4>4
    <3> QED BY <3>1, <3>2, <3>3
  <2>3. g = [i \in 0 .. k + 1 |-> g[i]]
    OBVIOUS
  <2>4. g \in [0 .. k + 1 -> Nat]
    <3>1. f[k] \in Nat /\ s[k + 1] \in Nat
      BY <1>0, <1>2, OctetStrings
    <3>2. PICK x \in Nat : f[k] * 256 + s[k + 1] = x
      BY <3>1
    <3>3. \A i \in 0 .. k + 1 : i # k + 1 => i \in 0 .. k
      OBVIOUS
    <3> QED BY <3>2, <3>3
  <2> HIDE DEF g
  <2>5. g = Body(g, k + 1)
    BY <2>2, <2>3
  <2> QED BY <2>4, <2>5
<1> HIDE DEF Has
<1>3. 0 \in S /\ \A k \in Nat : k \in S => k + 1 \in S
  BY <1>0, <1>1, <1>2
<1> HIDE DEF S
<1>4. n \in S
  BY <1>3, SetInduction
<1> QED BY <1>4 DEF S, Has

LEMMA MagnitudeLeads ==
  ASSUME NEW s \in Seq(Octet)
  PROVE  \E lead : /\ Leading(lead, s)
                    /\ \A i \in 0 .. Len(s) : lead[i] \in Nat
                    /\ Magnitude(s) = lead[Len(s)]
<1> DEFINE n == Len(s)
           Body(f) == [i \in 0 .. n |-> IF i = 0 THEN 0 ELSE f[i - 1] * 256 + s[i]]
           lead == CHOOSE f : f = Body(f)
<1>1. n \in Nat /\ \A i \in 1 .. n : s[i] \in Nat
  BY OctetStrings
<1>2. \E f : f = Body(f)
  BY <1>1, LeadingExists
<1>3. lead = Body(lead)
  BY <1>2
<1>4. Magnitude(s) = lead[n]
  BY DEF Magnitude
<1> HIDE DEF lead
<1>5. Leading(lead, s)
  <2>1. lead[0] = 0
    BY <1>1, <1>3
  <2>2. ASSUME NEW i \in 1 .. n
        PROVE  lead[i] = lead[i - 1] * 256 + s[i]
    <3>1. i \in 0 .. n /\ i # 0
      BY <1>1
    <3>2. Body(lead)[i] = lead[i - 1] * 256 + s[i]
      BY <3>1
    <3> QED BY <3>2, <1>3
  <2> QED BY <2>1, <2>2 DEF Leading
<1> HIDE DEF n
<1>6. \A i \in 0 .. n : lead[i] \in Nat
  <2> DEFINE S == { i \in Nat : i <= n => lead[i] \in Nat }
  <2>1. 0 \in S
    BY <1>5 DEF Leading
  <2>2. ASSUME NEW i \in Nat, i \in S
        PROVE  i + 1 \in S
    <3> SUFFICES ASSUME i + 1 <= n
                 PROVE  lead[i + 1] \in Nat
      OBVIOUS
    <3>1. i + 1 \in 1 .. n /\ (i + 1) - 1 = i /\ i <= n
      BY <1>1
    <3>2. lead[i + 1] = lead[i] * 256 + s[i + 1]
      BY <3>1, <1>5 DEF Leading, n
    <3>3. lead[i] \in Nat /\ s[i + 1] \in Nat
      BY <3>1, <2>2, <1>1
    <3> QED BY <3>2, <3>3
  <2> HIDE DEF S
  <2>3. \A i \in Nat : i \in S
    BY <2>1, <2>2, SetInduction
  <2> QED BY <2>3, <1>1 DEF S
<1> QED BY <1>4, <1>5, <1>6 DEF n

LEMMA TwoToOctets ==
  \A k \in Nat : /\ TwoTo[k * 8] \in Nat \ {0}
                 /\ TwoTo[(k + 1) * 8] = TwoTo[k * 8] * 256
<1> SUFFICES ASSUME NEW k \in Nat
             PROVE  TwoTo[k * 8] \in Nat \ {0} /\ TwoTo[(k + 1) * 8] = TwoTo[k * 8] * 256
  OBVIOUS
<1>1. PICK m \in Nat : k * 8 = m /\ (k + 1) * 8 = m + 8
  OBVIOUS
<1>2. TwoTo[m] \in Nat \ {0}
  BY TwoToFacts
<1>3. TwoTo[m + 8] = TwoTo[m] * TwoTo[8]
  BY TwoToSum
<1> QED BY <1>1, <1>2, <1>3, TwoToValues

LEMMA QuotientOctet ==
  ASSUME NEW v \in Nat, NEW p \in Nat \ {0}
  PROVE  v \div (p * 256) = (v \div p) \div 256
<1>1. PICK b \in Nat \ {0} : b = 256
  OBVIOUS
<1>2. v \div (p * b) = (v \div p) \div b
  BY QuotientTwice, ZenonT(30)
<1> QED BY <1>1, <1>2

\* Octets are the digits of the number they are.
LEMMA MagnitudeDigits ==
  ASSUME NEW s \in Seq(Octet), NEW n \in Nat, Len(s) = n, NEW v, v = Magnitude(s)
  PROVE  /\ v \in Nat /\ v < TwoTo[n * 8]
         /\ \A i \in 1 .. n : s[i] = (v \div TwoTo[(n - i) * 8]) % 256
<1>1. \A i \in 1 .. n : s[i] \in Nat /\ s[i] < 256
  BY OctetStrings
<1>2. PICK lead : /\ Leading(lead, s)
                  /\ \A i \in 0 .. n : lead[i] \in Nat
                  /\ v = lead[n]
  BY MagnitudeLeads
<1>3. lead[0] = 0 /\ \A i \in 1 .. n : lead[i] = lead[i - 1] * 256 + s[i]
  BY <1>2 DEF Leading
<1>4. \A i \in Nat : i <= n => lead[i] < TwoTo[i * 8]
  <2> DEFINE S == { i \in Nat : i <= n => lead[i] < TwoTo[i * 8] }
  <2>1. 0 \in S
    BY <1>3, TwoToFacts, SMTT(20)
  <2>2. ASSUME NEW i \in Nat, i \in S
        PROVE  i + 1 \in S
    <3> SUFFICES ASSUME i + 1 <= n
                 PROVE  lead[i + 1] < TwoTo[(i + 1) * 8]
      OBVIOUS
    <3>1. i + 1 \in 1 .. n /\ i \in 0 .. n /\ (i + 1) - 1 = i /\ i <= n
      OBVIOUS
    <3>2. PICK p \in Nat : TwoTo[i * 8] = p
      BY TwoToOctets
    <3>3. TwoTo[(i + 1) * 8] = p * 256
      BY <3>2, TwoToOctets
    <3>4. PICK a \in Nat, o \in Nat : lead[i] = a /\ s[i + 1] = o /\ o < 256
      BY <3>1, <1>1, <1>2
    <3>5. a < p
      BY <2>2, <3>1, <3>2, <3>4
    <3>6. lead[i + 1] = a * 256 + o
      BY <3>1, <3>4, <1>3
    <3> QED BY <3>3, <3>4, <3>5, <3>6
  <2> HIDE DEF S
  <2>3. \A i \in Nat : i \in S
    BY <2>1, <2>2, SetInduction
  <2> QED BY <2>3 DEF S
<1>5. \A k \in Nat : k <= n => v \div TwoTo[k * 8] = lead[n - k]
  <2> DEFINE S == { k \in Nat : k <= n => v \div TwoTo[k * 8] = lead[n - k] }
  <2>1. 0 \in S
    <3>1. v \in Nat
      BY <1>2
    <3>2. v \div 1 = v
      BY <3>1
    <3>3. 0 * 8 = 0 /\ n - 0 = n
      OBVIOUS
    <3> QED BY <3>2, <3>3, <1>2, TwoToFacts
  <2>2. ASSUME NEW k \in Nat, k \in S
        PROVE  k + 1 \in S
    <3> SUFFICES ASSUME k + 1 <= n
                 PROVE  v \div TwoTo[(k + 1) * 8] = lead[n - (k + 1)]
      OBVIOUS
    <3>1. PICK j \in 0 .. n - 1 : n - (k + 1) = j /\ n - k = j + 1 /\ (j + 1) - 1 = j
      OBVIOUS
    <3>2. PICK p \in Nat \ {0} : TwoTo[k * 8] = p
      BY TwoToOctets
    <3>3. TwoTo[(k + 1) * 8] = p * 256
      BY <3>2, TwoToOctets
    <3>4. v \div (p * 256) = (v \div p) \div 256
      <4>1. v \in Nat
        BY <1>2
      <4> QED BY <4>1, QuotientOctet
    <3>5. v \div p = lead[j + 1]
      BY <2>2, <3>1, <3>2
    <3>6. j + 1 \in 1 .. n /\ j \in 0 .. n
      BY <3>1
    <3>7. PICK a \in Nat, o \in Nat : lead[j] = a /\ s[j + 1] = o /\ o < 256
      BY <3>6, <1>1, <1>2
    <3>8. lead[j + 1] = a * 256 + o
      BY <3>1, <3>6, <3>7, <1>3
    <3>9. (a * 256 + o) \div 256 = a
      BY <3>7
    <3> QED BY <3>1, <3>3, <3>4, <3>5, <3>7, <3>8, <3>9, SMTT(20)
  <2> HIDE DEF S
  <2>3. \A k \in Nat : k \in S
    BY <2>1, <2>2, SetInduction
  <2> QED BY <2>3 DEF S
<1>6. ASSUME NEW i \in 1 .. n
      PROVE  s[i] = (v \div TwoTo[(n - i) * 8]) % 256
  <2>1. PICK k \in Nat : n - i = k /\ k <= n /\ n - k = i
    OBVIOUS
  <2>2. v \div TwoTo[k * 8] = lead[i]
    BY <2>1, <1>5
  <2>3. i - 1 \in 0 .. n
    OBVIOUS
  <2>4. PICK a \in Nat, o \in Nat : lead[i - 1] = a /\ s[i] = o /\ o < 256
    BY <2>3, <1>1, <1>2
  <2>5. lead[i] = a * 256 + o
    BY <2>4, <1>3
  <2>6. (a * 256 + o) % 256 = o
    BY <2>4
  <2> QED BY <2>1, <2>2, <2>4, <2>5, <2>6
<1> QED BY <1>2, <1>4, <1>6

\* A number is what its digits are.
LEMMA MagnitudeIs ==
  ASSUME NEW s \in Seq(Octet), NEW n \in Nat, Len(s) = n,
         NEW v \in Nat, v < TwoTo[n * 8],
         \A i \in 1 .. n : s[i] = (v \div TwoTo[(n - i) * 8]) % 256
  PROVE  Magnitude(s) = v
<1>1. PICK lead : /\ Leading(lead, s)
                  /\ \A i \in 0 .. n : lead[i] \in Nat
                  /\ Magnitude(s) = lead[n]
  BY MagnitudeLeads
<1>2. lead[0] = 0 /\ \A i \in 1 .. n : lead[i] = lead[i - 1] * 256 + s[i]
  BY <1>1 DEF Leading
<1> DEFINE S == { i \in Nat : i <= n => lead[i] = v \div TwoTo[(n - i) * 8] }
<1>3. 0 \in S
  <2>1. PICK m \in Nat \ {0} : TwoTo[n * 8] = m
    BY TwoToOctets
  <2>2. v \div m = 0
    <3>1. v < m
      BY <2>1, Zenon
    <3> QED BY <3>1, Quotient
  <2>3. lead[0] = v \div TwoTo[(n - 0) * 8]
    <3>1. lead[0] = 0 /\ (n - 0) * 8 = n * 8
      BY <1>2
    <3> QED BY <3>1, <2>1, <2>2
  <2> QED BY <2>3
<1>4. ASSUME NEW i \in Nat, i \in S
      PROVE  i + 1 \in S
  <2> SUFFICES ASSUME i + 1 <= n
               PROVE  lead[i + 1] = v \div TwoTo[(n - (i + 1)) * 8]
    OBVIOUS
  <2>1. PICK k \in Nat : n - (i + 1) = k /\ n - i = k + 1
    OBVIOUS
  <2>2. i + 1 \in 1 .. n /\ i \in 0 .. n /\ (i + 1) - 1 = i
    OBVIOUS
  <2>3. PICK p \in Nat \ {0} : TwoTo[k * 8] = p
    BY TwoToOctets
  <2>4. TwoTo[(k + 1) * 8] = p * 256
      BY <2>3, TwoToOctets
  <2>5. v \div (p * 256) = (v \div p) \div 256
    BY <2>3, QuotientOctet
  <2>6. PICK q \in Nat : v \div p = q
    BY <2>3, Quotient
  <2>7. lead[i] = q \div 256
    <3>1. lead[i] = v \div TwoTo[(n - i) * 8]
      BY <1>4, <2>2
    <3>2. (n - i) * 8 = (k + 1) * 8
      BY <2>1
    <3> QED BY <3>1, <3>2, <2>4, <2>5, <2>6, ZenonT(30)
  <2>8. s[i + 1] = q % 256
    BY <2>1, <2>2, <2>3, <2>6
  <2>9. lead[i + 1] = lead[i] * 256 + s[i + 1]
    BY <2>2, <1>2
  <2>10. (q \div 256) * 256 + (q % 256) = q
    BY <2>6
  <2> QED BY <2>1, <2>3, <2>6, <2>7, <2>8, <2>9, <2>10, SMTT(20)
<1> HIDE DEF S
<1>5. n \in S
  BY <1>3, <1>4, SetInduction
<1>6. lead[n] = v \div TwoTo[(n - n) * 8]
  BY <1>5 DEF S
<1>7. (n - n) * 8 = 0 /\ v \div 1 = v
  OBVIOUS
<1> QED BY <1>1, <1>6, <1>7, TwoToFacts

LEMMA QuotientBetween ==
  ASSUME NEW v \in Nat, NEW p \in Nat \ {0}
  PROVE  \E d \in Nat : v \div p = d /\ d * p <= v /\ v < d * p + p
<1>1. PICK d \in Nat : v \div p = d /\ p * d <= v /\ v < p * d + p
  OBVIOUS
<1>2. p * d = d * p
  OBVIOUS
<1> QED BY <1>1, <1>2

LEMMA ProductGrows ==
  ASSUME NEW a \in Nat, NEW b \in Nat, NEW p \in Nat, a <= b
  PROVE  a * p <= b * p
OBVIOUS

LEMMA TwoToSign ==
  ASSUME NEW n \in Nat \ {0}
  PROVE  /\ TwoTo[n * 8 - 1] \in Nat \ {0} /\ TwoTo[(n - 1) * 8] \in Nat \ {0}
         /\ TwoTo[n * 8 - 1] = 128 * TwoTo[(n - 1) * 8]
         /\ TwoTo[n * 8] = 256 * TwoTo[(n - 1) * 8]
         /\ TwoTo[8 * n] = TwoTo[n * 8] /\ TwoTo[8 * n - 1] = TwoTo[n * 8 - 1]
<1>1. PICK k \in Nat : n = k + 1 /\ n - 1 = k
  <2>1. n - 1 \in Nat /\ n = (n - 1) + 1
    OBVIOUS
  <2> QED BY <2>1
<1>2. PICK m \in Nat : k * 8 = m
  OBVIOUS
<1>3. n * 8 = m + 8 /\ n * 8 - 1 = m + 7 /\ (n - 1) * 8 = m /\ 8 * n = n * 8
  BY <1>1, <1>2
<1>4. TwoTo[m + 7] = TwoTo[m] * TwoTo[7] /\ TwoTo[m + 8] = TwoTo[m] * TwoTo[8]
  BY TwoToSum
<1>5. TwoTo[m] \in Nat \ {0}
  BY TwoToFacts
<1>6. TwoTo[m + 7] = 128 * TwoTo[m] /\ TwoTo[m + 8] = 256 * TwoTo[m]
  BY <1>4, <1>5, TwoToValues
<1>7. TwoTo[m + 7] \in Nat \ {0}
  BY <1>5, <1>6
<1> QED BY <1>3, <1>5, <1>6, <1>7

\* The first octet, and the first two.
LEMMA FirstOctets ==
  ASSUME NEW s \in Seq(Octet), NEW n \in Nat, Len(s) = n, n >= 1, NEW v, v = Magnitude(s)
  PROVE  /\ v \in Nat /\ v < TwoTo[n * 8] /\ s[1] \in Nat /\ s[1] < 256
         /\ s[1] = v \div TwoTo[(n - 1) * 8]
         /\ n >= 2 => /\ s[2] \in Nat /\ s[2] < 256
                      /\ s[1] * 256 + s[2] = v \div TwoTo[(n - 2) * 8]
<1>1. /\ v \in Nat /\ v < TwoTo[n * 8]
      /\ \A i \in 1 .. n : s[i] = (v \div TwoTo[(n - i) * 8]) % 256
  BY MagnitudeDigits
<1>2. \A i \in 1 .. n : s[i] \in Nat /\ s[i] < 256
  BY OctetStrings
<1>3. 1 \in 1 .. n
  OBVIOUS
<1>4. PICK p \in Nat \ {0} : TwoTo[(n - 1) * 8] = p /\ TwoTo[n * 8] = 256 * p
  BY TwoToSign
<1>5. s[1] = (v \div p) % 256
  BY <1>1, <1>3, <1>4
<1>6. s[1] = v \div p
  <2>0. v \in Nat /\ v < 256 * p
    BY <1>1, <1>4
  <2>1. PICK d \in Nat : v \div p = d /\ d * p <= v
    BY <2>0, QuotientBetween
  <2>2. d < 256
    <3> SUFFICES ASSUME d >= 256
                 PROVE  FALSE
      OBVIOUS
    <3>1. 256 * p <= d * p
      BY ProductGrows
    <3>2. d * p \in Nat /\ 256 * p \in Nat
      OBVIOUS
    <3> QED BY <3>1, <3>2, <2>0, <2>1
  <2>3. d % 256 = d
    BY <2>2
  <2> QED BY <1>5, <2>1, <2>3
<1>7. ASSUME n >= 2
      PROVE  s[1] * 256 + s[2] = v \div TwoTo[(n - 2) * 8]
  <2>1. n - 1 \in Nat \ {0} /\ (n - 1) - 1 = n - 2 /\ 2 \in 1 .. n
    BY <1>7
  <2>2. PICK r \in Nat \ {0} : TwoTo[(n - 2) * 8] = r /\ p = 256 * r
    <3>1. PICK r \in Nat \ {0} :
            TwoTo[((n - 1) - 1) * 8] = r /\ TwoTo[(n - 1) * 8] = 256 * r
      BY <2>1, TwoToSign, ZenonT(30)
    <3> QED BY <3>1, <2>1, <1>4
  <2>3. s[2] = (v \div r) % 256
    BY <2>1, <2>2, <1>1
  <2>4. v \div (r * 256) = (v \div r) \div 256
    BY <2>2, <1>1, QuotientOctet
  <2>5. r * 256 = p
    BY <2>2
  <2>6. s[1] = (v \div r) \div 256
    BY <2>4, <2>5, <1>6
  <2>7. PICK d \in Nat : v \div r = d
    BY <2>2, <1>1, Quotient
  <2>8. (d \div 256) * 256 + (d % 256) = d
    BY <2>7
  <2> QED BY <2>2, <2>3, <2>6, <2>7, <2>8
<1> QED BY <1>1, <1>2, <1>3, <1>4, <1>6, <1>7

\* Two's complement: the first bit is the sign.
LEMMA NumberFacts ==
  ASSUME NEW s \in Seq(Octet), NEW n \in Nat, Len(s) = n, n >= 1,
         NEW v, v = Magnitude(s), NEW k, k = Number(s)
  PROVE  /\ k \in Int /\ v \in Nat /\ v < TwoTo[n * 8]
         /\ -TwoTo[n * 8 - 1] <= k /\ k < TwoTo[n * 8 - 1]
         /\ s[1] \in Nat
         /\ s[1] >= 128 => k = v - TwoTo[n * 8] /\ k < 0 /\ v >= TwoTo[n * 8 - 1]
         /\ s[1] < 128 => k = v /\ v < TwoTo[n * 8 - 1]
<1>1. PICK p \in Nat \ {0} : /\ TwoTo[(n - 1) * 8] = p /\ TwoTo[n * 8] = 256 * p
                             /\ TwoTo[n * 8 - 1] = 128 * p /\ TwoTo[8 * n] = 256 * p
  BY TwoToSign
<1>2. v \in Nat /\ v < 256 * p
  BY <1>1, FirstOctets
<1>3. PICK o \in Nat : s[1] = o /\ o = v \div p
  BY <1>1, FirstOctets
<1>4. o * p <= v /\ v < o * p + p
  BY <1>2, <1>3, QuotientBetween
<1>5. k = IF o >= 128 THEN v - 256 * p ELSE v
  BY <1>1, <1>3 DEF Number
<1>6. CASE o >= 128
  <2>1. 128 * p <= o * p
    BY <1>6, ProductGrows
  <2>2. PICK c \in Nat : o * p = c
    OBVIOUS
  <2>3. 128 * p <= v /\ k = v - 256 * p /\ p > 0
    BY <2>1, <2>2, <1>2, <1>4, <1>5, <1>6
  <2>4. k \in Int /\ -(128 * p) <= k /\ k < 128 * p /\ k < 0
    BY <2>3, <1>2
  <2> QED BY <2>3, <2>4, <1>1, <1>2, <1>3, <1>6
<1>7. CASE o < 128
  <2>1. (o + 1) * p <= 128 * p /\ (o + 1) * p = o * p + p
    BY <1>7, ProductGrows
  <2>2. PICK c \in Nat : o * p = c
    OBVIOUS
  <2>3. v < 128 * p /\ k = v /\ p > 0
    BY <2>1, <2>2, <1>2, <1>4, <1>5, <1>7
  <2>4. k \in Int /\ -(128 * p) <= k /\ k < 128 * p
    BY <2>3, <1>2
  <2> QED BY <2>3, <2>4, <1>1, <1>2, <1>3, <1>7
<1> QED BY <1>6, <1>7

\* The first nine bits are not all the same.
Shortest(s) ==
  Len(s) > 1 => ~(s[1] = 0 /\ s[2] < 128) /\ ~(s[1] = 255 /\ s[2] >= 128)

\* That is, the number needs every octet there is.
LEMMA ShortestFacts ==
  ASSUME NEW s \in Seq(Octet), NEW n \in Nat, Len(s) = n, n > 1, NEW k, k = Number(s)
  PROVE  Shortest(s) <=> k >= TwoTo[(n - 1) * 8 - 1] \/ k < -TwoTo[(n - 1) * 8 - 1]
<1>1. PICK v : v = Magnitude(s)
  OBVIOUS
<1>2. n - 1 \in Nat \ {0} /\ (n - 1) - 1 = n - 2 /\ n >= 1 /\ n >= 2
  OBVIOUS
<1>3. PICK p \in Nat \ {0} :
         TwoTo[(n - 2) * 8] = p /\ TwoTo[(n - 1) * 8 - 1] = 128 * p /\ TwoTo[n * 8] = 65536 * p
  <2>1. PICK p \in Nat \ {0} :
          /\ TwoTo[(n - 2) * 8] = p /\ TwoTo[(n - 1) * 8 - 1] = 128 * p
          /\ TwoTo[(n - 1) * 8] = 256 * p
    BY <1>2, TwoToSign, ZenonT(20)
  <2>2. TwoTo[n * 8] = 256 * TwoTo[(n - 1) * 8]
    BY <1>2, TwoToSign
  <2> QED BY <2>1, <2>2
<1>4. PICK a \in Nat, b \in Nat : /\ s[1] = a /\ s[2] = b /\ a < 256 /\ b < 256
                                  /\ a * 256 + b = v \div p
  BY <1>1, <1>2, <1>3, FirstOctets, SMTT(20)
<1>5. v \in Nat /\ k = IF a >= 128 THEN v - 65536 * p ELSE v
  BY <1>1, <1>2, <1>3, <1>4, NumberFacts, SMTT(20)
<1>6. PICK d \in Nat : a * 256 + b = d /\ d * p <= v /\ v < d * p + p
  <2>0. v \in Nat
    BY <1>5
  <2>1. PICK d \in Nat : v \div p = d /\ d * p <= v /\ v < d * p + p
    BY <2>0, QuotientBetween
  <2>2. a * 256 + b = d
    BY <2>1, <1>4
  <2> QED BY <2>1, <2>2
<1>7. Shortest(s) <=> ~(a = 0 /\ b < 128) /\ ~(a = 255 /\ b >= 128)
  BY <1>4 DEF Shortest
<1>8. CASE a = 0 /\ b < 128
  <2>1. d + 1 <= 128 /\ d < 128
    BY <1>6, <1>8, <1>4
  <2>2. d * p + p <= 128 * p
    BY <2>1, ProductGrows
  <2> QED BY <2>2, <1>3, <1>5, <1>6, <1>7, <1>8
<1>9. CASE a = 255 /\ b >= 128
  <2>1. d >= 65408
    BY <1>6, <1>9
  <2>2. d * p >= 65408 * p
    BY <2>1, ProductGrows
  <2>3. v < TwoTo[n * 8]
    BY <1>1, <1>2, FirstOctets
  <2>4. v >= 65408 * p /\ v < 65536 * p
    BY <2>2, <2>3, <1>3, <1>5, <1>6
  <2> QED BY <2>4, <1>3, <1>5, <1>7, <1>9
<1>10. CASE a < 128 /\ ~(a = 0 /\ b < 128)
  <2>1. d >= 128
    BY <1>4, <1>6, <1>10
  <2>2. d * p >= 128 * p
    BY <2>1, ProductGrows
  <2> QED BY <2>2, <1>3, <1>5, <1>6, <1>7, <1>10
<1>11. CASE a >= 128 /\ ~(a = 255 /\ b >= 128)
  <2>1. d < 65408 /\ d + 1 <= 65408
    BY <1>4, <1>6, <1>11
  <2>2. d * p + p <= 65408 * p
    BY <2>1, ProductGrows
  <2> QED BY <2>2, <1>3, <1>5, <1>6, <1>7, <1>11
<1> QED BY <1>4, <1>8, <1>9, <1>10, <1>11

-----------------------------------------------------------------------------
(***************************************************************************)
(* Integers written and read.                                              *)
(***************************************************************************)

\* The octets a number needs that may have a sign.
SignedBlockOf(v, size) == highest_bit_block(v, TRUE, size, 8)

LEMMA SignedBlock ==
  ASSUME NEW v \in Nat, NEW size \in Nat \ {0}, v < TwoTo[size * 8],
         NEW h, h = SignedBlockOf(v, size)
  PROVE  /\ h \in Nat /\ h <= size
         /\ v < TwoTo[(h + 1) * 8 - 1]
         /\ h > 0 => TwoTo[h * 8 - 1] <= v
<1> DEFINE set == { n \in 0 .. size * 8 - 1 : IsSet(v, n) }
<1>1. size * 8 \in Nat /\ size * 8 > 0
  OBVIOUS
<1>2. PICK b \in 0 .. size * 8 : HasBits(v, b)
  BY <1>1, BitsExist
<1>3. /\ \A k \in Nat : k >= b => ~IsSet(v, k)
      /\ b > 0 => IsSet(v, b - 1)
  BY <1>2, BitsSet
<1>4. h = b \div 8
  <2>1. CASE b = 0
    <3>1. set = {}
      BY <1>3, <2>1
    <3>2. h = 0
      BY <3>1 DEF highest_bit_block, SignedBlockOf
    <3> QED BY <3>2, <2>1
  <2>2. CASE b > 0
    <3>1. b - 1 \in set /\ \A k \in set : k <= b - 1
      BY <1>1, <1>3, <2>2
    <3> DEFINE top == CHOOSE n \in set : \A k \in set : k <= n
    <3>2. top \in set /\ \A k \in set : k <= top
      BY <3>1
    <3>3. top = b - 1
      <4> HIDE DEF top
      <4>1. top \in Nat /\ top <= b - 1 /\ b - 1 <= top
        BY <3>1, <3>2
      <4> QED BY <4>1
    <3> DEFINE needed == IF (1 + top) % 8 = 0 THEN (1 + top) + 1 ELSE 1 + top
    <3>4. h = IF needed = 0 THEN 0 ELSE (needed - 1) \div 8
      <4>1. set # {}
        BY <3>1
      <4> QED BY <4>1 DEF highest_bit_block, SignedBlockOf
    <3> HIDE DEF top
    <3>5. needed = IF b % 8 = 0 THEN b + 1 ELSE b
      BY <3>3, <2>2
    <3> HIDE DEF needed
    <3>6. needed # 0 /\ (needed - 1) \div 8 = b \div 8
      BY <3>5, <2>2
    <3> QED BY <3>4, <3>6
  <2> QED BY <2>1, <2>2
<1> HIDE DEF set
<1>5. h \in Nat /\ h * 8 <= b /\ b <= (h + 1) * 8 - 1 /\ h <= size
  BY <1>4
<1>6. v < TwoTo[(h + 1) * 8 - 1]
  <2>1. PICK c \in Nat : (h + 1) * 8 - 1 = c /\ b <= c
    BY <1>5
  <2>2. TwoTo[b] \in Nat /\ TwoTo[c] \in Nat /\ TwoTo[b] <= TwoTo[c]
    BY <2>1, TwoToFacts, TwoToGrows
  <2>3. v < TwoTo[b]
    BY <1>2 DEF HasBits
  <2> QED BY <2>1, <2>2, <2>3
<1>7. ASSUME h > 0
      PROVE  TwoTo[h * 8 - 1] <= v
  <2>1. PICK c \in Nat, e \in Nat : h * 8 - 1 = c /\ b - 1 = e /\ c <= e /\ b # 0
    BY <1>5, <1>7
  <2>2. TwoTo[e] \in Nat /\ TwoTo[c] \in Nat /\ TwoTo[c] <= TwoTo[e]
    BY <2>1, TwoToFacts, TwoToGrows
  <2>3. TwoTo[e] <= v
    BY <1>2, <2>1 DEF HasBits
  <2> QED BY <2>1, <2>2, <2>3
<1> QED BY <1>5, <1>6, <1>7

\* The digits of a word, however many are asked for.
DigitsOf(v, n) == [i \in 1 .. n |-> bits_from_position(v, (n - i) * 8, 8)]

LEMMA OctetsWritten ==
  ASSUME NEW v \in Nat, v < TwoTo[WordBits], NEW n \in Nat, v < TwoTo[n * 8]
  PROVE  /\ DigitsOf(v, n) \in Seq(Octet) /\ Len(DigitsOf(v, n)) = n
         /\ Magnitude(DigitsOf(v, n)) = v
<1>0. PICK s : s = DigitsOf(v, n) /\ s = [i \in 1 .. n |-> bits_from_position(v, (n - i) * 8, 8)]
  BY Zenon DEF DigitsOf
<1>1. ASSUME NEW i \in 1 .. n
      PROVE  /\ bits_from_position(v, (n - i) * 8, 8) = (v \div TwoTo[(n - i) * 8]) % 256
             /\ (v \div TwoTo[(n - i) * 8]) % 256 \in Octet
  <2>1. PICK k \in Nat : n - i = k
    OBVIOUS
  <2>2. PICK p \in Nat \ {0} : TwoTo[k * 8] = p
    BY TwoToOctets
  <2>3. PICK d \in Nat : v \div p = d /\ (v < p => d = 0)
    BY Quotient
  <2>4. d % 256 \in Octet
    BY DEF Octet
  <2>5. CASE k * 8 < WordBits
    <3>1. bits_from_position(v, k * 8, 8) = d % 256
      BY <2>2, <2>3, <2>5, TwoToValues DEF bits_from_position
    <3> QED BY <3>1, <2>1, <2>2, <2>3, <2>4
  <2>6. CASE ~(k * 8 < WordBits)
    <3>1. bits_from_position(v, k * 8, 8) = 0
      BY <2>6 DEF bits_from_position
    <3>2. PICK w \in Nat, m \in Nat : WordBits = w /\ k * 8 = m /\ w <= m
      BY <2>6, WordFacts
    <3>3. TwoTo[w] <= TwoTo[m] /\ TwoTo[w] \in Nat
      BY <3>2, TwoToGrows, TwoToFacts
    <3>4. v < p
      BY <3>2, <3>3, <2>2
    <3>5. d = 0 /\ d % 256 = 0
      BY <3>4, <2>3
    <3> QED BY <3>1, <3>5, <2>1, <2>2, <2>3, <2>4
  <2> QED BY <2>5, <2>6
<1>2. s \in [1 .. n -> Octet]
  BY <1>0, <1>1
<1>3. s \in Seq(Octet) /\ Len(s) = n
  BY <1>2
<1>4. \A i \in 1 .. n : s[i] = (v \div TwoTo[(n - i) * 8]) % 256
  BY <1>0, <1>1
<1> QED BY <1>0, <1>3, <1>4, MagnitudeIs

LEMMA EncodeNatural ==
  ASSUME NEW size \in Nat \ {0}, size <= WordOctets, NEW v \in Nat, v < TwoTo[size * 8],
         NEW s, s = encode_integer(v, size)
  PROVE  s \in Seq(Octet) /\ Len(s) \in Nat /\ Len(s) >= 1 /\ Number(s) = v /\ Shortest(s)
<1>1. PICK h \in Nat : /\ h = SignedBlockOf(v, size) /\ v < TwoTo[(h + 1) * 8 - 1]
                       /\ h > 0 => TwoTo[h * 8 - 1] <= v
  BY SignedBlock
<1>2. PICK n \in Nat \ {0} : n = h + 1 /\ n - 1 = h
  OBVIOUS
<1>3. s = DigitsOf(v, n)
  <2>1. ~(v < 0)
    OBVIOUS
  <2>2. s = encode_to_octets(v, size, TRUE, 8)
    BY <2>1, Zenon DEF encode_integer
  <2>3. s = [i \in 1 .. h + 1 |-> bits_from_position(v, ((h + 1) - i) * 8, 8)]
    BY <2>2, <1>1, Zenon DEF encode_to_octets, SignedBlockOf
  <2> QED BY <2>3, <1>2, Zenon DEF DigitsOf
<1>4. v < TwoTo[WordBits]
  <2>1. PICK a \in Nat, b \in Nat : size * 8 = a /\ WordBits = b /\ a <= b
    BY WordFacts
  <2>2. TwoTo[a] <= TwoTo[b] /\ TwoTo[a] \in Nat /\ TwoTo[b] \in Nat
    BY <2>1, TwoToGrows, TwoToFacts
  <2> QED BY <2>1, <2>2
<1>5. PICK p \in Nat \ {0} : TwoTo[n * 8 - 1] = 128 * p /\ TwoTo[n * 8] = 256 * p
  BY TwoToSign
<1>6. v < 128 * p /\ v < 256 * p
  BY <1>1, <1>2, <1>5
<1>7. s \in Seq(Octet) /\ Len(s) = n /\ Magnitude(s) = v
  <2>1. v < TwoTo[n * 8] /\ n \in Nat
    BY <1>5, <1>6
  <2>2. /\ DigitsOf(v, n) \in Seq(Octet) /\ Len(DigitsOf(v, n)) = n
        /\ Magnitude(DigitsOf(v, n)) = v
    BY <2>1, <1>4, OctetsWritten
  <2> QED BY <2>2, <1>3, Zenon
<1>8. Number(s) = v
  BY <1>5, <1>6, <1>7, NumberFacts
<1>9. ASSUME n > 1
      PROVE  Shortest(s)
  BY <1>1, <1>2, <1>7, <1>8, <1>9, ShortestFacts
<1>10. n <= 1 => Shortest(s)
  BY <1>7 DEF Shortest
<1> QED BY <1>7, <1>8, <1>9, <1>10

\* All ones but for those of the number.
LEMMA ComplementedIs ==
  ASSUME NEW k \in Nat, NEW n \in Nat, k < TwoTo[n * 8]
  PROVE  Complemented(k, n) = TwoTo[n * 8] - 1 - k
<1>1. PICK m \in Nat \ {0} : TwoTo[n * 8] = m
  BY TwoToOctets
<1>2. 8 * n = n * 8
  OBVIOUS
<1>3. k \div m = 0 /\ k % m = k
  BY <1>1
<1>4. Complemented(k, n) = (k \div m) * m + (m - 1) - (k % m)
  BY <1>1, <1>2 DEF Complemented
<1> QED BY <1>1, <1>3, <1>4

\* How many octets a number has whose first bit is set.
LEMMA WidthIs ==
  ASSUME NEW size \in Nat \ {0}, NEW v \in Nat, v < TwoTo[size * 8],
         NEW n \in Nat \ {0}, v < TwoTo[n * 8], TwoTo[n * 8 - 1] <= v
  PROVE  BlockOf(v, size, 8) = n - 1
<1>1. PICK g \in Nat : /\ g = BlockOf(v, size, 8) /\ v < TwoTo[(g + 1) * 8]
                       /\ g > 0 => TwoTo[g * 8] <= v
  <2>1. PICK b : b = 8 /\ b \in Nat \ {0}
    OBVIOUS
  <2>2. PICK g : g = BlockOf(v, size, b)
    OBVIOUS
  <2>3. g \in Nat /\ v < TwoTo[(g + 1) * b] /\ (g > 0 => TwoTo[g * b] <= v)
    BY <2>1, <2>2, HighestBlock
  <2> QED BY <2>1, <2>2, <2>3
<1>2. ~(g + 1 < n)
  <2> SUFFICES ASSUME g + 1 < n
               PROVE  FALSE
    OBVIOUS
  <2>1. PICK a \in Nat, b \in Nat : (g + 1) * 8 = a /\ n * 8 - 1 = b /\ a <= b
    OBVIOUS
  <2>2. TwoTo[a] <= TwoTo[b] /\ TwoTo[a] \in Nat /\ TwoTo[b] \in Nat
    BY <2>1, TwoToGrows, TwoToFacts
  <2> QED BY <2>1, <2>2, <1>1
<1>3. ~(g >= n)
  <2> SUFFICES ASSUME g >= n
               PROVE  FALSE
    OBVIOUS
  <2>1. PICK a \in Nat, b \in Nat : n * 8 = a /\ g * 8 = b /\ a <= b /\ g > 0
    OBVIOUS
  <2>2. TwoTo[a] <= TwoTo[b] /\ TwoTo[a] \in Nat /\ TwoTo[b] \in Nat
    BY <2>1, TwoToGrows, TwoToFacts
  <2> QED BY <2>1, <2>2, <1>1
<1> QED BY <1>1, <1>2, <1>3

LEMMA EncodeNegative ==
  ASSUME NEW size \in Nat \ {0}, size <= WordOctets, NEW v \in Int, v < 0,
         -TwoTo[size * 8 - 1] <= v,
         NEW s, s = encode_integer(v, size)
  PROVE  s \in Seq(Octet) /\ Len(s) \in Nat /\ Len(s) >= 1 /\ Number(s) = v /\ Shortest(s)
<1>1. PICK q \in Nat \ {0} : TwoTo[size * 8 - 1] = 128 * q /\ TwoTo[size * 8] = 256 * q
  BY TwoToSign
<1>2. PICK k \in Nat : k = -(v + 1) /\ v = -1 - k /\ k < 128 * q /\ k < 256 * q
  <2>1. -(v + 1) \in Nat /\ -(v + 1) < 128 * q
    BY <1>1
  <2> QED BY <2>1
<1>3. PICK h \in Nat : /\ h = SignedBlockOf(k, size) /\ k < TwoTo[(h + 1) * 8 - 1]
                       /\ h > 0 => TwoTo[h * 8 - 1] <= k
  <2>1. k < TwoTo[size * 8]
    BY <1>1, <1>2
  <2> QED BY <2>1, SignedBlock
<1>4. PICK n \in Nat \ {0} : n = h + 1 /\ n - 1 = h
  OBVIOUS
<1>5. PICK p \in Nat \ {0} : TwoTo[n * 8 - 1] = 128 * p /\ TwoTo[n * 8] = 256 * p
  BY TwoToSign
<1>6. k < 128 * p /\ k < 256 * p
  BY <1>3, <1>4, <1>5
<1>7. n <= size
  <2> SUFFICES ASSUME n > size
               PROVE  FALSE
    OBVIOUS
  <2>0. h >= size
    BY <1>4
  <2>1. PICK a \in Nat, b \in Nat : size * 8 - 1 = a /\ h * 8 - 1 = b /\ a <= b /\ h > 0
    <3>1. size * 8 - 1 \in Nat /\ h * 8 - 1 \in Nat /\ size * 8 - 1 <= h * 8 - 1 /\ h > 0
      BY <2>0
    <3> QED BY <3>1
  <2>2. TwoTo[a] <= TwoTo[b] /\ TwoTo[a] \in Nat /\ TwoTo[b] \in Nat
    BY <2>1, TwoToGrows, TwoToFacts
  <2> QED BY <2>1, <2>2, <1>1, <1>2, <1>3
<1>8. PICK c \in Nat : c = 256 * p - 1 - k /\ 128 * p <= c /\ c < 256 * p
  BY <1>6
<1>9. 256 * p <= 256 * q /\ 256 * q <= TwoTo[WordBits] /\ TwoTo[WordBits] \in Nat
  <2>1. PICK a \in Nat, b \in Nat, w \in Nat :
           n * 8 = a /\ size * 8 = b /\ WordBits = w /\ a <= b /\ b <= w
    BY <1>7, WordFacts
  <2>2. TwoTo[a] <= TwoTo[b] /\ TwoTo[b] <= TwoTo[w] /\ TwoTo[w] \in Nat
    BY <2>1, TwoToGrows, TwoToFacts
  <2> QED BY <2>1, <2>2, <1>1, <1>5
<1>10. c = translate_negative(v, size)
  <2>1. Complemented(k, n) = TwoTo[n * 8] - 1 - k
    BY <1>5, <1>6, ComplementedIs
  <2>2. Complemented(k, n) = c
    BY <2>1, <1>5, <1>8
  <2>3. translate_negative(v, size) = Complemented(k, h + 1)
    BY <1>2, <1>3, Zenon DEF translate_negative, SignedBlockOf
  <2> QED BY <2>2, <2>3, <1>4
<1>11. c < TwoTo[size * 8] /\ c < TwoTo[WordBits]
  BY <1>1, <1>8, <1>9
<1>12. BlockOf(c, size, 8) = h
  <2>1. c < TwoTo[n * 8] /\ TwoTo[n * 8 - 1] <= c
    BY <1>5, <1>8
  <2>2. BlockOf(c, size, 8) = n - 1
    BY <2>1, <1>11, WidthIs
  <2> QED BY <2>2, <1>4
<1>13. s = DigitsOf(c, n)
  <2>1. s = encode_to_octets(c, size, FALSE, 8)
    BY <1>10, Zenon DEF encode_integer
  <2>2. s = [i \in 1 .. h + 1 |-> bits_from_position(c, ((h + 1) - i) * 8, 8)]
    BY <2>1, <1>12, Zenon DEF encode_to_octets, BlockOf
  <2> QED BY <2>2, <1>4, Zenon DEF DigitsOf
<1>14. s \in Seq(Octet) /\ Len(s) = n /\ Magnitude(s) = c
  <2>1. c < TwoTo[n * 8] /\ n \in Nat
    BY <1>5, <1>8
  <2>2. /\ DigitsOf(c, n) \in Seq(Octet) /\ Len(DigitsOf(c, n)) = n
        /\ Magnitude(DigitsOf(c, n)) = c
    BY <2>1, <1>11, OctetsWritten
  <2> QED BY <2>2, <1>13, Zenon
<1>15. Number(s) = v
  BY <1>2, <1>5, <1>8, <1>14, NumberFacts
<1>16. ASSUME n > 1
       PROVE  Shortest(s)
  <2>1. TwoTo[h * 8 - 1] <= k
    BY <1>3, <1>4, <1>16
  <2>2. PICK t \in Nat : TwoTo[h * 8 - 1] = t
    BY <1>4, <1>16, TwoToSign
  <2>3. v < -t
    BY <2>1, <2>2, <1>2
  <2> QED BY <2>2, <2>3, <1>4, <1>14, <1>15, <1>16, ShortestFacts
<1>17. n <= 1 => Shortest(s)
  BY <1>14 DEF Shortest
<1> QED BY <1>14, <1>15, <1>16, <1>17

\* The types, in the terms of the lemmas.
LEMMA TypeFacts ==
  ASSUME NEW type \in Types
  PROVE  /\ type.size \in Nat \ {0} /\ type.size <= WordOctets /\ type.signed \in BOOLEAN
         /\ \A n \in Int :
              /\ type.signed => (Holds(type, n) <=> -TwoTo[type.size * 8 - 1] <= n
                                                    /\ n <= TwoTo[type.size * 8 - 1] - 1)
              /\ ~type.signed => (Holds(type, n) <=> 0 <= n /\ n <= TwoTo[type.size * 8] - 1)
<1>1. type.size \in Nat \ {0} /\ type.size <= WordOctets /\ type.signed \in BOOLEAN
  BY WordFacts DEF Types
<1>2. PICK z \in Nat \ {0} : z = type.size
  BY <1>1
<1>3. TwoTo[8 * z] = TwoTo[z * 8] /\ TwoTo[8 * z - 1] = TwoTo[z * 8 - 1]
  BY TwoToSign
<1>4. CASE type.signed
  <2>1. Least(type) = -TwoTo[z * 8 - 1] /\ Greatest(type) = TwoTo[z * 8 - 1] - 1
    BY <1>2, <1>3, <1>4 DEF Least, Greatest
  <2> QED BY <1>1, <1>2, <1>4, <2>1 DEF Holds
<1>5. CASE ~type.signed
  <2>1. Least(type) = 0 /\ Greatest(type) = TwoTo[z * 8] - 1
    BY <1>2, <1>3, <1>5 DEF Least, Greatest
  <2> QED BY <1>1, <1>2, <1>5, <2>1 DEF Holds
<1> QED BY <1>1, <1>4, <1>5

\* What is written of an integer that a type has.
LEMMA EncodeInteger ==
  ASSUME NEW type \in Types, NEW k \in Int, Holds(type, k),
         NEW s, s = encode_integer(k, type.size)
  PROVE  s \in Seq(Octet) /\ Len(s) \in Nat /\ Len(s) >= 1 /\ Number(s) = k /\ Shortest(s)
<1>1. PICK z \in Nat \ {0} : z = type.size /\ z <= WordOctets
  BY TypeFacts
<1>2. PICK q \in Nat \ {0} : TwoTo[z * 8 - 1] = 128 * q /\ TwoTo[z * 8] = 256 * q
  BY TwoToSign
<1>3. CASE k < 0
  <2>1. -TwoTo[z * 8 - 1] <= k
    BY <1>1, <1>3, TypeFacts
  <2> QED BY <2>1, <1>1, <1>3, EncodeNegative
<1>4. CASE k >= 0
  <2>1. k \in Nat /\ (k <= 128 * q - 1 \/ k <= 256 * q - 1)
    BY <1>1, <1>2, <1>4, TypeFacts
  <2>2. k < TwoTo[z * 8]
    BY <2>1, <1>2
  <2> QED BY <2>1, <2>2, <1>1, EncodeNatural
<1> QED BY <1>3, <1>4

LEMMA RemainderIs ==
  ASSUME NEW q \in Nat \ {0}, NEW c \in Int, NEW d \in Nat, d < q, NEW a \in Int, a = q * c + d
  PROVE  a % q = d
OBVIOUS

LEMMA NegativeRemainder ==
  ASSUME NEW w \in Nat \ {0}, NEW k \in Int, -w <= k, k < 0
  PROVE  k % w = k + w
<1>1. PICK d \in Nat, c \in Int : d = k + w /\ d < w /\ c = -1
  OBVIOUS
<1>2. k = w * c + d
  BY <1>1
<1>3. k % w = d
  BY <1>1, <1>2, RemainderIs
<1> QED BY <1>1, <1>3

\* Octets that fit a word are shifted in whole.
LEMMA DecodedOctets ==
  ASSUME NEW s \in Seq(Octet), NEW v, v = Magnitude(s), v < TwoTo[WordBits]
  PROVE  decode_from_octets(s) = v
<1>1. PICK n \in Nat : Len(s) = n
  BY OctetStrings
<1>2. /\ v \in Nat /\ v < TwoTo[n * 8]
      /\ \A i \in 1 .. n : s[i] = (v \div TwoTo[(n - i) * 8]) % 256
  BY <1>1, MagnitudeDigits
<1>3. PICK b \in Nat \ {0} : b = 8 /\ TwoTo[b] = 256
  BY TwoToValues
<1>4. /\ v < TwoTo[n * b]
      /\ \A i \in 1 .. n : s[i] = (v \div TwoTo[(n - i) * b]) % TwoTo[b]
  BY <1>2, <1>3
<1>5. ShiftedIn(s, TwoTo[b]) = v
  BY <1>1, <1>2, <1>4, DigitsTogether
<1> QED BY <1>3, <1>5 DEF decode_from_octets

\* What is read as a word is the number, or the word that stands for it.
LEMMA DecodeNonnegative ==
  ASSUME NEW s \in Seq(Octet), Len(s) >= 1, s[1] < 128, Magnitude(s) < TwoTo[WordBits], NEW size
  PROVE  decode_integer(s, size) = Magnitude(s)
<1>1. Len(s) \in Nat /\ Magnitude(s) \in Nat
  BY OctetStrings, MagnitudeDigits
<1>2. decode_from_octets(s) = Magnitude(s)
  BY DecodedOctets
<1>3. ~(s[1] >= 128)
  <2>1. 1 \in 1 .. Len(s)
    BY <1>1
  <2> QED BY <2>1, OctetStrings
<1> QED BY <1>2, <1>3, Zenon DEF decode_integer

LEMMA DecodeNegative ==
  ASSUME NEW s \in Seq(Octet), NEW n \in Nat \ {0}, Len(s) = n, s[1] >= 128,
         NEW size \in Nat \ {0}, n <= size, size <= WordOctets,
         NEW k, k = Number(s)
  PROVE  decode_integer(s, size) = k + TwoTo[WordBits]
<1>1. PICK v \in Nat : v = Magnitude(s)
  BY NumberFacts
<1>2. PICK p \in Nat \ {0} : TwoTo[n * 8 - 1] = 128 * p /\ TwoTo[n * 8] = 256 * p
  BY TwoToSign
<1>3. k = v - 256 * p /\ 128 * p <= v /\ v < 256 * p
  BY <1>1, <1>2, NumberFacts
<1>4. PICK w \in Nat \ {0}, q \in Nat :
         TwoTo[WordBits] = w /\ TwoTo[size * 8] = q /\ 256 * p <= q /\ q <= w
  <2>1. PICK a \in Nat, b \in Nat, c \in Nat :
           n * 8 = a /\ size * 8 = b /\ WordBits = c /\ a <= b /\ b <= c
    BY WordFacts
  <2>2. TwoTo[a] <= TwoTo[b] /\ TwoTo[b] <= TwoTo[c]
    BY <2>1, TwoToGrows
  <2>3. TwoTo[c] \in Nat \ {0} /\ TwoTo[b] \in Nat
    BY TwoToFacts
  <2> QED BY <2>1, <2>2, <2>3, <1>2, SMTT(20)
<1>5. decode_from_octets(s) = v
  <2>1. v < TwoTo[WordBits]
    BY <1>3, <1>4
  <2> QED BY <2>1, <1>1, DecodedOctets
<1>6. BlockOf(v, size, 8) + 1 = n
  <2>1. v < TwoTo[size * 8] /\ v < TwoTo[n * 8] /\ TwoTo[n * 8 - 1] <= v
    BY <1>2, <1>3, <1>4
  <2>2. BlockOf(v, size, 8) = n - 1
    BY <2>1, WidthIs
  <2> QED BY <2>2
<1>7. Complemented(v, n) = 256 * p - 1 - v
  BY <1>2, <1>3, ComplementedIs
<1>8. decode_integer(s, size) = Word(-Complemented(v, n) - 1)
  BY <1>5, <1>6, Zenon DEF decode_integer, BlockOf
<1>9. -Complemented(v, n) - 1 = k
  BY <1>3, <1>7
<1>10. k % w = k + w
  <2>1. k \in Int /\ -w <= k /\ k < 0
    BY <1>3, <1>4
  <2> QED BY <2>1, NegativeRemainder
<1> QED BY <1>4, <1>8, <1>9, <1>10 DEF Word

\* A word that stands for a number a variable can have gives it that number.
LEMMA AssignedIs ==
  ASSUME NEW type \in Types, NEW k \in Int, Holds(type, k), NEW word,
         (k >= 0 /\ word = k) \/ (k < 0 /\ word = k + TwoTo[WordBits])
  PROVE  Assigned(type, word) = k
<1>1. PICK z \in Nat \ {0} : z = type.size /\ z <= WordOctets
  BY TypeFacts
<1>2. PICK h \in Nat \ {0} :
         TwoTo[z * 8 - 1] = h /\ TwoTo[z * 8] = 2 * h /\ TwoTo[8 * z] = 2 * h /\ TwoTo[8 * z - 1] = h
  <2>1. PICK p \in Nat \ {0} : /\ TwoTo[z * 8 - 1] = 128 * p /\ TwoTo[z * 8] = 256 * p
                               /\ TwoTo[8 * z] = TwoTo[z * 8]
                               /\ TwoTo[8 * z - 1] = TwoTo[z * 8 - 1]
    BY TwoToSign, ZenonT(30)
  <2>2. 128 * p \in Nat \ {0} /\ 256 * p = 2 * (128 * p)
    OBVIOUS
  <2> QED BY <2>1, <2>2
<1>3. PICK q \in Nat \ {0} : q = 2 * h
  BY <1>2
<1>4. Greatest(type) = IF type.signed THEN h - 1 ELSE q - 1
  BY <1>1, <1>2, <1>3 DEF Greatest
<1>5. Assigned(type, word) =
        IF type.signed /\ (word % q) > Greatest(type) THEN (word % q) - q ELSE word % q
  BY <1>1, <1>2, <1>3 DEF Assigned
<1>6. CASE k >= 0
  <2>1. word = k /\ k \in Nat /\ (type.signed => k < h) /\ k < q
    <3>1. type.signed => k <= h - 1
      BY <1>1, <1>2, TypeFacts
    <3>2. ~type.signed => k <= q - 1
      BY <1>1, <1>2, <1>3, TypeFacts
    <3>3. type.signed \in BOOLEAN
      BY TypeFacts
    <3> QED BY <3>1, <3>2, <3>3, <1>3, <1>6
  <2>2. word % q = k
    BY <2>1
  <2> QED BY <2>1, <2>2, <1>3, <1>4, <1>5
<1>7. CASE k < 0
  <2>1. type.signed /\ -h <= k /\ word = k + TwoTo[WordBits]
    <3>1. type.signed => -h <= k
      BY <1>1, <1>2, TypeFacts
    <3>2. ~type.signed => 0 <= k
      BY <1>1, TypeFacts
    <3> QED BY <3>1, <3>2, <1>7
  <2>2. PICK r \in Nat : TwoTo[WordBits] = q * r
    <3>1. PICK a \in Nat, c \in Nat : a = z * 8 /\ WordBits = a + c
      <4>1. z * 8 \in Nat /\ WordBits - z * 8 \in Nat /\ WordBits = z * 8 + (WordBits - z * 8)
        BY <1>1, WordFacts
      <4> QED BY <4>1
    <3>2. TwoTo[a + c] = TwoTo[a] * TwoTo[c] /\ TwoTo[c] \in Nat
      BY TwoToSum, TwoToFacts
    <3> QED BY <3>1, <3>2, <1>2, <1>3
  <2>3. PICK d \in Nat : d = k + q /\ d < q /\ d >= h
    BY <2>1, <1>3, <1>7
  <2>4. word % q = d
    <3>1. PICK c \in Int : c = r - 1
      OBVIOUS
    <3>2. word \in Int /\ word = q * c + d
      <4>1. q * r = q * c + q /\ q * c \in Int /\ q * r \in Int
        BY <3>1
      <4> QED BY <4>1, <2>1, <2>2, <2>3
    <3>3. d < q
      BY <2>3
    <3>4. PICK a \in Int : a = q * c + d
      BY <3>2
    <3>5. a % q = d
      BY <3>3, <3>4, RemainderIs
    <3> QED BY <3>2, <3>4, <3>5
  <2> QED BY <2>1, <2>3, <2>4, <1>3, <1>4, <1>5
<1> QED BY <1>6, <1>7

\* The octets a type has room for, and for an unsigned type a zero in front.
LEMMA ReadExactly ==
  ASSUME NEW type \in Types, NEW s \in Seq(Octet), NEW n \in Nat, Len(s) = n,
         Fits(n, type), type.signed \/ s[1] < 128,
         type.signed \/ n <= type.size \/ s[1] = 0
  PROVE  Assigned(type, decode_integer(s, type.size)) = Number(s)
<1>1. PICK z \in Nat \ {0} : z = type.size /\ z <= WordOctets
  BY TypeFacts
<1>2. n >= 1 /\ n <= z + 1 /\ (type.signed => n <= z)
  <2>1. type.signed \in BOOLEAN
    BY TypeFacts
  <2> QED BY <2>1, <1>1 DEF Fits
<1>3. PICK k \in Int : k = Number(s)
  BY <1>2, NumberFacts
<1>4. PICK v \in Nat : v = Magnitude(s)
  BY <1>2, NumberFacts
<1>5. PICK p \in Nat \ {0} : TwoTo[n * 8 - 1] = 128 * p /\ TwoTo[n * 8] = 256 * p
                             /\ TwoTo[(n - 1) * 8] = p
  BY <1>2, TwoToSign
<1>6. /\ -(128 * p) <= k /\ k < 128 * p /\ s[1] \in Nat
      /\ s[1] >= 128 => k < 0
      /\ s[1] < 128 => k = v /\ v < 128 * p
      /\ v < 256 * p
  BY <1>2, <1>3, <1>4, <1>5, NumberFacts
<1>7. PICK q \in Nat \ {0} : TwoTo[z * 8 - 1] = 128 * q /\ TwoTo[z * 8] = 256 * q
  BY TwoToSign, ZenonT(30)
<1>w. PICK w \in Nat : TwoTo[WordBits] = w /\ 256 * q <= w
  <2>1. PICK a \in Nat, b \in Nat : z * 8 = a /\ WordBits = b /\ a <= b
    BY <1>1, WordFacts
  <2>2. TwoTo[a] <= TwoTo[b] /\ TwoTo[b] \in Nat
    BY <2>1, TwoToGrows, TwoToFacts
  <2> QED BY <2>1, <2>2, <1>7
<1>8. n <= z => p <= q
  <2> SUFFICES ASSUME n <= z
               PROVE  p <= q
    OBVIOUS
  <2>1. PICK a \in Nat, b \in Nat : n * 8 = a /\ z * 8 = b /\ a <= b
    BY <1>2
  <2>2. TwoTo[a] <= TwoTo[b]
    BY <2>1, TwoToGrows
  <2> QED BY <2>1, <2>2, <1>5, <1>7, SMTT(20)
<1>9. n = z + 1 /\ s[1] = 0 => v < 256 * q
  <2> SUFFICES ASSUME n = z + 1, s[1] = 0
               PROVE  v < 256 * q
    OBVIOUS
  <2>1. n - 1 = z /\ p = 256 * q
    BY <1>5, <1>7
  <2>2. v \div p = 0
    BY <1>2, <1>4, <1>5, FirstOctets, SMTT(20)
  <2>3. v < p
    BY <2>2, QuotientBetween
  <2> QED BY <2>1, <2>3
<1>10. Holds(type, k) /\ (s[1] < 128 => v < 256 * q)
  <2>1. CASE type.signed
    <3>1. -(128 * q) <= k /\ k <= 128 * q - 1 /\ v < 256 * q
      BY <2>1, <1>2, <1>6, <1>8
    <3>2. Holds(type, k)
      BY <3>1, <2>1, <1>1, <1>7, TypeFacts, SMTT(20)
    <3> QED BY <3>1, <3>2
  <2>2. CASE ~type.signed
    <3>1. s[1] < 128 /\ (n <= z \/ s[1] = 0)
      BY <2>2, <1>1
    <3>2. 0 <= k /\ k <= 256 * q - 1 /\ v < 256 * q
      BY <3>1, <1>2, <1>6, <1>8, <1>9
    <3>3. Holds(type, k)
      BY <3>2, <2>2, <1>1, <1>7, TypeFacts
    <3> QED BY <3>2, <3>3
  <2> QED BY <2>1, <2>2
<1>11. CASE s[1] < 128
  <2>1. Magnitude(s) < TwoTo[WordBits]
    BY <1>4, <1>w, <1>10, <1>11
  <2>2. decode_integer(s, type.size) = k
    BY <2>1, <1>2, <1>4, <1>6, <1>11, DecodeNonnegative
  <2>3. k >= 0
    BY <1>6, <1>11
  <2> QED BY <2>2, <2>3, <1>3, <1>10, AssignedIs
<1>12. CASE s[1] >= 128
  <2>1. n <= z
    BY <1>1, <1>2, <1>6, <1>12
  <2>2. decode_integer(s, z) = k + TwoTo[WordBits]
    BY <2>1, <1>1, <1>2, <1>3, <1>12, DecodeNegative
  <2>3. k < 0
    BY <1>6, <1>12
  <2> QED BY <2>2, <2>3, <1>1, <1>3, <1>10, AssignedIs
<1> QED BY <1>6, <1>11, <1>12

\* A number in the fewest octets fits every type that has it.
LEMMA HeldIsRead ==
  ASSUME NEW type \in Types, NEW s \in Seq(Octet), Len(s) >= 1, Shortest(s),
         Holds(type, Number(s))
  PROVE  IntegerOf(type, s) = {Number(s)}
<1>1. PICK z \in Nat \ {0} : z = type.size /\ z <= WordOctets
  BY TypeFacts
<1>2. PICK n \in Nat : n = Len(s) /\ n >= 1
  BY OctetStrings
<1>3. PICK k \in Int : k = Number(s)
  BY <1>2, NumberFacts
<1>4. PICK v \in Nat : v = Magnitude(s)
  BY <1>2, NumberFacts
<1>5. s[1] \in Nat /\ (s[1] >= 128 => k < 0) /\ (s[1] < 128 => k = v)
  BY <1>2, <1>3, <1>4, NumberFacts
<1>6. PICK q \in Nat \ {0} : TwoTo[z * 8 - 1] = 128 * q /\ TwoTo[z * 8] = 256 * q
  BY TwoToSign
<1>7. n > 1 => k >= TwoTo[(n - 1) * 8 - 1] \/ k < -TwoTo[(n - 1) * 8 - 1]
  BY <1>2, <1>3, ShortestFacts
<1>8. CASE type.signed
  <2>1. -(128 * q) <= k /\ k <= 128 * q - 1
    BY <1>1, <1>3, <1>6, <1>8, TypeFacts
  <2>2. n <= z
    <3> SUFFICES ASSUME n > z
                 PROVE  FALSE
      OBVIOUS
    <3>1. PICK a \in Nat, b \in Nat : z * 8 - 1 = a /\ (n - 1) * 8 - 1 = b /\ a <= b
      <4>1. z * 8 - 1 \in Nat /\ (n - 1) * 8 - 1 \in Nat /\ z * 8 - 1 <= (n - 1) * 8 - 1
        OBVIOUS
      <4> QED BY <4>1
    <3>2. TwoTo[a] <= TwoTo[b] /\ TwoTo[b] \in Nat
      BY <3>1, TwoToGrows, TwoToFacts
    <3> QED BY <3>1, <3>2, <2>1, <1>6, <1>7
  <2>3. Fits(n, type)
    BY <2>2, <1>1, <1>2, <1>8 DEF Fits
  <2>4. Assigned(type, decode_integer(s, type.size)) = Number(s)
    BY <2>3, <1>2, <1>8, ReadExactly
  <2> QED BY <2>3, <2>4, <1>2, <1>8, Zenon DEF IntegerOf
<1>9. CASE ~type.signed
  <2>1. 0 <= k /\ k <= 256 * q - 1
    BY <1>1, <1>3, <1>6, <1>9, TypeFacts
  <2>2. s[1] < 128 /\ k = v
    BY <2>1, <1>5
  <2>3. n <= z + 1
    <3> SUFFICES ASSUME n > z + 1
                 PROVE  FALSE
      OBVIOUS
    <3>1. PICK a \in Nat, b \in Nat : z * 8 = a /\ (n - 1) * 8 - 1 = b /\ a <= b
      <4>1. z * 8 \in Nat /\ (n - 1) * 8 - 1 \in Nat /\ z * 8 <= (n - 1) * 8 - 1
        OBVIOUS
      <4> QED BY <4>1
    <3>2. TwoTo[a] <= TwoTo[b] /\ TwoTo[b] \in Nat
      BY <3>1, TwoToGrows, TwoToFacts
    <3> QED BY <3>1, <3>2, <2>1, <1>6, <1>7
  <2>4. n <= z \/ s[1] = 0
    <3> SUFFICES ASSUME n = z + 1
                 PROVE  s[1] = 0
      BY <2>3
    <3>1. n - 1 = z
      OBVIOUS
    <3>2. s[1] = v \div (256 * q)
      BY <3>1, <1>2, <1>4, <1>6, FirstOctets
    <3>3. v < 256 * q
      BY <2>1, <2>2
    <3>4. PICK r \in Nat \ {0} : r = 256 * q
      OBVIOUS
    <3>5. v \div r = 0
      BY <3>3, <3>4
    <3> QED BY <3>2, <3>4, <3>5
  <2>5. Fits(n, type)
    BY <2>3, <1>1, <1>2, <1>9 DEF Fits
  <2>6. Assigned(type, decode_integer(s, type.size)) = Number(s)
    BY <2>2, <2>4, <2>5, <1>1, <1>2, ReadExactly
  <2> QED BY <2>2, <2>5, <2>6, <1>2, Zenon DEF IntegerOf
<1>10. type.signed \in BOOLEAN
  BY TypeFacts
<1> QED BY <1>8, <1>9, <1>10

-----------------------------------------------------------------------------
(***************************************************************************)
(* Integers on their way.                                                  *)
(***************************************************************************)

IsInteger == value.kind \in {"integer", "any"}

\* What is written of an integer, and what can have become of it.
IntegersSound ==
  /\ IsInteger =>
       /\ contents \in Seq(Octet)
       /\ result.outcome \in {"written", "read", "thrown", "read any", "refused"}
       /\ result.outcome = "read" =>
            result.as \in Types /\ result.value \in IntegerOf(result.as, contents)
       /\ result.outcome = "thrown" =>
            result.as \in Types /\ IntegerOf(result.as, contents) = {}
       /\ result.outcome = "read any" => result.octets = contents
       /\ result.outcome = "refused" => contents = <<>>
  /\ value.kind = "integer" =>
       /\ value.number \in Int
       /\ Len(contents) \in Nat /\ Len(contents) >= 1
       /\ Number(contents) = value.number
       /\ Shortest(contents)

LEMMA IntegersInit == Init => IntegersSound
  BY DEF Init, IntegersSound, IsInteger

LEMMA IntegerWritten ==
  ASSUME NEW type \in Types, NEW n \in Values, WriteInteger(type, n)
  PROVE  IntegersSound'
<1>1. n \in Int
  BY DerValuesAssumption DEF DerValuesAssumption
<1>2. PICK s : s = encode_integer(n, type.size)
  OBVIOUS
<1>3. /\ value' = [kind |-> "integer", number |-> n]
      /\ result' = [outcome |-> "written"] /\ contents' = s
  BY <1>2 DEF WriteInteger, Encode
<1>4. s \in Seq(Octet) /\ Len(s) \in Nat /\ Len(s) >= 1 /\ Number(s) = n /\ Shortest(s)
  BY <1>1, <1>2, EncodeInteger DEF WriteInteger
<1>5. value'.kind = "integer" /\ value'.number = n /\ result'.outcome = "written"
  BY <1>3
<1>6. Number(contents') = n /\ Shortest(contents')
  BY <1>3, <1>4, Zenon
<1> QED BY <1>1, <1>3, <1>4, <1>5, <1>6 DEF IntegersSound, IsInteger

LEMMA AnyWritten ==
  ASSUME NEW octets \in Foreign, WriteAny(octets)
  PROVE  IntegersSound'
<1>1. octets \in Seq(Octet)
  BY DerValuesAssumption DEF DerValuesAssumption
<1>2. value' = [kind |-> "any"] /\ result' = [outcome |-> "written"] /\ contents' = octets
  BY DEF WriteAny, Encode
<1> QED BY <1>1, <1>2 DEF IntegersSound, IsInteger

LEMMA IntegerDecoded ==
  ASSUME IntegersSound, ReadInteger
  PROVE  IntegersSound'
<1>1. IsInteger /\ value' = value /\ contents' = contents
  BY DEF ReadInteger, IsInteger
<1>2. PICK type \in Types :
        \/ IntegerOf(type, contents) = {} /\ result' = [outcome |-> "thrown", as |-> type]
        \/ \E n \in IntegerOf(type, contents) :
             result' = [outcome |-> "read", as |-> type, value |-> n]
  BY DEF ReadInteger
<1>3. \/ /\ IntegerOf(type, contents) = {}
         /\ result'.outcome = "thrown" /\ result'.as = type
      \/ /\ result'.outcome = "read" /\ result'.as = type
         /\ result'.value \in IntegerOf(type, contents)
  BY <1>2
<1>4. IsInteger' /\ contents' \in Seq(Octet)
  BY <1>1 DEF IntegersSound, IsInteger
<1>5. /\ result'.outcome = "read" =>
           result'.as \in Types /\ result'.value \in IntegerOf(result'.as, contents')
      /\ result'.outcome = "thrown" =>
           result'.as \in Types /\ IntegerOf(result'.as, contents') = {}
      /\ result'.outcome \in {"read", "thrown"}
  BY <1>1, <1>3
<1>6. value'.kind = "integer" =>
        /\ value'.number \in Int
        /\ Len(contents') \in Nat /\ Len(contents') >= 1
        /\ Number(contents') = value'.number
        /\ Shortest(contents')
  BY <1>1, Zenon DEF IntegersSound
<1> QED BY <1>4, <1>5, <1>6 DEF IntegersSound

LEMMA AnyDecoded ==
  ASSUME IntegersSound, ReadAny
  PROVE  IntegersSound'
<1>1. IsInteger /\ value' = value /\ contents' = contents
  BY DEF ReadAny, IsInteger
<1>2. \/ result'.outcome = "refused" /\ contents = <<>>
      \/ result'.outcome = "read any" /\ result'.octets = contents
  BY DEF ReadAny
<1>3. IsInteger' /\ contents' \in Seq(Octet)
  BY <1>1 DEF IntegersSound, IsInteger
<1>4. value'.kind = "integer" =>
        /\ value'.number \in Int
        /\ Len(contents') \in Nat /\ Len(contents') >= 1
        /\ Number(contents') = value'.number
        /\ Shortest(contents')
  BY <1>1, Zenon DEF IntegersSound
<1> QED BY <1>1, <1>2, <1>3, <1>4 DEF IntegersSound

LEMMA IntegersStep == IntegersSound /\ [Next]_vars => IntegersSound'
<1> SUFFICES ASSUME IntegersSound, [Next]_vars
             PROVE  IntegersSound'
  OBVIOUS
<1>1. ASSUME NEW type \in Types, NEW n \in Values, WriteInteger(type, n)
      PROVE  IntegersSound'
  BY <1>1, IntegerWritten
<1>2. ASSUME NEW r \in Normals \cup Specials, WriteReal(r)
      PROVE  IntegersSound'
  <2>1. value' = [kind |-> "real", real |-> r]
    BY <1>2 DEF WriteReal, Encode
  <2> QED BY <2>1 DEF IntegersSound, IsInteger
<1>3. ASSUME NEW t \in Times, WriteTime(t)
      PROVE  IntegersSound'
  <2>1. value' = [kind |-> "time", time |-> t]
    BY <1>3 DEF WriteTime, Encode
  <2> QED BY <2>1 DEF IntegersSound, IsInteger
<1>4. ASSUME NEW octets \in Foreign, WriteAny(octets)
      PROVE  IntegersSound'
  BY <1>4, AnyWritten
<1>5. CASE ReadInteger
  BY <1>5, IntegerDecoded
<1>6. CASE ReadAny
  BY <1>6, AnyDecoded
<1>7. CASE ReadReal
  BY <1>7 DEF ReadReal, IntegersSound, IsInteger
<1>8. CASE ReadTime
  BY <1>8 DEF ReadTime, IntegersSound, IsInteger
<1>9. CASE UNCHANGED vars
  BY <1>9, Zenon DEF vars, IntegersSound, IsInteger
<1> QED BY <1>1, <1>2, <1>3, <1>4, <1>5, <1>6, <1>7, <1>8, <1>9, Zenon
        DEF Next, Encoding, Done

LEMMA IntegersHold == Spec => []IntegersSound
<1> QED BY IntegersInit, IntegersStep, PTL DEF Spec

LEMMA SoundIsShortest == IntegersSound => WrittenShortest
<1> SUFFICES ASSUME IntegersSound, value.kind = "integer"
             PROVE  /\ contents # <<>>
                    /\ \A i \in DOMAIN contents : contents[i] \in Octet
                    /\ Number(contents) = value.number
                    /\ Len(contents) > 1 => ~(contents[1] = 0 /\ contents[2] < 128)
                                            /\ ~(contents[1] = 255 /\ contents[2] >= 128)
  BY DEF WrittenShortest
<1>1. contents \in Seq(Octet) /\ Len(contents) >= 1 /\ Number(contents) = value.number
      /\ Shortest(contents)
  BY DEF IntegersSound, IsInteger
<1>2. \A i \in DOMAIN contents : contents[i] \in Octet
  BY <1>1, OctetStrings
<1>3. contents # <<>>
  BY <1>1
<1> QED BY <1>1, <1>2, <1>3 DEF Shortest

LEMMA SoundIsRead == IntegersSound => ReadByEveryType
<1> SUFFICES ASSUME IntegersSound, value.kind = "integer"
             PROVE  /\ result.outcome \in {"read", "thrown"} /\ Holds(result.as, value.number)
                         => result.outcome = "read" /\ result.value = value.number
                    /\ result.outcome = "read any" => Number(result.octets) = value.number
                    /\ result.outcome # "refused"
  BY DEF ReadByEveryType
<1>1. contents \in Seq(Octet) /\ Len(contents) >= 1 /\ Number(contents) = value.number
      /\ Shortest(contents)
  BY DEF IntegersSound, IsInteger
<1>2. ASSUME result.outcome \in {"read", "thrown"}, Holds(result.as, value.number)
      PROVE  result.outcome = "read" /\ result.value = value.number
  <2>1. result.as \in Types
    BY <1>2 DEF IntegersSound, IsInteger
  <2>2. IntegerOf(result.as, contents) = {value.number}
    BY <2>1, <1>1, <1>2, HeldIsRead
  <2>3. /\ result.outcome = "read" => result.value \in IntegerOf(result.as, contents)
        /\ result.outcome = "thrown" => IntegerOf(result.as, contents) = {}
    BY DEF IntegersSound, IsInteger
  <2> QED BY <2>2, <2>3, <1>2
<1>3. result.outcome = "read any" => Number(result.octets) = value.number
  <2>1. result.outcome = "read any" => result.octets = contents
    BY DEF IntegersSound, IsInteger
  <2> QED BY <2>1, <1>1, Zenon
<1>4. result.outcome # "refused"
  <2>1. result.outcome = "refused" => contents = <<>>
    BY DEF IntegersSound, IsInteger
  <2> QED BY <2>1, <1>1
<1> QED BY <1>2, <1>3, <1>4

LEMMA SoundIsExact ==
  ASSUME IntegersSound, IntegerRead,
         result.as.signed \/ (Len(contents) > result.as.size => contents[1] = 0)
  PROVE  result.value = Number(contents)
<1>1. PICK type \in Types : type = result.as /\ result.value \in IntegerOf(type, contents)
  BY DEF IntegersSound, IsInteger, IntegerRead
<1>2. contents \in Seq(Octet)
  BY DEF IntegersSound, IsInteger, IntegerRead
<1>3. PICK n \in Nat : n = Len(contents)
  BY <1>2, OctetStrings
<1>4. /\ Fits(Len(contents), type) /\ (type.signed \/ contents[1] < 128)
      /\ result.value = Assigned(type, decode_integer(contents, type.size))
  BY <1>1, Zenon DEF IntegerOf
<1>5. type.size \in Nat
  BY TypeFacts
<1>6. type.signed \/ n <= type.size \/ contents[1] = 0
  BY <1>1, <1>3, <1>5
<1>7. Assigned(type, decode_integer(contents, type.size)) = Number(contents)
  BY <1>2, <1>3, <1>4, <1>6, ReadExactly
<1> QED BY <1>4, <1>7

\* An integer is written as its number in the fewest octets, whatever type it
\* has (asn_der/util.hpp:32-41).
THEOREM IntegersAreShortest == Spec => []WrittenShortest
  BY IntegersHold, SoundIsShortest, PTL

\* It is read back by every type that has it and by integers of any length
\* (deserialiser.hpp:35-44).
THEOREM IntegersAreReadBack == Spec => []ReadByEveryType
  BY IntegersHold, SoundIsRead, PTL

\* Signed integers are read exactly or not at all, whoever has written them
\* (asn_der_decoder.hpp:263-282).
THEOREM SignedAreExact == Spec => []SignedExactOrRefused
<1>1. IntegersSound => SignedExactOrRefused
  BY SoundIsExact DEF SignedExactOrRefused
<1> QED BY <1>1, IntegersHold, PTL

\* So are unsigned ones behind a zero, or with no octet too many.
THEOREM UnsignedAreExact == Spec => []UnsignedExactOrRefused
<1>1. IntegersSound => UnsignedExactOrRefused
  BY SoundIsExact DEF UnsignedExactOrRefused
<1> QED BY <1>1, IntegersHold, PTL

-----------------------------------------------------------------------------
(***************************************************************************)
(* Points in time on their way.                                            *)
(***************************************************************************)

\* Three digits are scanned as what they were printed from.
LEMMA FractionScanned ==
  ASSUME NEW ms \in 0 .. 999, NEW f, f = Fraction(ms)
  PROVE  Scanned(f) = ms /\ Len(f) < 4
<1>1. CASE ms = 0
  <2>1. f = <<>>
    BY <1>1 DEF Fraction
  <2> QED BY <2>1, <1>1 DEF Scanned
<1>2. CASE ms > 0
  <2> DEFINE unit == <<1000, 100, 10, 1>>
             d == [i \in 1 .. 3 |-> (ms \div unit[4 - 3 + i]) % 10]
  <2>1. f = SubSeq(d, 1, 3)
    BY <1>2 DEF Fraction, Unsigned, Digits
  <2>2. unit[4 - 3 + 1] = 100 /\ unit[4 - 3 + 2] = 10 /\ unit[4 - 3 + 3] = 1
    OBVIOUS
  <2> HIDE DEF unit
  <2>3. d[1] = (ms \div 100) % 10 /\ d[2] = (ms \div 10) % 10 /\ d[3] = (ms \div 1) % 10
    BY <2>2
  <2>4. d[1] = ms \div 100 /\ d[2] = (ms \div 10) % 10 /\ d[3] = ms % 10
    BY <2>3
  <2>5. d \in Seq(Int) /\ Len(d) = 3
    <3>1. d \in [1 .. 3 -> Int]
      <4>1. \A i \in 1 .. 3 : i = 1 \/ i = 2 \/ i = 3
        OBVIOUS
      <4>2. d[1] \in Int /\ d[2] \in Int /\ d[3] \in Int
        BY <2>4
      <4>3. \A i \in 1 .. 3 : d[i] \in Int
        BY <4>1, <4>2
      <4> HIDE DEF d
      <4>4. DOMAIN d = 1 .. 3 /\ d = [i \in 1 .. 3 |-> d[i]]
        BY DEF d
      <4> QED BY <4>3, <4>4
    <3> HIDE DEF d
    <3>2. PICK n \in Nat : n = 3
      OBVIOUS
    <3>3. d \in [1 .. n -> Int]
      BY <3>1, <3>2
    <3>4. d \in Seq(Int) /\ Len(d) = n
      BY <3>3
    <3> QED BY <3>2, <3>4
  <2> HIDE DEF d
  <2>6. Len(f) = 3 /\ f[1] = d[1] /\ f[2] = d[2] /\ f[3] = d[3]
    BY <2>1, <2>5
  <2>7. Scanned(f) = f[1] * 100 + f[2] * 10 + f[3]
    BY <2>6 DEF Scanned
  <2>8. (ms \div 100) * 100 + ((ms \div 10) % 10) * 10 + (ms % 10) = ms
    OBVIOUS
  <2> QED BY <2>4, <2>6, <2>7, <2>8
<1> QED BY <1>1, <1>2

LEMMA TimeFields ==
  ASSUME NEW t \in Times
  PROVE  t.second \in Int /\ t.ms \in 0 .. 999 /\ t.finer \in BOOLEAN
<1>1. t.second \in Seconds /\ t.ms \in Milliseconds
  BY DEF Times
<1>2. t.finer \in BOOLEAN
  BY Zenon DEF Times
<1>3. t.second \in Int /\ t.ms \in 0 .. 999
  BY <1>1, DerTimeAssumption, ZenonT(30) DEF DerTimeAssumption
<1> QED BY <1>2, <1>3, Zenon

\* What the library does not spoil is read as it was.
LEMMA TimeRoundTrip ==
  ASSUME NEW t \in Times, Before1970(t) => t.ms = 0 /\ ~t.finer, NEW c \in encode_time(t)
  PROVE  /\ \A r \in decode_time(c) : r = [second |-> t.second, ms |-> t.ms]
         /\ decode_time(c) = {} => t.second = -1
<1>1. t.second \in Int /\ t.ms \in 0 .. 999 /\ t.finer \in BOOLEAN
  BY TimeFields
<1>2. to_time_t(t) = t.second
  BY <1>1 DEF to_time_t
<1>3. millis(t) = t.ms
  <2>1. CASE Before1970(t)
    BY <2>1, <1>1, SMTT(20) DEF millis
  <2>2. CASE ~Before1970(t)
    <3>1. millis(t) = t.ms % 1000
      BY <2>2 DEF millis
    <3> QED BY <3>1, <1>1
  <2> QED BY <2>1, <2>2
<1>4. PICK f : f = Fraction(t.ms)
  OBVIOUS
<1>5. Scanned(f) = t.ms /\ Len(f) < 4
  BY <1>1, <1>4, FractionScanned, ZenonT(30)
<1>6. c = [second |-> t.second, fraction |-> f, z |-> Len(f) < 4]
  BY <1>2, <1>3, <1>4 DEF encode_time
<1>7. c.second = t.second /\ c.fraction = f /\ c.z
  BY <1>5, <1>6
<1>8. decode_time(c) = IF t.second = -1 THEN {} ELSE {[second |-> t.second, ms |-> t.ms]}
  BY <1>5, <1>7 DEF decode_time
<1> QED BY <1>8

\* What can have become of a point in time.
TimesSound ==
  value.kind = "time" =>
    /\ value.time \in Times
    /\ result.outcome \in {"written", "read", "thrown"}
    /\ result.outcome = "written" => contents \in encode_time(value.time)
    /\ result.outcome = "read" =>
         \E c \in encode_time(value.time) : result.value \in decode_time(c)
    /\ result.outcome = "thrown" =>
         \/ encode_time(value.time) = {}
         \/ \E c \in encode_time(value.time) : decode_time(c) = {}

LEMMA TimesInit == Init => TimesSound
  BY DEF Init, TimesSound

LEMMA TimeWritten ==
  ASSUME NEW t \in Times, WriteTime(t)
  PROVE  TimesSound'
<1>1. value'.kind = "time" /\ value'.time = t
  BY DEF WriteTime, Encode
<1>2. CASE encode_time(t) = {}
  <2>1. result'.outcome = "thrown"
    BY <1>2 DEF WriteTime, Encode
  <2> QED BY <1>1, <1>2, <2>1 DEF TimesSound
<1>3. CASE encode_time(t) # {}
  <2>1. result'.outcome = "written" /\ contents' \in encode_time(t)
    BY <1>3 DEF WriteTime, Encode
  <2> QED BY <1>1, <2>1 DEF TimesSound
<1> QED BY <1>2, <1>3

LEMMA TimeDecoded ==
  ASSUME TimesSound, ReadTime
  PROVE  TimesSound'
<1>1. /\ value.kind = "time" /\ value' = value /\ contents' = contents
      /\ result.outcome = "written"
  BY DEF ReadTime
<1>2. value.time \in Times /\ contents \in encode_time(value.time)
  BY <1>1 DEF TimesSound
<1>3. CASE decode_time(contents) = {}
  <2>1. result'.outcome = "thrown"
    BY <1>3 DEF ReadTime, Decode
  <2> QED BY <1>1, <1>2, <1>3, <2>1 DEF TimesSound
<1>4. CASE decode_time(contents) # {}
  <2>1. PICK v \in decode_time(contents) : result' = [outcome |-> "read", value |-> v]
    BY <1>4 DEF ReadTime, Decode
  <2>2. result'.outcome = "read" /\ result'.value \in decode_time(contents)
    BY <2>1
  <2> QED BY <1>1, <1>2, <2>2 DEF TimesSound
<1> QED BY <1>3, <1>4

LEMMA TimesStep == TimesSound /\ [Next]_vars => TimesSound'
<1> SUFFICES ASSUME TimesSound, [Next]_vars
             PROVE  TimesSound'
  OBVIOUS
<1>1. ASSUME NEW type \in Types, NEW n \in Values, WriteInteger(type, n)
      PROVE  TimesSound'
  <2>1. value'.kind = "integer"
    BY <1>1 DEF WriteInteger, Encode
  <2> QED BY <2>1 DEF TimesSound
<1>2. ASSUME NEW r \in Normals \cup Specials, WriteReal(r)
      PROVE  TimesSound'
  <2>1. value'.kind = "real"
    BY <1>2 DEF WriteReal, Encode
  <2> QED BY <2>1 DEF TimesSound
<1>3. ASSUME NEW t \in Times, WriteTime(t)
      PROVE  TimesSound'
  BY <1>3, TimeWritten
<1>4. ASSUME NEW octets \in Foreign, WriteAny(octets)
      PROVE  TimesSound'
  <2>1. value'.kind = "any"
    BY <1>4 DEF WriteAny, Encode
  <2> QED BY <2>1 DEF TimesSound
<1>5. CASE ReadInteger
  BY <1>5 DEF ReadInteger, TimesSound
<1>6. CASE ReadAny
  BY <1>6 DEF ReadAny, TimesSound
<1>7. CASE ReadReal
  BY <1>7 DEF ReadReal, TimesSound
<1>8. CASE ReadTime
  BY <1>8, TimeDecoded
<1>9. CASE UNCHANGED vars
  BY <1>9, Zenon DEF vars, TimesSound
<1> QED BY <1>1, <1>2, <1>3, <1>4, <1>5, <1>6, <1>7, <1>8, <1>9, Zenon
        DEF Next, Encoding, Done

\* Since 1970 every point in time is read back to the millisecond, and whole
\* seconds before that are, but for the one before 1970 and those that the
\* library refuses (asn_der_encoder.hpp:53-70, asn_der_decoder.hpp:64-98).
THEOREM TimesAreReadBack == Spec => []TimeReadBack
<1>1. TimesSound => TimeReadBack
  <2> SUFFICES ASSUME TimesSound, value.kind = "time",
                      Before1970(value.time) => value.time.ms = 0 /\ ~value.time.finer
               PROVE  /\ result.outcome = "read" =>
                           result.value = [second |-> value.time.second, ms |-> value.time.ms]
                      /\ result.outcome = "thrown" =>
                           value.time.second \in Inconvertible \cup {-1}
    BY DEF TimeReadBack
  <2>1. PICK t \in Times : t = value.time /\ (Before1970(t) => t.ms = 0 /\ ~t.finer)
    BY DEF TimesSound
  <2>2. ASSUME result.outcome = "read"
        PROVE  result.value = [second |-> t.second, ms |-> t.ms]
    <3>1. PICK c \in encode_time(t) : result.value \in decode_time(c)
      BY <2>1, <2>2 DEF TimesSound
    <3> QED BY <3>1, <2>1, TimeRoundTrip
  <2>3. ASSUME result.outcome = "thrown"
        PROVE  t.second \in Inconvertible \cup {-1}
    <3>1. CASE encode_time(t) = {}
      <4>1. to_time_t(t) \in Inconvertible
        BY <3>1 DEF encode_time
      <4>2. to_time_t(t) = t.second
        <5>1. t.ms \in 0 .. 999 /\ t.finer \in BOOLEAN
          BY TimeFields
        <5> QED BY <5>1, <2>1 DEF to_time_t
      <4> QED BY <4>1, <4>2
    <3>2. CASE encode_time(t) # {}
      <4>1. PICK c \in encode_time(t) : decode_time(c) = {}
        BY <2>1, <2>3, <3>2 DEF TimesSound
      <4> QED BY <4>1, <2>1, TimeRoundTrip
    <3> QED BY <3>1, <3>2
  <2> QED BY <2>1, <2>2, <2>3
<1> QED BY <1>1, TimesInit, TimesStep, PTL DEF Spec

-----------------------------------------------------------------------------
(***************************************************************************)
(* The mantissa of a real.                                                 *)
(***************************************************************************)

LEMMA SmallPowers ==
  /\ TwoTo[0] = 1 /\ TwoTo[1] = 2 /\ TwoTo[2] = 4 /\ TwoTo[3] = 8 /\ TwoTo[4] = 16
  /\ TwoTo[5] = 32 /\ TwoTo[6] = 64 /\ TwoTo[7] = 128 /\ TwoTo[8] = 256
<1>1. TwoTo[0 + 1] = 2 * TwoTo[0] /\ TwoTo[1 + 1] = 2 * TwoTo[1]
      /\ TwoTo[2 + 1] = 2 * TwoTo[2] /\ TwoTo[3 + 1] = 2 * TwoTo[3]
      /\ TwoTo[5 + 1] = 2 * TwoTo[5] /\ TwoTo[0] = 1
  BY TwoToFacts
<1> QED BY <1>1, TwoToValues

LEMMA GreatestExists ==
  ASSUME NEW n \in Nat, NEW T, T \subseteq 1 .. n, T # {}
  PROVE  \E m \in T : \A k \in T : k <= m
<1> DEFINE Goal == \E m \in T : \A k \in T : k <= m
           S == { b \in Nat : (\A k \in T : k <= b) => Goal }
<1>1. 0 \in S
  <2> SUFFICES ASSUME \A k \in T : k <= 0
               PROVE  FALSE
    OBVIOUS
  <2>1. PICK k \in T : TRUE
    OBVIOUS
  <2>2. k \in 1 .. n /\ k <= 0
    OBVIOUS
  <2> QED BY <2>2
<1>2. ASSUME NEW b \in Nat, b \in S
      PROVE  b + 1 \in S
  <2> SUFFICES ASSUME \A k \in T : k <= b + 1
               PROVE  Goal
    OBVIOUS
  <2>1. CASE b + 1 \in T
    BY <2>1
  <2>2. CASE b + 1 \notin T
    <3>1. \A k \in T : k <= b
      BY <2>2
    <3> QED BY <3>1, <1>2
  <2> QED BY <2>1, <2>2
<1> HIDE DEF Goal
<1>3. n \in S
  <2> HIDE DEF S
  <2> QED BY <1>1, <1>2, SetInduction
<1>4. \A k \in T : k <= n
  OBVIOUS
<1>5. Goal
  BY <1>3, <1>4
<1> QED BY <1>5 DEF Goal

LEMMA SmallestExists ==
  ASSUME NEW T, T \subseteq Nat, NEW n \in T
  PROVE  \E m \in T : \A k \in T : m <= k
<1> DEFINE Goal == \E m \in T : \A k \in T : m <= k
           S == { b \in Nat : (\E k \in T : k <= b) => Goal }
<1>1. 0 \in S
  <2> SUFFICES ASSUME NEW k \in T, k <= 0
               PROVE  Goal
    OBVIOUS
  <2>1. \A j \in T : k <= j
    OBVIOUS
  <2> QED BY <2>1
<1>2. ASSUME NEW b \in Nat, b \in S
      PROVE  b + 1 \in S
  <2> SUFFICES ASSUME NEW k \in T, k <= b + 1
               PROVE  Goal
    OBVIOUS
  <2>1. CASE \E j \in T : j <= b
    BY <2>1, <1>2
  <2>2. CASE \A j \in T : ~(j <= b)
    <3>1. \A j \in T : k <= j
      BY <2>2
    <3> QED BY <3>1
  <2> QED BY <2>1, <2>2
<1> HIDE DEF Goal
<1>3. n \in S
  <2> HIDE DEF S
  <2> QED BY <1>1, <1>2, SetInduction
<1>4. \E k \in T : k <= n
  OBVIOUS
<1>5. Goal
  BY <1>3, <1>4
<1> QED BY <1>5 DEF Goal

\* What has none of the lowest bits set is divided without a rest.
LEMMA LowBits ==
  ASSUME NEW x \in Nat, NEW n \in Nat, \A j \in 0 .. n - 1 : ~IsSet(x, j)
  PROVE  (x \div TwoTo[n]) * TwoTo[n] = x
<1> DEFINE S == { k \in Nat : k <= n => (x \div TwoTo[k]) * TwoTo[k] = x }
<1>1. 0 \in S
  <2>1. x \div 1 = x
    OBVIOUS
  <2> QED BY <2>1, TwoToFacts
<1>2. ASSUME NEW k \in Nat, k \in S
      PROVE  k + 1 \in S
  <2> SUFFICES ASSUME k + 1 <= n
               PROVE  (x \div TwoTo[k + 1]) * TwoTo[k + 1] = x
    OBVIOUS
  <2>1. PICK p \in Nat \ {0} : TwoTo[k] = p /\ TwoTo[k + 1] = p * 2
    <3>1. TwoTo[k] \in Nat \ {0} /\ TwoTo[k + 1] = 2 * TwoTo[k]
      BY TwoToFacts
    <3> QED BY <3>1
  <2>2. PICK q \in Nat : x \div p = q
    BY Quotient
  <2>3. q * p = x
    <3>1. k <= n
      OBVIOUS
    <3> QED BY <3>1, <1>2, <2>1, <2>2
  <2>4. q % 2 # 1
    BY <2>1, <2>2 DEF IsSet
  <2>5. PICK d \in Nat : q \div 2 = d /\ d * 2 = q
    <3>1. q \div 2 \in Nat /\ (q \div 2) * 2 = q
      BY <2>4
    <3> QED BY <3>1
  <2>6. x \div (p * 2) = d
    <3>1. PICK b \in Nat \ {0} : b = 2
      OBVIOUS
    <3>2. x \div (p * b) = (x \div p) \div b
      BY QuotientTwice, ZenonT(30)
    <3> QED BY <3>1, <3>2, <2>2, <2>5
  <2>7. d * (p * 2) = (d * 2) * p
    OBVIOUS
  <2> QED BY <2>1, <2>3, <2>5, <2>6, <2>7
<1> HIDE DEF S
<1>3. n \in S
  BY <1>1, <1>2, SetInduction
<1> QED BY <1>3 DEF S

\* The least bit set of an octet that is not zero.
LEMMA LeastBit ==
  ASSUME NEW s, NEW x \in Nat, 0 < x, x < 256, x = s[Len(s)], NEW n, n = least_sig_bit(s)
  PROVE  /\ n \in 0 .. 7
         /\ (x \div TwoTo[n]) * TwoTo[n] = x
         /\ (x \div TwoTo[n]) % 2 = 1
<1>0. 8 \in Nat
  OBVIOUS
<1> DEFINE T == { k \in 0 .. 7 : IsSet(x, k) }
<1>1. \E k \in 0 .. 7 : IsSet(x, k)
  <2> SUFFICES ASSUME \A k \in 0 .. 8 - 1 : ~IsSet(x, k)
               PROVE  FALSE
    OBVIOUS
  <2>1. (x \div TwoTo[8]) * TwoTo[8] = x
    BY <1>0, LowBits, Zenon
  <2> QED BY <2>1, <1>0, TwoToValues
<1>2. \E m \in T : \A k \in T : m <= k
  <2>1. PICK k \in T : TRUE
    BY <1>1
  <2>2. T \subseteq Nat
    OBVIOUS
  <2> HIDE DEF T
  <2> QED BY <2>1, <2>2, SmallestExists
<1>3. \E m \in 0 .. 7 : IsSet(x, m) /\ \A k \in 0 .. m - 1 : ~IsSet(x, k)
  <2>1. PICK m \in T : \A k \in T : m <= k
    BY <1>2
  <2>2. m \in 0 .. 7 /\ IsSet(x, m)
    OBVIOUS
  <2>3. ASSUME NEW k \in 0 .. m - 1, IsSet(x, k)
        PROVE  FALSE
    <3>1. k \in 0 .. 7 /\ k < m
      BY <2>2
    <3>2. k \in T
      BY <3>1, <2>3
    <3> QED BY <3>1, <3>2, <2>1
  <2> QED BY <2>2, <2>3
<1>4. n \in 0 .. 7 /\ IsSet(x, n) /\ \A k \in 0 .. n - 1 : ~IsSet(x, k)
  BY <1>3 DEF least_sig_bit
<1>5. (x \div TwoTo[n]) * TwoTo[n] = x
  <2>1. n \in Nat
    BY <1>4
  <2> QED BY <2>1, <1>0, <1>4, LowBits, Zenon
<1> QED BY <1>4, <1>5 DEF IsSet

\* What is left of a number behind octets of zeros.
LEMMA ZeroOctets ==
  ASSUME NEW a \in Nat, NEW n \in Nat,
         \A j \in 0 .. n - 1 : (a \div TwoTo[j * 8]) % 256 = 0
  PROVE  (a \div TwoTo[n * 8]) * TwoTo[n * 8] = a
<1> DEFINE S == { j \in Nat : j <= n => (a \div TwoTo[j * 8]) * TwoTo[j * 8] = a }
<1>1. 0 \in S
  <2>1. a \div 1 = a /\ 0 * 8 = 0
    OBVIOUS
  <2> QED BY <2>1, TwoToFacts
<1>2. ASSUME NEW j \in Nat, j \in S
      PROVE  j + 1 \in S
  <2> SUFFICES ASSUME j + 1 <= n
               PROVE  (a \div TwoTo[(j + 1) * 8]) * TwoTo[(j + 1) * 8] = a
    OBVIOUS
  <2>1. PICK p \in Nat \ {0} : TwoTo[j * 8] = p
    BY TwoToOctets
  <2>2. TwoTo[(j + 1) * 8] = p * 256
    BY <2>1, TwoToOctets
  <2>3. PICK q \in Nat : a \div p = q
    BY Quotient
  <2>4. j \in 0 .. n - 1 /\ j <= n
    OBVIOUS
  <2>5. q * p = a
    BY <2>1, <2>3, <2>4, <1>2
  <2>6. q % 256 = 0
    BY <2>1, <2>3, <2>4
  <2>7. PICK d \in Nat : q \div 256 = d /\ d * 256 = q
    <3>1. q \div 256 \in Nat /\ (q \div 256) * 256 = q
      BY <2>6
    <3> QED BY <3>1
  <2>8. a \div (p * 256) = d
    BY <2>3, <2>7, QuotientOctet
  <2>9. d * (p * 256) = (d * 256) * p
    OBVIOUS
  <2> QED BY <2>2, <2>5, <2>7, <2>8, <2>9
<1> HIDE DEF S
<1>3. n \in S
  BY <1>1, <1>2, SetInduction
<1> QED BY <1>3 DEF S

LEMMA RealConstants ==
  /\ RealOctets \in Nat \ {0}
  /\ Precision \in Nat \ {0} /\ Precision <= RealOctets * 8
  /\ IntOctets \in Nat \ {0} /\ IntOctets <= WordOctets /\ IntOctets < 256
<1>1. 8 * RealOctets = RealOctets * 8
  BY DerRealAssumption DEF DerRealAssumption
<1> QED BY <1>1, DerRealAssumption, DerOctetsAssumption
        DEF DerRealAssumption, DerOctetsAssumption

\* A fraction has its first bit set.
LEMMA FractionBits ==
  ASSUME NEW fraction \in Fractions
  PROVE  /\ fraction \in Nat \ {0}
         /\ TwoTo[Precision - 1] <= fraction /\ fraction < TwoTo[Precision]
<1>1. PICK p \in Nat, q \in Nat \ {0}, w \in Nat :
        Precision = p + 1 /\ Precision - 1 = p /\ TwoTo[p] = q /\ TwoTo[p + 1] = w
  <2>1. PICK p \in Nat : Precision = p + 1 /\ Precision - 1 = p
    <3>1. Precision - 1 \in Nat /\ Precision = (Precision - 1) + 1
      BY RealConstants
    <3> QED BY <3>1
  <2>2. TwoTo[p] \in Nat \ {0} /\ TwoTo[p + 1] \in Nat
    BY TwoToFacts
  <2> QED BY <2>1, <2>2
<1>2. fraction \in q .. w - 1
  BY <1>1, DerRealAssumption DEF DerRealAssumption
<1> QED BY <1>1, <1>2

\* A fraction fills the octets of a real from the first bit on.
LEMMA AllBits ==
  ASSUME NEW fraction \in Fractions, NEW a, a = fraction * TwoTo[8 * RealOctets - Precision]
  PROVE  /\ a \in Nat
         /\ TwoTo[RealOctets * 8 - 1] <= a /\ a < TwoTo[RealOctets * 8]
<1>1. PICK f \in Nat \ {0} : f = fraction
  BY FractionBits
<1>2. PICK d \in Nat, p \in Nat : /\ 8 * RealOctets - Precision = d /\ Precision - 1 = p
                                  /\ RealOctets * 8 = (p + 1) + d
                                  /\ RealOctets * 8 - 1 = p + d
                                  /\ Precision = p + 1
  <2>1. PICK b \in Nat : RealOctets * 8 = b /\ 8 * RealOctets = b
    BY RealConstants
  <2>2. PICK c \in Nat \ {0} : Precision = c /\ c <= b
    BY <2>1, RealConstants
  <2>3. b - c \in Nat /\ c - 1 \in Nat /\ b = ((c - 1) + 1) + (b - c)
        /\ b - 1 = (c - 1) + (b - c) /\ c = (c - 1) + 1
    BY <2>2
  <2> QED BY <2>1, <2>2, <2>3
<1>3. PICK t \in Nat \ {0} : TwoTo[d] = t
  BY TwoToFacts
<1>4. PICK q \in Nat \ {0} : TwoTo[p] = q
  BY TwoToFacts
<1>5. PICK w \in Nat \ {0} : TwoTo[p + 1] = w
  BY TwoToFacts
<1>6. q <= f /\ f + 1 <= w
  BY <1>1, <1>2, <1>4, <1>5, FractionBits
<1>7. a = f * t
  BY <1>1, <1>2, <1>3
<1>8. TwoTo[p + d] = q * t /\ TwoTo[(p + 1) + d] = w * t
  <2>1. TwoTo[p + d] = TwoTo[p] * TwoTo[d]
    BY TwoToSum
  <2>2. p + 1 \in Nat
    OBVIOUS
  <2>3. TwoTo[(p + 1) + d] = TwoTo[p + 1] * TwoTo[d]
    BY <2>2, TwoToSum
  <2> QED BY <2>1, <2>3, <1>3, <1>4, <1>5
<1>9. q * t <= f * t
  BY <1>6, ProductGrows
<1>10. (f + 1) * t <= w * t
  <2>1. f + 1 \in Nat
    OBVIOUS
  <2> QED BY <2>1, <1>6, ProductGrows
<1>11. (f + 1) * t = f * t + t
  OBVIOUS
<1>12. f * t \in Nat
  OBVIOUS
<1>13. f * t < w * t
  <2>1. PICK x \in Nat, y \in Nat : x = f * t /\ y = w * t
    OBVIOUS
  <2>2. x + t <= y
    BY <2>1, <1>10, <1>11
  <2>3. x < y
    BY <2>2
  <2> QED BY <2>1, <2>3
<1> QED BY <1>2, <1>7, <1>8, <1>9, <1>12, <1>13

\* The octets of a fraction: all but the zeros at the end.
LEMMA ExportedLength ==
  ASSUME NEW a \in Nat, TwoTo[RealOctets * 8 - 1] <= a, a < TwoTo[RealOctets * 8]
  PROVE  LET octet(i) == (a \div TwoTo[8 * (RealOctets - i)]) % 256
             length == CHOOSE n \in 1 .. RealOctets :
                         octet(n) # 0 /\ \A i \in n + 1 .. RealOctets : octet(i) = 0
         IN /\ length \in 1 .. RealOctets
            /\ octet(length) # 0
            /\ \A i \in length + 1 .. RealOctets : octet(i) = 0
            /\ octet(1) >= 128
<1> DEFINE octet(i) == (a \div TwoTo[8 * (RealOctets - i)]) % 256
           length == CHOOSE n \in 1 .. RealOctets :
                       octet(n) # 0 /\ \A i \in n + 1 .. RealOctets : octet(i) = 0
           T == { n \in 1 .. RealOctets : octet(n) # 0 }
<1>1. RealOctets \in Nat \ {0}
  BY RealConstants
<1>2. octet(1) >= 128
  <2>1. 8 * (RealOctets - 1) = (RealOctets - 1) * 8
    BY <1>1
  <2>2. PICK q \in Nat \ {0} : /\ TwoTo[(RealOctets - 1) * 8] = q
                               /\ TwoTo[RealOctets * 8 - 1] = 128 * q
                               /\ TwoTo[RealOctets * 8] = 256 * q
    BY <1>1, TwoToSign
  <2>3. PICK d \in Nat : a \div q = d /\ d * q <= a /\ a < d * q + q
    BY QuotientBetween
  <2>4. d >= 128
    <3> SUFFICES ASSUME d + 1 <= 128
                 PROVE  FALSE
      BY <2>3
    <3>1. PICK c \in Nat : c = 128
      OBVIOUS
    <3>2. d + 1 \in Nat /\ d + 1 <= c
      BY <3>1
    <3>3. (d + 1) * q <= c * q
      BY <3>2, ProductGrows
    <3>4. (d + 1) * q = d * q + q
      OBVIOUS
    <3>5. PICK x \in Nat : x = d * q
      OBVIOUS
    <3> QED BY <3>1, <3>3, <3>4, <3>5, <2>2, <2>3
  <2>5. d < 256
    <3> SUFFICES ASSUME 256 <= d
                 PROVE  FALSE
      BY <2>3
    <3>1. PICK c \in Nat : c = 256
      OBVIOUS
    <3>2. c * q <= d * q
      BY <3>1, ProductGrows
    <3>3. PICK x \in Nat : x = d * q
      OBVIOUS
    <3> QED BY <3>1, <3>2, <3>3, <2>2, <2>3
  <2>6. d % 256 = d
    BY <2>5
  <2> QED BY <2>1, <2>2, <2>3, <2>4, <2>6
<1>3. \A n \in 1 .. RealOctets : octet(n) \in Nat
  <2> SUFFICES ASSUME NEW n \in 1 .. RealOctets
               PROVE  octet(n) \in Nat
    OBVIOUS
  <2>1. PICK k \in Nat : 8 * (RealOctets - n) = k
    BY <1>1
  <2>2. PICK p \in Nat \ {0} : TwoTo[k] = p
    BY TwoToFacts
  <2>3. PICK d \in Nat : a \div p = d
    BY Quotient
  <2> QED BY <2>1, <2>2, <2>3
<1> HIDE DEF octet
<1>4. \E n \in T : \A k \in T : k <= n
  <2>1. 1 \in T
    BY <1>1, <1>2, <1>3
  <2>2. T \subseteq 1 .. RealOctets /\ T # {} /\ RealOctets \in Nat
    BY <2>1, <1>1
  <2> HIDE DEF T
  <2> QED BY <2>2, GreatestExists
<1>5. \E n \in 1 .. RealOctets : octet(n) # 0 /\ \A i \in n + 1 .. RealOctets : octet(i) = 0
  <2>1. PICK n \in T : \A k \in T : k <= n
    BY <1>4
  <2>2. n \in 1 .. RealOctets /\ octet(n) # 0
    OBVIOUS
  <2>3. ASSUME NEW i \in n + 1 .. RealOctets, octet(i) # 0
        PROVE  FALSE
    <3>1. i \in 1 .. RealOctets /\ n < i
      BY <1>1, <2>2
    <3>2. i \in T
      BY <2>3, <3>1
    <3> QED BY <3>1, <3>2, <2>1, <2>2
  <2> QED BY <2>2, <2>3
<1>6. /\ length \in 1 .. RealOctets
      /\ octet(length) # 0
      /\ \A i \in length + 1 .. RealOctets : octet(i) = 0
  BY <1>5
<1> QED BY <1>2, <1>6 DEF octet

LEMMA MantissaExported ==
  ASSUME NEW fraction \in Fractions, NEW s, s = export_mantissa(fraction)
  PROVE  /\ s \in Seq(Octet)
         /\ Len(s) \in 1 .. RealOctets
         /\ s[1] >= 128 /\ s[Len(s)] # 0
         /\ Magnitude(s) * TwoTo[(RealOctets - Len(s)) * 8]
              = fraction * TwoTo[8 * RealOctets - Precision]
<1> DEFINE all == fraction * TwoTo[8 * RealOctets - Precision]
           octet(i) == (all \div TwoTo[8 * (RealOctets - i)]) % 256
           length == CHOOSE n \in 1 .. RealOctets :
                       octet(n) # 0 /\ \A i \in n + 1 .. RealOctets : octet(i) = 0
<1>1. RealOctets \in Nat \ {0}
  BY RealConstants
<1>2. all \in Nat /\ TwoTo[RealOctets * 8 - 1] <= all /\ all < TwoTo[RealOctets * 8]
  BY AllBits
<1>3. s = [i \in 1 .. length |-> octet(i)]
  BY DEF export_mantissa
<1> HIDE DEF all
<1>4. /\ length \in 1 .. RealOctets
      /\ octet(length) # 0
      /\ \A i \in length + 1 .. RealOctets : octet(i) = 0
      /\ octet(1) >= 128
  BY <1>2, ExportedLength
<1> HIDE DEF length
<1>5. PICK n \in Nat \ {0}, k \in Nat : n = length /\ RealOctets = n + k /\ RealOctets - n = k
  <2>1. length \in Nat \ {0} /\ RealOctets - length \in Nat
        /\ RealOctets = length + (RealOctets - length)
    BY <1>1, <1>4
  <2> QED BY <2>1
<1>6. PICK p \in Nat \ {0} : TwoTo[k * 8] = p
  BY TwoToOctets
<1>7. PICK m \in Nat : m = all \div p
  BY <1>2, Quotient
<1>8. m * p = all
  <2>1. ASSUME NEW j \in 0 .. k - 1
        PROVE  (all \div TwoTo[j * 8]) % 256 = 0
    <3>1. RealOctets - j \in length + 1 .. RealOctets
      BY <1>5
    <3>2. 8 * (RealOctets - (RealOctets - j)) = j * 8
      BY <1>1
    <3>3. octet(RealOctets - j) = 0
      BY <3>1, <1>4
    <3> QED BY <3>2, <3>3
  <2>2. (all \div TwoTo[k * 8]) * TwoTo[k * 8] = all
    BY <2>1, <1>2, ZeroOctets
  <2> QED BY <2>2, <1>6, <1>7
<1>9. m < TwoTo[n * 8]
  <2>1. PICK b \in Nat \ {0} : TwoTo[n * 8] = b
    BY TwoToOctets
  <2>2. TwoTo[RealOctets * 8] = b * p
    <3>1. PICK x \in Nat, y \in Nat : n * 8 = x /\ k * 8 = y /\ RealOctets * 8 = x + y
      BY <1>5
    <3>2. TwoTo[x + y] = TwoTo[x] * TwoTo[y]
      BY TwoToSum
    <3> QED BY <3>1, <3>2, <2>1, <1>6
  <2>3. SUFFICES ASSUME b <= m
                 PROVE  FALSE
    BY <2>1
  <2>4. b * p <= m * p
    BY <2>3, ProductGrows
  <2>5. PICK x \in Nat, y \in Nat : x = b * p /\ y = m * p
    OBVIOUS
  <2> QED BY <2>2, <2>4, <2>5, <1>2, <1>8
<1>10. ASSUME NEW i \in 1 .. n
       PROVE  s[i] = (m \div TwoTo[(n - i) * 8]) % 256
  <2>1. PICK x \in Nat : (n - i) * 8 = x /\ 8 * (RealOctets - i) = k * 8 + x
    <3>1. (n - i) * 8 \in Nat /\ 8 * (RealOctets - i) = k * 8 + (n - i) * 8
      BY <1>5
    <3> QED BY <3>1
  <2>2. PICK y \in Nat : y = k * 8
    OBVIOUS
  <2>3. PICK b \in Nat \ {0} : TwoTo[x] = b
    BY TwoToFacts
  <2>4. TwoTo[y + x] = p * b
    BY <2>2, <2>3, <1>6, TwoToSum
  <2>5. all \div (p * b) = m \div b
    BY <1>2, <1>7, QuotientTwice, ZenonT(30)
  <2>6. octet(i) = (all \div (p * b)) % 256
    BY <2>1, <2>2, <2>4
  <2>7. s[i] = octet(i)
    BY <1>3, <1>5
  <2> QED BY <2>1, <2>3, <2>5, <2>6, <2>7
<1> HIDE DEF octet
<1>11. s = [i \in 1 .. n |-> octet(i)]
  BY <1>3, <1>5
<1>12. \A i \in 1 .. n : s[i] \in Octet
  <2> SUFFICES ASSUME NEW i \in 1 .. n
               PROVE  s[i] \in Octet
    OBVIOUS
  <2>1. PICK x \in Nat : (n - i) * 8 = x
    OBVIOUS
  <2>2. PICK b \in Nat \ {0} : TwoTo[x] = b
    BY TwoToFacts
  <2>3. PICK d \in Nat : m \div b = d
    BY Quotient
  <2>4. s[i] = d % 256
    BY <1>10, <2>1, <2>2, <2>3
  <2> QED BY <2>4 DEF Octet
<1>13. s \in Seq(Octet) /\ Len(s) = n
  <2>1. \A i \in 1 .. n : octet(i) \in Octet
    BY <1>11, <1>12
  <2> QED BY <2>1, <1>11
<1>14. Magnitude(s) = m
  BY <1>9, <1>10, <1>13, MagnitudeIs
<1>15. s[1] >= 128 /\ s[n] # 0
  <2>1. s[1] = octet(1) /\ s[n] = octet(n)
    BY <1>11
  <2> QED BY <2>1, <1>4, <1>5
<1>16. Len(s) \in 1 .. RealOctets
  BY <1>4, <1>5, <1>13
<1>17. Magnitude(s) * TwoTo[(RealOctets - Len(s)) * 8] = all
  BY <1>5, <1>6, <1>8, <1>13, <1>14
<1> QED BY <1>13, <1>15, <1>16, <1>17 DEF all

\* An octet and the one in front, shifted to the right.
Shift(t, u) ==
  \/ t = 1 /\ u = 256
  \/ t = 2 /\ u = 128
  \/ t = 4 /\ u = 64
  \/ t = 8 /\ u = 32
  \/ t = 16 /\ u = 16
  \/ t = 32 /\ u = 8
  \/ t = 64 /\ u = 4
  \/ t = 128 /\ u = 2

LEMMA ShiftPowers ==
  ASSUME NEW n \in 0 .. 7
  PROVE  Shift(TwoTo[n], TwoTo[8 - n])
<1>1. n = 0 \/ n = 1 \/ n = 2 \/ n = 3 \/ n = 4 \/ n = 5 \/ n = 6 \/ n = 7
  OBVIOUS
<1>2. PICK t \in Nat, u \in Nat : t = TwoTo[n] /\ u = TwoTo[8 - n]
  <2>1. n \in Nat /\ 8 - n \in Nat
    OBVIOUS
  <2> QED BY <2>1, TwoToFacts
<1> SUFFICES Shift(t, u)
  BY <1>2
<1>3. CASE n = 0
  <2>1. 8 - n = 8
    BY <1>3
  <2>2. t = 1 /\ u = 256
    BY <2>1, <1>2, <1>3, SmallPowers
  <2> QED BY <2>2 DEF Shift
<1>4. CASE n = 1
  <2>1. 8 - n = 7
    BY <1>4
  <2>2. t = 2 /\ u = 128
    BY <2>1, <1>2, <1>4, SmallPowers
  <2> QED BY <2>2 DEF Shift
<1>5. CASE n = 2
  <2>1. 8 - n = 6
    BY <1>5
  <2>2. t = 4 /\ u = 64
    BY <2>1, <1>2, <1>5, SmallPowers
  <2> QED BY <2>2 DEF Shift
<1>6. CASE n = 3
  <2>1. 8 - n = 5
    BY <1>6
  <2>2. t = 8 /\ u = 32
    BY <2>1, <1>2, <1>6, SmallPowers
  <2> QED BY <2>2 DEF Shift
<1>7. CASE n = 4
  <2>1. 8 - n = 4
    BY <1>7
  <2>2. t = 16 /\ u = 16
    BY <2>1, <1>2, <1>7, SmallPowers
  <2> QED BY <2>2 DEF Shift
<1>8. CASE n = 5
  <2>1. 8 - n = 3
    BY <1>8
  <2>2. t = 32 /\ u = 8
    BY <2>1, <1>2, <1>8, SmallPowers
  <2> QED BY <2>2 DEF Shift
<1>9. CASE n = 6
  <2>1. 8 - n = 2
    BY <1>9
  <2>2. t = 64 /\ u = 4
    BY <2>1, <1>2, <1>9, SmallPowers
  <2> QED BY <2>2 DEF Shift
<1>10. CASE n = 7
  <2>1. 8 - n = 1
    BY <1>10
  <2>2. t = 128 /\ u = 2
    BY <2>1, <1>2, <1>10, SmallPowers
  <2> QED BY <2>2 DEF Shift
<1> QED BY <1>1, <1>3, <1>4, <1>5, <1>6, <1>7, <1>8, <1>9, <1>10

LEMMA ShiftOctets ==
  ASSUME NEW t \in Nat, NEW u \in Nat, Shift(t, u), NEW x \in Octet, NEW y \in Octet
  PROVE  /\ (x \div t) \in Octet
         /\ (x \div t) + (y % t) * u \in Octet
         /\ ((x \div t) + (y % t) * u) % 2 = (x \div t) % 2
<1> USE DEF Octet
<1>1. CASE t = 1 /\ u = 256
  BY <1>1
<1>2. CASE t = 2 /\ u = 128
  BY <1>2
<1>3. CASE t = 4 /\ u = 64
  BY <1>3
<1>4. CASE t = 8 /\ u = 32
  BY <1>4
<1>5. CASE t = 16 /\ u = 16
  BY <1>5
<1>6. CASE t = 32 /\ u = 8
  BY <1>6
<1>7. CASE t = 64 /\ u = 4
  BY <1>7
<1>8. CASE t = 128 /\ u = 2
  BY <1>8
<1> QED BY <1>1, <1>2, <1>3, <1>4, <1>5, <1>6, <1>7, <1>8 DEF Shift

\* A number with an octet behind.
Behind(a, x, v) == x < 256 /\ v = a * 256 + x

\* The bits that leave an octet come into the next one.
LEMMA ShiftNumber ==
  ASSUME NEW t \in Nat, NEW u \in Nat, Shift(t, u), NEW b \in Nat, NEW y \in Nat,
         NEW a \in Nat, Behind(b, y, a), NEW x \in Nat, NEW v \in Nat, Behind(a, x, v)
  PROVE  v \div t = (a \div t) * 256 + ((x \div t) + (y % t) * u)
<1>1. CASE t = 1 /\ u = 256
  BY <1>1 DEF Behind
<1>2. CASE t = 2 /\ u = 128
  BY <1>2 DEF Behind
<1>3. CASE t = 4 /\ u = 64
  BY <1>3 DEF Behind
<1>4. CASE t = 8 /\ u = 32
  BY <1>4 DEF Behind
<1>5. CASE t = 16 /\ u = 16
  BY <1>5 DEF Behind
<1>6. CASE t = 32 /\ u = 8
  BY <1>6 DEF Behind
<1>7. CASE t = 64 /\ u = 4
  BY <1>7 DEF Behind
<1>8. CASE t = 128 /\ u = 2
  BY <1>8 DEF Behind
<1> QED BY <1>1, <1>2, <1>3, <1>4, <1>5, <1>6, <1>7, <1>8 DEF Shift

\* A number whose last octet can be shifted without losing a bit can be.
LEMMA ShiftExact ==
  ASSUME NEW t \in Nat, NEW u \in Nat, Shift(t, u), NEW a \in Nat, NEW x \in Nat,
         NEW v \in Nat, Behind(a, x, v), (x \div t) * t = x
  PROVE  (v \div t) * t = v
<1>1. CASE t = 1 /\ u = 256
  BY <1>1 DEF Behind
<1>2. CASE t = 2 /\ u = 128
  BY <1>2 DEF Behind
<1>3. CASE t = 4 /\ u = 64
  BY <1>3 DEF Behind
<1>4. CASE t = 8 /\ u = 32
  BY <1>4 DEF Behind
<1>5. CASE t = 16 /\ u = 16
  BY <1>5 DEF Behind
<1>6. CASE t = 32 /\ u = 8
  BY <1>6 DEF Behind
<1>7. CASE t = 64 /\ u = 4
  BY <1>7 DEF Behind
<1>8. CASE t = 128 /\ u = 2
  BY <1>8 DEF Behind
<1> QED BY <1>1, <1>2, <1>3, <1>4, <1>5, <1>6, <1>7, <1>8 DEF Shift

\* Octet by octet a mantissa is shifted as a whole, and no bit is lost.
LEMMA MantissaShifted ==
  ASSUME NEW s \in Seq(Octet), NEW l \in Nat \ {0}, Len(s) = l, s[1] >= 128, s[l] # 0,
         NEW n, n = least_sig_bit(s), NEW r, r = normalise_mantissa(s)
  PROVE  /\ r \in Seq(Octet) /\ Len(r) = l /\ n \in 0 .. 7
         /\ r[1] # 0 /\ r[l] % 2 = 1
         /\ Magnitude(r) * TwoTo[n] = Magnitude(s)
<1>1. \A i \in 1 .. l : s[i] \in Nat /\ s[i] < 256
  BY OctetStrings
<1>2. DOMAIN s = 1 .. l
  BY OctetStrings
<1>3. n \in 0 .. 7 /\ (s[l] \div TwoTo[n]) * TwoTo[n] = s[l] /\ (s[l] \div TwoTo[n]) % 2 = 1
  <2>1. PICK x \in Nat : x = s[l] /\ 0 < x /\ x < 256
    <3>1. l \in 1 .. l
      OBVIOUS
    <3> QED BY <3>1, <1>1
  <2>2. x = s[Len(s)]
    BY <2>1
  <2> QED BY <2>1, <2>2, LeastBit
<1>4. PICK t \in Nat, u \in Nat : t = TwoTo[n] /\ u = TwoTo[8 - n] /\ t # 0
  <2>1. n \in Nat /\ 8 - n \in Nat
    BY <1>3
  <2> QED BY <2>1, TwoToFacts
<1>5. Shift(t, u)
  BY <1>3, <1>4, ShiftPowers
<1> DEFINE octet(i) == (s[i] \div t) + (IF i = 1 THEN 0 ELSE (s[i - 1] % t) * u)
<1>6. r = [i \in 1 .. l |-> octet(i)]
  BY <1>2, <1>4 DEF normalise_mantissa
<1> HIDE DEF octet
<1>7. ASSUME NEW i \in 1 .. l
      PROVE  octet(i) \in Octet /\ octet(i) % 2 = (s[i] \div t) % 2
  <2>1. PICK x \in Octet : x = s[i]
    BY OctetStrings
  <2>2. CASE i = 1
    <3>1. PICK d \in Octet : d = x \div t
      BY <1>5, ShiftOctets
    <3>2. octet(i) = d + 0
      BY <2>1, <2>2, <3>1 DEF octet
    <3>3. d + 0 = d
      BY DEF Octet
    <3> QED BY <2>1, <3>1, <3>2, <3>3, Zenon
  <2>3. CASE i # 1
    <3>1. PICK y \in Octet : y = s[i - 1]
      <4>1. i - 1 \in 1 .. l
        BY <2>3
      <4> QED BY <4>1, OctetStrings
    <3>2. octet(i) = (x \div t) + (y % t) * u
      BY <2>1, <2>3, <3>1 DEF octet
    <3>3. /\ (x \div t) + (y % t) * u \in Octet
          /\ ((x \div t) + (y % t) * u) % 2 = (x \div t) % 2
      BY <1>5, ShiftOctets
    <3> QED BY <2>1, <3>2, <3>3, Zenon
  <2> QED BY <2>2, <2>3
<1>8. r \in Seq(Octet) /\ Len(r) = l /\ \A i \in 1 .. l : r[i] = octet(i)
  <2>1. \A i \in 1 .. l : octet(i) \in Octet
    BY <1>7
  <2> QED BY <2>1, <1>6
<1>9. r[1] # 0
  <2>1. PICK x \in Nat : x = s[1] /\ 128 <= x /\ x < 256
    <3>1. 1 \in 1 .. l
      OBVIOUS
    <3> QED BY <3>1, <1>1
  <2>2. x \div t # 0
    BY <1>5, <2>1 DEF Shift
  <2>3. PICK d \in Nat : d = x \div t
    BY <2>1, <1>4, Quotient
  <2>4. octet(1) = d + 0
    BY <2>1, <2>3 DEF octet
  <2> QED BY <1>8, <2>2, <2>3, <2>4
<1>10. r[l] % 2 = 1
  <2>1. l \in 1 .. l
    OBVIOUS
  <2> QED BY <2>1, <1>3, <1>4, <1>7, <1>8
<1>11. PICK f : /\ Leading(f, s)
                /\ \A i \in 0 .. l : f[i] \in Nat
                /\ Magnitude(s) = f[l]
  BY MagnitudeLeads
<1>12. PICK g : /\ Leading(g, r)
                /\ \A i \in 0 .. l : g[i] \in Nat
                /\ Magnitude(r) = g[l]
  BY <1>8, MagnitudeLeads
<1>13. f[0] = 0 /\ \A i \in 1 .. l : f[i] = f[i - 1] * 256 + s[i]
  BY <1>11 DEF Leading
<1>14. g[0] = 0 /\ \A i \in 1 .. l : g[i] = g[i - 1] * 256 + octet(i)
  BY <1>8, <1>12 DEF Leading
<1>15. g[l] = f[l] \div t
  <2> DEFINE S == { i \in Nat : i <= l => g[i] = f[i] \div t }
  <2>1. 0 \in S
    <3>1. 0 \div t = 0
      BY <1>4
    <3> QED BY <3>1, <1>13, <1>14
  <2>2. ASSUME NEW i \in Nat, i \in S
        PROVE  i + 1 \in S
    <3> SUFFICES ASSUME i + 1 <= l
                 PROVE  g[i + 1] = f[i + 1] \div t
      OBVIOUS
    <3>1. i + 1 \in 1 .. l /\ i \in 0 .. l /\ (i + 1) - 1 = i /\ i <= l
      OBVIOUS
    <3>2. PICK x \in Nat : x = s[i + 1] /\ x < 256
      BY <3>1, <1>1
    <3>3. PICK a \in Nat : a = f[i]
      BY <3>1, <1>11
    <3>4. f[i + 1] = a * 256 + x
      BY <3>1, <3>2, <3>3, <1>13
    <3>5. g[i] = a \div t
      BY <3>1, <3>3, <2>2
    <3>6. g[i + 1] = (a \div t) * 256 + octet(i + 1)
      <4>1. g[i + 1] = g[i] * 256 + octet(i + 1)
        BY <3>1, <1>14
      <4> QED BY <4>1, <3>5
    <3>7. CASE i = 0
      <4>1. a = 0
        BY <3>3, <3>7, <1>13
      <4>2. octet(i + 1) = (x \div t) + 0
        BY <3>2, <3>7 DEF octet
      <4>3. PICK d \in Nat : d = x \div t
        BY <1>4, Quotient
      <4>4. a * 256 + x = x /\ a \div t = 0 /\ 0 * 256 + (d + 0) = d
        BY <4>1, <1>4
      <4> QED BY <3>4, <3>6, <4>1, <4>2, <4>3, <4>4
    <3>8. CASE i # 0
      <4>1. i \in 1 .. l /\ i - 1 \in 0 .. l /\ i + 1 # 1
        BY <3>1, <3>8
      <4>2. PICK y \in Nat : y = s[i] /\ y < 256
        BY <4>1, <1>1
      <4>3. PICK b \in Nat : b = f[i - 1]
        BY <4>1, <1>11
      <4>4. a = b * 256 + y
        BY <3>3, <4>1, <4>2, <4>3, <1>13
      <4>5. octet(i + 1) = (x \div t) + (y % t) * u
        BY <3>1, <3>2, <4>1, <4>2 DEF octet
      <4>6. PICK v \in Nat : v = a * 256 + x
        OBVIOUS
      <4>7. v \div t = (a \div t) * 256 + ((x \div t) + (y % t) * u)
        <5>1. Behind(b, y, a)
          BY <4>2, <4>4 DEF Behind
        <5>2. Behind(a, x, v)
          BY <3>2, <4>6 DEF Behind
        <5> QED BY <1>5, <5>1, <5>2, ShiftNumber
      <4> QED BY <3>4, <3>6, <4>5, <4>6, <4>7
    <3> QED BY <3>7, <3>8
  <2> HIDE DEF S
  <2>3. l \in S
    BY <2>1, <2>2, SetInduction
  <2> QED BY <2>3 DEF S
<1>16. (f[l] \div t) * t = f[l]
  <2>1. l \in 1 .. l /\ l - 1 \in 0 .. l
    OBVIOUS
  <2>2. PICK x \in Nat : x = s[l] /\ x < 256
    BY <2>1, <1>1
  <2>3. PICK a \in Nat : a = f[l - 1]
    BY <2>1, <1>11
  <2>4. f[l] = a * 256 + x
    BY <2>1, <2>2, <2>3, <1>13
  <2>5. (x \div t) * t = x
    BY <2>2, <1>3, <1>4
  <2>6. PICK v \in Nat : v = a * 256 + x
    OBVIOUS
  <2>7. (v \div t) * t = v
    <3>1. Behind(a, x, v)
      BY <2>2, <2>6 DEF Behind
    <3> QED BY <1>5, <3>1, <2>5, ShiftExact
  <2> QED BY <2>4, <2>6, <2>7
<1>17. Magnitude(r) * TwoTo[n] = Magnitude(s)
  BY <1>4, <1>11, <1>12, <1>15, <1>16
<1> QED BY <1>3, <1>8, <1>9, <1>10, <1>17

-----------------------------------------------------------------------------
(***************************************************************************)
(* The exponent of a real, and where its parts are.                        *)
(***************************************************************************)

\* An exponent that is an int is read back as one.
LEMMA ExponentReadBack ==
  ASSUME NEW k \in Int, -TwoTo[8 * IntOctets - 1] <= k, k <= TwoTo[8 * IntOctets - 1] - 1,
         NEW s, s = encode_integer(k, IntOctets)
  PROVE  /\ s \in Seq(Octet) /\ Len(s) \in 1 .. IntOctets
         /\ Signed(decode_integer(s, IntOctets)) = k
<1>1. PICK z \in Nat \ {0} : z = IntOctets /\ z <= WordOctets
  BY RealConstants
<1> DEFINE type == [size |-> z, signed |-> TRUE]
<1>2. type \in Types /\ type.size = z /\ type.signed
  <2>1. z \in 1 .. WordOctets
    BY <1>1, WordFacts
  <2> QED BY <2>1, Zenon DEF Types
<1>3. PICK q \in Nat \ {0} : TwoTo[z * 8 - 1] = q /\ TwoTo[8 * z - 1] = q
  BY TwoToSign
<1>4. Holds(type, k)
  BY <1>1, <1>2, <1>3, TypeFacts
<1> HIDE DEF type
<1>5. s \in Seq(Octet) /\ Len(s) \in Nat /\ Len(s) >= 1 /\ Number(s) = k /\ Shortest(s)
  BY <1>1, <1>2, <1>4, EncodeInteger
<1>6. PICK n \in Nat \ {0} : n = Len(s)
  BY <1>5
<1>7. n <= z
  <2>1. IntegerOf(type, s) = {Number(s)}
    BY <1>2, <1>4, <1>5, HeldIsRead
  <2>2. Fits(n, type)
    BY <2>1, <1>6, Zenon DEF IntegerOf
  <2> QED BY <2>2, <1>2 DEF Fits
<1>8. PICK v \in Nat : v = Magnitude(s)
  BY <1>5, <1>6, NumberFacts
<1>9. PICK b \in Nat \ {0} : /\ b = TwoTo[n * 8 - 1]
                             /\ -b <= k /\ k < b
                             /\ s[1] \in Nat
                             /\ s[1] >= 128 => k < 0
                             /\ s[1] < 128 => k = v /\ v < b
  <2>1. TwoTo[n * 8 - 1] \in Nat \ {0}
    BY TwoToSign
  <2> QED BY <2>1, <1>5, <1>6, <1>8, NumberFacts
<1>10. PICK h \in Nat \ {0} : TwoTo[WordBits - 1] = h /\ TwoTo[WordBits] = 2 * h /\ b <= h
  <2>1. PICK w \in Nat : WordBits = w + 1 /\ WordBits - 1 = w
    <3>1. WordBits - 1 \in Nat /\ WordBits = (WordBits - 1) + 1
      BY WordFacts
    <3> QED BY <3>1
  <2>2. TwoTo[w] \in Nat \ {0} /\ TwoTo[w + 1] = 2 * TwoTo[w]
    BY TwoToFacts
  <2>3. PICK c \in Nat : n * 8 - 1 = c /\ c <= w
    <3>1. PICK y \in Nat : y = WordOctets /\ n <= y
      BY <1>1, <1>7, WordFacts
    <3>2. n * 8 - 1 \in Nat /\ n * 8 - 1 <= y * 8 - 1 /\ w = y * 8 - 1
      BY <3>1, <2>1, WordFacts
    <3> QED BY <3>2
  <2>4. TwoTo[c] <= TwoTo[w]
    BY <2>3, TwoToGrows
  <2> QED BY <2>1, <2>2, <2>3, <2>4, <1>9
<1>11. CASE s[1] < 128
  <2>1. k = v /\ v < h /\ v < TwoTo[WordBits]
    BY <1>9, <1>10, <1>11
  <2>2. decode_integer(s, IntOctets) = v
    <3>1. Len(s) >= 1 /\ Magnitude(s) < TwoTo[WordBits]
      BY <2>1, <1>5, <1>8
    <3> QED BY <3>1, <1>5, <1>8, <1>11, DecodeNonnegative
  <2>3. Signed(v) = v
    BY <2>1, <1>10 DEF Signed
  <2> QED BY <2>1, <2>2, <2>3, <1>1, <1>5, <1>6, <1>7
<1>12. CASE s[1] >= 128
  <2>1. decode_integer(s, z) = k + TwoTo[WordBits]
    BY <1>1, <1>5, <1>6, <1>7, <1>12, DecodeNegative
  <2>2. PICK x \in Nat : x = k + 2 * h /\ ~(x < h)
    BY <1>9, <1>10
  <2>3. Signed(x) = k
    BY <2>2, <1>10 DEF Signed
  <2>4. decode_integer(s, z) = x
    BY <2>1, <2>2, <1>10
  <2> QED BY <2>3, <2>4, <1>1, <1>5, <1>6, <1>7
<1> QED BY <1>9, <1>11, <1>12

LEMMA PieceIs ==
  ASSUME NEW S, NEW s \in Seq(S), NEW b \in Seq(S), NEW p \in Nat \ {0}, NEW q \in Nat,
         q <= Len(s), q + 1 = p + Len(b), \A k \in 1 .. Len(b) : s[p - 1 + k] = b[k]
  PROVE  SubSeq(s, p, q) = b
<1>1. Len(s) \in Nat /\ \A k \in p .. q : s[k] \in S
  <2>1. Len(s) \in Nat
    BY LenProperties
  <2>2. \A k \in p .. q : k \in 1 .. Len(s)
    BY <2>1
  <2> QED BY <2>1, <2>2, ElementOfSeq
<1>2. PICK j \in Nat : j = Len(b)
  BY LenProperties
<1>3. /\ SubSeq(s, p, q) \in Seq(S)
      /\ Len(SubSeq(s, p, q)) = j
      /\ \A k \in 1 .. j : SubSeq(s, p, q)[k] = s[p + k - 1]
  <2>1. /\ SubSeq(s, p, q) \in Seq(S)
        /\ Len(SubSeq(s, p, q)) = IF p <= q THEN q - p + 1 ELSE 0
        /\ \A k \in 1 .. q - p + 1 : SubSeq(s, p, q)[k] = s[p + k - 1]
    BY <1>1, SubSeqProperties, SMTT(20)
  <2>2. q - p + 1 = j /\ (~(p <= q) => j = 0)
    BY <1>2
  <2> QED BY <2>1, <2>2
<1>4. \A k \in 1 .. j : SubSeq(s, p, q)[k] = b[k]
  <2> SUFFICES ASSUME NEW k \in 1 .. j
               PROVE  SubSeq(s, p, q)[k] = b[k]
    OBVIOUS
  <2>1. p - 1 + k = p + k - 1
    OBVIOUS
  <2> QED BY <2>1, <1>2, <1>3
<1> QED BY <1>2, <1>3, <1>4, SeqEqual

LEMMA Pieces ==
  ASSUME NEW S, NEW a \in Seq(S), NEW b \in Seq(S), NEW c \in Seq(S), c # <<>>,
         NEW i \in Nat, NEW j \in Nat, i = Len(a), j = Len(b), NEW s, s = (a \o b) \o c
  PROVE  /\ s \in Seq(S) /\ Len(c) \in Nat \ {0} /\ Len(s) = i + j + Len(c)
         /\ \A k \in 1 .. i : s[k] = a[k]
         /\ SubSeq(s, i + 1, i + j) = b
         /\ SubSeq(s, i + j + 1, Len(s)) = c
         /\ s[i + j + 1] = c[1] /\ s[Len(s)] = c[Len(c)]
<1>1. PICK l \in Nat : l = Len(c) /\ l # 0
  BY EmptySeq, LenProperties
<1>2. s \in Seq(S) /\ Len(s) = i + j + l
  BY <1>1
<1>3. \A k \in 1 .. i : s[k] = a[k]
  OBVIOUS
<1>4. \A k \in 1 .. j : s[i + k] = b[k]
  OBVIOUS
<1>5. \A k \in 1 .. l : s[i + j + k] = c[k]
  BY <1>1
<1>6. SubSeq(s, i + 1, i + j) = b
  <2>1. PICK p \in Nat \ {0}, q \in Nat : p = i + 1 /\ q = i + j
    OBVIOUS
  <2>2. q <= Len(s) /\ q + 1 = p + Len(b)
    BY <2>1, <1>2
  <2>3. \A k \in 1 .. Len(b) : s[p - 1 + k] = b[k]
    <3>1. p - 1 = i
      BY <2>1
    <3> QED BY <3>1, <1>4
  <2>4. SubSeq(s, p, q) = b
    BY <2>2, <2>3, <1>2, PieceIs
  <2> QED BY <2>1, <2>4
<1>7. SubSeq(s, i + j + 1, Len(s)) = c
  <2>1. PICK p \in Nat \ {0}, q \in Nat : p = i + j + 1 /\ q = i + j + l
    OBVIOUS
  <2>2. q <= Len(s) /\ q + 1 = p + Len(c)
    BY <2>1, <1>1, <1>2
  <2>3. \A k \in 1 .. Len(c) : s[p - 1 + k] = c[k]
    <3>1. p - 1 = i + j
      BY <2>1
    <3> QED BY <3>1, <1>1, <1>5
  <2>4. SubSeq(s, p, q) = c
    BY <2>2, <2>3, <1>2, PieceIs
  <2> QED BY <2>1, <2>4, <1>2
<1>8. s[i + j + 1] = c[1] /\ s[i + j + l] = c[l]
  BY <1>1, <1>5
<1> QED BY <1>1, <1>2, <1>3, <1>6, <1>7, <1>8

\* The first octet: that it is binary, its sign, and how long the exponent is.
First(sign, c) == 128 + sign + c

LEMMA FirstOctet ==
  ASSUME NEW c \in 0 .. 3, NEW sign \in Nat, sign = 0 \/ sign = 64, NEW x \in Nat, x = First(sign, c)
  PROVE  /\ x \in Octet
         /\ x % 4 = c
         /\ (x \div 4) % 2 = 0 /\ (x \div 8) % 2 = 0
         /\ (x \div 16) % 2 = 0 /\ (x \div 32) % 2 = 0
         /\ (x \div 64) % 2 = 1 <=> sign = 64
<1> USE DEF Octet, First
<1>0. c = 0 \/ c = 1 \/ c = 2 \/ c = 3
  OBVIOUS
<1>1. CASE c = 0 /\ sign = 0
  <2>1. x = 128
    BY <1>1
  <2> QED BY <2>1, <1>1
<1>2. CASE c = 1 /\ sign = 0
  <2>1. x = 129
    BY <1>2
  <2> QED BY <2>1, <1>2
<1>3. CASE c = 2 /\ sign = 0
  <2>1. x = 130
    BY <1>3
  <2> QED BY <2>1, <1>3
<1>4. CASE c = 3 /\ sign = 0
  <2>1. x = 131
    BY <1>4
  <2> QED BY <2>1, <1>4
<1>5. CASE c = 0 /\ sign = 64
  <2>1. x = 192
    BY <1>5
  <2> QED BY <2>1, <1>5
<1>6. CASE c = 1 /\ sign = 64
  <2>1. x = 193
    BY <1>6
  <2> QED BY <2>1, <1>6
<1>7. CASE c = 2 /\ sign = 64
  <2>1. x = 194
    BY <1>7
  <2> QED BY <2>1, <1>7
<1>8. CASE c = 3 /\ sign = 64
  <2>1. x = 195
    BY <1>8
  <2> QED BY <2>1, <1>8
<1> QED BY <1>0, <1>1, <1>2, <1>3, <1>4, <1>5, <1>6, <1>7, <1>8

\* The octets in front of an exponent, and where it starts.
Front(sign, size) ==
  IF size > 3 THEN <<First(sign, 3)>> \o <<size>> ELSE <<First(sign, size - 1)>>
Start(s) == IF s[1] % 4 = 3 THEN 2 ELSE 1

LEMMA FrontFacts ==
  ASSUME NEW size \in Nat, size >= 1, size < 256, NEW sign \in Nat, sign = 0 \/ sign = 64,
         NEW h, h = Front(sign, size)
  PROVE  /\ h \in Seq(Octet) /\ Len(h) = Start(h) /\ Start(h) \in 1 .. 2 /\ h[1] \in Octet
         /\ h[1] % 4 = 3 => h[2] = size
         /\ h[1] % 4 # 3 => (h[1] % 4) + 1 = size
         /\ Accepted(h[1]) /\ (IsSet(h[1], 6) <=> sign = 64)
<1>1. PICK c \in 0 .. 3 : c = (IF size > 3 THEN 3 ELSE size - 1)
  OBVIOUS
<1>2. PICK x \in Nat : x = First(sign, c)
  BY DEF First
<1>3. /\ x \in Octet
      /\ x % 4 = c
      /\ (x \div 4) % 2 = 0 /\ (x \div 8) % 2 = 0
      /\ (x \div 16) % 2 = 0 /\ (x \div 32) % 2 = 0
      /\ (x \div 64) % 2 = 1 <=> sign = 64
  BY <1>2, FirstOctet
<1>4. Accepted(x) /\ (IsSet(x, 6) <=> sign = 64)
  <2>1. /\ IsSet(x, 2) <=> (x \div 4) % 2 = 1
        /\ IsSet(x, 3) <=> (x \div 8) % 2 = 1
        /\ IsSet(x, 4) <=> (x \div 16) % 2 = 1
        /\ IsSet(x, 5) <=> (x \div 32) % 2 = 1
        /\ IsSet(x, 6) <=> (x \div 64) % 2 = 1
    BY SmallPowers DEF IsSet
  <2>2. \A n \in 2 .. 5 : n = 2 \/ n = 3 \/ n = 4 \/ n = 5
    OBVIOUS
  <2>3. x >= 128
    BY <1>2 DEF First
  <2>4. \A n \in 2 .. 5 : ~IsSet(x, n)
    BY <2>1, <2>2, <1>3
  <2> QED BY <2>1, <2>3, <2>4, <1>3 DEF Accepted
<1>5. CASE size > 3
  <2>1. c = 3 /\ h = <<x>> \o <<size>>
    BY <1>1, <1>2, <1>5 DEF Front
  <2>2. h \in Seq(Octet) /\ Len(h) = 2 /\ h[1] = x /\ h[2] = size
    BY <2>1, <1>3, <1>5 DEF Octet
  <2>3. (x % 4) = 3
    BY <2>1, <1>3
  <2> QED BY <2>2, <2>3, <1>3, <1>4 DEF Start
<1>6. CASE size <= 3
  <2>1. c = size - 1 /\ h = <<x>>
    BY <1>1, <1>2, <1>6 DEF Front
  <2>2. h \in Seq(Octet) /\ Len(h) = 1 /\ h[1] = x
    BY <2>1, <1>3
  <2>3. (x % 4) # 3 /\ (x % 4) + 1 = size
    BY <2>1, <1>3, <1>6
  <2> QED BY <2>2, <2>3, <1>3, <1>4 DEF Start
<1> QED BY <1>5, <1>6

\* A front, an exponent e and a mantissa m, one behind the other.
Packed(e, size, m, sign, s, start) ==
  /\ e \in Seq(Octet) /\ size \in Nat /\ Len(e) = size /\ size >= 1 /\ size < 256
  /\ m \in Seq(Octet) /\ m # <<>> /\ sign \in Nat /\ (sign = 0 \/ sign = 64)
  /\ s = (Front(sign, size) \o e) \o m /\ start = Start(s)

LEMMA RealLayout ==
  ASSUME NEW e, NEW size, NEW m, NEW sign, NEW s, NEW start,
         Packed(e, size, m, sign, s, start)
  PROVE  /\ s \in Seq(Octet) /\ start \in Nat /\ Len(s) >= start + size + 1
         /\ s[1] % 4 = 3 => s[2] = size
         /\ s[1] % 4 # 3 => (s[1] % 4) + 1 = size
         /\ SubSeq(s, start + 1, start + size) = e
         /\ SubSeq(s, start + size + 1, Len(s)) = m
         /\ s[start + size + 1] = m[1] /\ s[Len(s)] = m[Len(m)]
         /\ Accepted(s[1]) /\ (IsSet(s[1], 6) <=> sign = 64)
<1>0. /\ e \in Seq(Octet) /\ size \in Nat /\ Len(e) = size /\ size >= 1 /\ size < 256
      /\ m \in Seq(Octet) /\ m # <<>> /\ sign \in Nat /\ (sign = 0 \/ sign = 64)
      /\ s = (Front(sign, size) \o e) \o m /\ start = Start(s)
  BY Zenon DEF Packed
<1>1. PICK h : h = Front(sign, size)
  OBVIOUS
<1>2. /\ h \in Seq(Octet) /\ Len(h) = Start(h) /\ Start(h) \in 1 .. 2
      /\ h[1] % 4 = 3 => h[2] = size
      /\ h[1] % 4 # 3 => (h[1] % 4) + 1 = size
  <2>1. h \in Seq(Octet)
    BY <1>0, <1>1, FrontFacts
  <2>2. Len(h) = Start(h) /\ Start(h) \in 1 .. 2
    BY <1>0, <1>1, FrontFacts
  <2>3. h[1] % 4 = 3 => h[2] = size
    BY <1>0, <1>1, FrontFacts, ZenonT(30)
  <2>4. h[1] % 4 # 3 => (h[1] % 4) + 1 = size
    BY <1>0, <1>1, FrontFacts
  <2> QED BY <2>1, <2>2, <2>3, <2>4, Zenon
<1>3. Accepted(h[1]) /\ (IsSet(h[1], 6) <=> sign = 64)
  <2>1. Accepted(h[1])
    BY <1>0, <1>1, FrontFacts
  <2>2. IsSet(h[1], 6) <=> sign = 64
    BY <1>0, <1>1, FrontFacts, SMTT(20)
  <2> QED BY <2>1, <2>2, Zenon
<1>4. PICK i \in Nat : i = Len(h) /\ i \in 1 .. 2
  BY <1>2
<1>5. /\ s \in Seq(Octet) /\ Len(m) \in Nat \ {0} /\ Len(s) = i + size + Len(m)
      /\ \A k \in 1 .. i : s[k] = h[k]
      /\ SubSeq(s, i + 1, i + size) = e
      /\ SubSeq(s, i + size + 1, Len(s)) = m
      /\ s[i + size + 1] = m[1] /\ s[Len(s)] = m[Len(m)]
  <2>1. s = (h \o e) \o m /\ i = Len(h) /\ h \in Seq(Octet)
    BY <1>0, <1>1, <1>2, <1>4
  <2>2. s \in Seq(Octet) /\ Len(m) \in Nat \ {0} /\ Len(s) = i + size + Len(m)
    <3>1. s \in Seq(Octet)
      BY <1>0, <2>1, Pieces
    <3>2. Len(m) \in Nat \ {0}
      BY <1>0, <2>1, Pieces
    <3>3. Len(s) = i + size + Len(m)
      <4>1. PICK g \in Seq(Octet) : s = g \o m /\ Len(g) = i + size
        BY <1>0, <2>1, ConcatProperties, ZenonT(30)
      <4>2. Len(g \o m) = Len(g) + Len(m)
        BY <1>0, ConcatProperties
      <4> QED BY <4>1, <4>2, Zenon
    <3> QED BY <3>1, <3>2, <3>3, Zenon
  <2>3. \A k \in 1 .. i : s[k] = h[k]
    BY <1>0, <2>1, Pieces
  <2>4. SubSeq(s, i + 1, i + size) = e
    BY <1>0, <2>1, Pieces, SMTT(20)
  <2>5. SubSeq(s, i + size + 1, Len(s)) = m
    BY <1>0, <2>1, Pieces
  <2>6. s[i + size + 1] = m[1] /\ s[Len(s)] = m[Len(m)]
    BY <1>0, <2>1, Pieces
  <2> QED BY <2>2, <2>3, <2>4, <2>5, <2>6, Zenon
<1>6. s[1] = h[1] /\ (i = 2 => s[2] = h[2])
  <2>1. 1 \in 1 .. i /\ (i = 2 => 2 \in 1 .. i)
    BY <1>4
  <2> QED BY <2>1, <1>5, Zenon
<1>7. start = i
  BY <1>0, <1>2, <1>4, <1>6 DEF Start
<1>8. s[1] % 4 = 3 => i = 2
  BY <1>0, <1>2, <1>4, <1>6 DEF Start
<1>9. Len(s) >= start + size + 1 /\ start \in Nat
  BY <1>0, <1>4, <1>5, <1>7
<1>10. s[1] % 4 = 3 => s[2] = size
  BY <1>2, <1>6, <1>8
<1>11. s[1] % 4 # 3 => (s[1] % 4) + 1 = size
  BY <1>2, <1>6
<1>12. Accepted(s[1]) /\ (IsSet(s[1], 6) <=> sign = 64)
  BY <1>3, <1>6, Zenon
<1> QED BY <1>5, <1>7, <1>9, <1>10, <1>11, <1>12

\* Times a higher power of two, a number has more bits.
LEMMA MoreBits ==
  ASSUME NEW a \in Nat, NEW b \in Nat, NEW k \in Nat, NEW i \in Nat, k < i,
         TwoTo[b] <= a * TwoTo[k]
  PROVE  TwoTo[b + 1] <= a * TwoTo[i]
<1>1. PICK c \in Nat : k + 1 <= i /\ i = (k + 1) + c
  <2>1. i - (k + 1) \in Nat /\ i = (k + 1) + (i - (k + 1))
    OBVIOUS
  <2> QED BY <2>1
<1>2. PICK p \in Nat \ {0}, q \in Nat \ {0}, w \in Nat \ {0} :
        p = TwoTo[k] /\ q = TwoTo[i] /\ w = TwoTo[b]
  BY TwoToFacts
<1>3. TwoTo[k + 1] = 2 * p /\ TwoTo[b + 1] = 2 * w
  BY <1>2, TwoToFacts
<1>4. 2 * p <= q
  BY <1>1, <1>2, <1>3, TwoToGrows
<1>5. w <= a * p
  BY <1>2
<1>6. PICK z \in Nat : z = 2 * p /\ z <= q
  BY <1>4
<1>7. z * a <= q * a
  BY <1>6, ProductGrows
<1>8. z * a = 2 * (a * p) /\ q * a = a * q
  BY <1>6
<1>9. PICK x \in Nat, y \in Nat : x = a * p /\ y = a * q
  OBVIOUS
<1>10. 2 * x <= y /\ w <= x
  BY <1>5, <1>7, <1>8, <1>9
<1> QED BY <1>2, <1>3, <1>9, <1>10

LEMMA Cancelled ==
  ASSUME NEW a \in Nat, NEW b \in Nat, NEW p \in Nat \ {0}, a * p = b * p
  PROVE  a = b
OBVIOUS

\* Of an odd mantissa and what it was multiplied by, the fraction is found.
LEMMA LdexpIs ==
  ASSUME NEW fraction \in Fractions, NEW a \in Nat, a % 2 = 1, NEW j \in Nat,
         NEW d \in Nat, a * TwoTo[j] = fraction * TwoTo[d], NEW negative, NEW k \in Int
  PROVE  Ldexp(negative, a, k) =
           [kind |-> "normal", negative |-> negative,
            fraction |-> fraction, exponent |-> k + Precision - (j - d)]
<1>1. PICK f \in Nat \ {0} : /\ f = fraction
                             /\ TwoTo[Precision - 1] <= f /\ f < TwoTo[Precision]
  BY FractionBits
<1>2. PICK p \in Nat : Precision = p + 1 /\ Precision - 1 = p
  <2>1. Precision - 1 \in Nat /\ Precision = (Precision - 1) + 1
    BY RealConstants
  <2> QED BY <2>1
<1>3. PICK t \in Nat \ {0} : t = TwoTo[d]
  BY TwoToFacts
<1>4. d <= j
  <2> SUFFICES ASSUME j < d
               PROVE  FALSE
    OBVIOUS
  <2>1. PICK c \in Nat : d = j + (c + 1)
    <3>1. d - j - 1 \in Nat /\ d = j + ((d - j - 1) + 1)
      OBVIOUS
    <3> QED BY <3>1
  <2>2. PICK u \in Nat \ {0}, v \in Nat \ {0} : u = TwoTo[j] /\ v = TwoTo[c]
    BY TwoToFacts
  <2>3. TwoTo[c + 1] = 2 * v
    BY <2>2, TwoToFacts
  <2>4. t = u * (2 * v)
    <3>1. c + 1 \in Nat
      OBVIOUS
    <3>2. TwoTo[j + (c + 1)] = TwoTo[j] * TwoTo[c + 1]
      BY <3>1, TwoToSum
    <3> QED BY <3>2, <2>1, <2>2, <2>3, <1>3
  <2>5. a * u = f * t
    BY <1>1, <1>3, <2>2
  <2>6. PICK w \in Nat : w = f * v
    OBVIOUS
  <2>7. f * t = (2 * w) * u
    <3>1. f * (u * (2 * v)) = (2 * (f * v)) * u
      OBVIOUS
    <3> QED BY <3>1, <2>4, <2>6
  <2>8. a = 2 * w
    <3>1. PICK b \in Nat : b = 2 * w
      OBVIOUS
    <3>2. a * u = b * u
      BY <3>1, <2>5, <2>7
    <3>3. a = b
      BY <3>2, Cancelled
    <3> QED BY <3>1, <3>3
  <2> QED BY <2>8
<1>5. PICK n \in Nat : n = j - d /\ j = n + d
  <2>1. j - d \in Nat /\ j = (j - d) + d
    BY <1>4
  <2> QED BY <2>1
<1>6. PICK q \in Nat \ {0} : q = TwoTo[n]
  BY TwoToFacts
<1>7. a * q = f
  <2>1. TwoTo[j] = q * t
    BY <1>3, <1>5, <1>6, TwoToSum
  <2>2. a * (q * t) = f * t
    BY <2>1, <1>1, <1>3
  <2>3. PICK b \in Nat : b = a * q
    OBVIOUS
  <2>4. a * (q * t) = b * t
    BY <2>3
  <2>5. b * t = f * t
    BY <2>2, <2>4
  <2>6. b = f
    BY <2>5, Cancelled
  <2> QED BY <2>3, <2>6
<1>8. n \in 0 .. Precision - 1
  <2> SUFFICES ASSUME p < n
               PROVE  FALSE
    BY <1>2
  <2>1. p + 1 <= n
    OBVIOUS
  <2>2. TwoTo[p + 1] <= q
    <3>1. p + 1 \in Nat
      OBVIOUS
    <3> QED BY <3>1, <2>1, <1>6, TwoToGrows
  <2>3. a >= 1
    OBVIOUS
  <2>4. PICK b \in Nat : b = 1 /\ b <= a
    BY <2>3
  <2>5. b * q <= a * q
    BY <2>4, ProductGrows
  <2>6. q <= f
    BY <2>4, <2>5, <1>7
  <2>7. TwoTo[p + 1] \in Nat
    BY TwoToFacts
  <2> QED BY <2>2, <2>6, <2>7, <1>1, <1>2
<1> DEFINE InRange(i) == a * TwoTo[i] \in TwoTo[Precision - 1] .. TwoTo[Precision] - 1
<1>9. PICK low \in Nat, high \in Nat :
        /\ low = TwoTo[p] /\ high = TwoTo[p + 1]
        /\ low = TwoTo[Precision - 1] /\ high = TwoTo[Precision]
        /\ low <= f /\ f < high
  <2>1. TwoTo[p] \in Nat /\ TwoTo[p + 1] \in Nat
    BY TwoToFacts
  <2> QED BY <2>1, <1>1, <1>2
<1>10. InRange(n)
  BY <1>6, <1>7, <1>9
<1>11. ASSUME NEW i \in 0 .. Precision - 1, InRange(i)
       PROVE  i = n
  <2>1. i \in Nat
    BY <1>2
  <2>2. PICK v \in Nat : v = TwoTo[i]
    BY <2>1, TwoToFacts
  <2>3. PICK w \in Nat : w = a * v
    OBVIOUS
  <2>4. low <= w /\ w < high
    BY <1>11, <2>2, <2>3, <1>9
  <2>5. CASE i < n
    <3>1. TwoTo[p] <= a * TwoTo[i]
      BY <2>2, <2>3, <2>4, <1>9
    <3>2. TwoTo[p + 1] <= a * TwoTo[n]
      BY <3>1, <2>1, <2>5, MoreBits
    <3> QED BY <3>2, <1>6, <1>7, <1>9
  <2>6. CASE n < i
    <3>1. TwoTo[p] <= a * TwoTo[n]
      BY <1>6, <1>7, <1>9
    <3>2. TwoTo[p + 1] <= a * TwoTo[i]
      BY <3>1, <2>1, <2>6, MoreBits
    <3> QED BY <3>2, <2>2, <2>3, <2>4, <1>9
  <2> QED BY <2>1, <2>5, <2>6
<1>12. (CHOOSE i \in 0 .. Precision - 1 : InRange(i)) = n
  BY <1>8, <1>10, <1>11, Zenon
<1>13. a * TwoTo[n] = fraction
  BY <1>1, <1>6, <1>7
<1> QED BY <1>5, <1>12, <1>13, Zenon DEF Ldexp

\* The sign of a real in its first octet.
SignBit(r) == IF r.negative THEN 64 ELSE 0

LEMMA NormalFields ==
  ASSUME NEW r \in Normals
  PROVE  /\ r.kind = "normal" /\ r.negative \in BOOLEAN
         /\ r.fraction \in Fractions /\ r.exponent \in Exponents
         /\ r = [kind |-> "normal", negative |-> r.negative,
                 fraction |-> r.fraction, exponent |-> r.exponent]
BY Zenon DEF Normals

\* What a normal real is written as: a front, its exponent and its mantissa.
ExponentOctets(r) ==
  LET mantissa == export_mantissa(r.fraction)
      shift == Len(mantissa) * 8 - least_sig_bit(mantissa)
  IN encode_integer(r.exponent - shift, IntOctets)

LEMMA NormalWritten ==
  ASSUME NEW r \in Normals, NEW e, e = ExponentOctets(r), Len(e) \in Nat, Len(e) >= 1
  PROVE  encode_normal_real(r) =
           (Front(SignBit(r), Len(e)) \o e) \o normalise_mantissa(export_mantissa(r.fraction))
<1>0. PICK o : o = normalise_mantissa(export_mantissa(r.fraction))
  OBVIOUS
<1>1. PICK size \in Nat : size = Len(e) /\ size >= 1
  OBVIOUS
<1>2. PICK sign \in Nat : sign = (IF r.negative THEN 64 ELSE 0) /\ sign = SignBit(r)
  BY DEF SignBit
<1>3. encode_normal_real(r) =
        <<128 + sign + (IF size > 3 THEN 3 ELSE size - 1)>>
        \o (IF size > 3 THEN <<size>> ELSE <<>>) \o e \o o
  BY <1>0, <1>1, <1>2 DEF encode_normal_real, ExponentOctets
<1>4. PICK g : g = Front(sign, size) /\ g = Front(SignBit(r), Len(e))
  BY <1>1, <1>2, Zenon
<1>5. CASE size > 3
  <2>1. g = <<128 + sign + 3>> \o <<size>>
    BY <1>4, <1>5 DEF Front, First
  <2>2. encode_normal_real(r) = <<128 + sign + 3>> \o <<size>> \o e \o o
    BY <1>3, <1>5, Zenon
  <2>3. encode_normal_real(r) = (g \o e) \o o
    BY <2>1, <2>2, Zenon
  <2> QED BY <2>3, <1>0, <1>4, Zenon
<1>6. CASE ~(size > 3)
  <2>1. g = <<128 + sign + (size - 1)>>
    <3>1. Front(sign, size) = <<First(sign, size - 1)>>
      BY <1>6, Zenon DEF Front
    <3> QED BY <3>1, <1>4, Zenon DEF First
  <2>2. encode_normal_real(r) = <<128 + sign + (size - 1)>> \o <<>> \o e \o o
    BY <1>3, <1>6, Zenon
  <2>3. <<128 + sign + (size - 1)>> \o <<>> = <<128 + sign + (size - 1)>>
    OBVIOUS
  <2>4. encode_normal_real(r) = (g \o e) \o o
    BY <2>1, <2>2, <2>3, Zenon
  <2> QED BY <2>4, <1>0, <1>4, Zenon
<1> QED BY <1>5, <1>6

\* It is read back with every bit of it, and its mantissa is odd.
LEMMA NormalReadBack ==
  ASSUME NEW r \in Normals, NEW s, s = encode_normal_real(r)
  PROVE  /\ s \in Seq(Octet) /\ Len(s) \in Nat /\ Len(s) > 1
         /\ s[Len(s)] % 2 = 1
         /\ s[(IF s[1] % 4 = 3 THEN s[2] + 2 ELSE (s[1] % 4) + 2) + 1] # 0
         /\ decode_normal_real(s) = {r}
<1>1. PICK fraction \in Fractions, exponent \in Exponents :
        fraction = r.fraction /\ exponent = r.exponent
  BY NormalFields
<1>2. PICK m : m = export_mantissa(fraction)
  OBVIOUS
<1>3. /\ m \in Seq(Octet) /\ Len(m) \in 1 .. RealOctets
      /\ m[1] >= 128 /\ m[Len(m)] # 0
      /\ Magnitude(m) * TwoTo[(RealOctets - Len(m)) * 8]
           = fraction * TwoTo[8 * RealOctets - Precision]
  BY <1>2, MantissaExported
<1>4. PICK l \in Nat \ {0} : l = Len(m) /\ l <= RealOctets
  BY <1>3, RealConstants
<1>5. PICK n, o : n = least_sig_bit(m) /\ o = normalise_mantissa(m)
  OBVIOUS
<1>6. /\ o \in Seq(Octet) /\ Len(o) = l /\ n \in 0 .. 7
      /\ o[1] # 0 /\ o[l] % 2 = 1
      /\ Magnitude(o) * TwoTo[n] = Magnitude(m)
  <2>1. Len(m) = l /\ m[1] >= 128 /\ m[l] # 0 /\ m \in Seq(Octet)
    BY <1>3, <1>4
  <2>2. n = least_sig_bit(m)
    BY <1>5
  <2>3. o = normalise_mantissa(m)
    BY <1>5
  <2> QED BY <2>1, <2>2, <2>3, MantissaShifted
<1>7. PICK k \in Int : /\ k = exponent - (l * 8 - n)
                       /\ -TwoTo[8 * IntOctets - 1] <= k /\ k <= TwoTo[8 * IntOctets - 1] - 1
  <2>1. PICK q \in Nat \ {0} : q = TwoTo[8 * IntOctets - 1]
    <3>1. PICK z \in Nat \ {0} : z = IntOctets
      BY RealConstants
    <3>2. TwoTo[8 * z - 1] \in Nat \ {0}
      BY TwoToSign
    <3> QED BY <3>1, <3>2
  <2>2. PICK w \in Nat : w = 8 * RealOctets /\ l * 8 <= w
    BY <1>4, RealConstants
  <2>3. exponent \in w - q .. q - 1
    BY <2>1, <2>2, DerRealAssumption DEF DerRealAssumption
  <2>4. PICK y \in Nat : y = l * 8 - n /\ y <= w
    <3>1. l * 8 - n \in Nat /\ l * 8 - n <= w
      BY <1>6, <2>2
    <3> QED BY <3>1
  <2>5. exponent - y \in Int /\ -q <= exponent - y /\ exponent - y <= q - 1
    BY <2>3, <2>4
  <2> QED BY <2>1, <2>4, <2>5
<1>8. PICK e : e = encode_integer(k, IntOctets)
  OBVIOUS
<1>9. e \in Seq(Octet) /\ Len(e) \in 1 .. IntOctets /\ Signed(decode_integer(e, IntOctets)) = k
  BY <1>7, <1>8, ExponentReadBack
<1>10. PICK size \in Nat : size = Len(e) /\ size >= 1 /\ size < 256
  BY <1>9, RealConstants
<1>11. PICK sign \in Nat : /\ sign = SignBit(r) /\ (sign = 0 \/ sign = 64)
                           /\ r.negative <=> sign = 64
  BY NormalFields DEF SignBit
<1>12. s = (Front(sign, size) \o e) \o o
  <2>1. k = r.exponent - (Len(m) * 8 - n)
    BY <1>1, <1>4, <1>7
  <2>2. m = export_mantissa(r.fraction) /\ n = least_sig_bit(m) /\ o = normalise_mantissa(m)
    BY <1>1, <1>2, <1>5, Zenon
  <2>3. e = ExponentOctets(r)
    BY <2>1, <2>2, <1>8, Zenon DEF ExponentOctets
  <2>4. Len(e) \in Nat /\ Len(e) >= 1
    BY <1>10
  <2>5. encode_normal_real(r) = (Front(SignBit(r), Len(e)) \o e) \o o
    BY <2>2, <2>3, <2>4, NormalWritten, Zenon
  <2> QED BY <2>5, <1>10, <1>11, Zenon
<1>13. PICK start : start = Start(s)
  OBVIOUS
<1>14. Packed(e, size, o, sign, s, start)
  <2>1. o # <<>>
    BY <1>6
  <2> QED BY <2>1, <1>6, <1>9, <1>10, <1>11, <1>12, <1>13, Zenon DEF Packed
<1>15. s \in Seq(Octet) /\ start \in Nat /\ Len(s) >= start + size + 1
  BY <1>14, RealLayout
<1>16. s[1] % 4 = 3 => s[2] = size
  BY <1>14, RealLayout, ZenonT(30)
<1>17. s[1] % 4 # 3 => (s[1] % 4) + 1 = size
  BY <1>14, RealLayout
<1>18. SubSeq(s, start + 1, start + size) = e
  BY <1>14, RealLayout
<1>19. SubSeq(s, start + size + 1, Len(s)) = o
  BY <1>14, RealLayout
<1>20. s[start + size + 1] = o[1] /\ s[Len(s)] = o[Len(o)]
  BY <1>14, RealLayout
<1>21. Accepted(s[1])
  BY <1>14, RealLayout
<1>22. IsSet(s[1], 6) <=> sign = 64
  BY <1>14, RealLayout
<1>23. Len(s) \in Nat /\ Len(s) > 1
  <2>1. Len(s) \in Nat
    BY <1>15, OctetStrings
  <2> QED BY <2>1, <1>10, <1>15 DEF Start
<1>24. s[Len(s)] % 2 = 1
  BY <1>6, <1>20
<1>25. s[(IF s[1] % 4 = 3 THEN s[2] + 2 ELSE (s[1] % 4) + 2) + 1] # 0
  <2>1. PICK first \in Nat : first = s[1]
    BY <1>15, <1>23, OctetStrings
  <2>2. CASE first % 4 = 3
    <3>1. start = 2 /\ s[2] = size
      BY <2>1, <2>2, <1>13, <1>16 DEF Start
    <3>2. (IF s[1] % 4 = 3 THEN s[2] + 2 ELSE (s[1] % 4) + 2) + 1 = start + size + 1
      BY <2>1, <2>2, <3>1
    <3> QED BY <3>2, <1>6, <1>20, Zenon
  <2>3. CASE first % 4 # 3
    <3>1. start = 1 /\ (first % 4) + 1 = size
      BY <2>1, <2>3, <1>13, <1>17 DEF Start
    <3>2. (IF s[1] % 4 = 3 THEN s[2] + 2 ELSE (s[1] % 4) + 2) + 1 = start + size + 1
      BY <2>1, <2>3, <3>1
    <3> QED BY <3>2, <1>6, <1>20, Zenon
  <2> QED BY <2>2, <2>3
<1>26. PICK a \in Nat : a = Magnitude(o) /\ a % 2 = 1
  <2>1. PICK a \in Nat : a = Magnitude(o)
    BY <1>6, MagnitudeDigits
  <2>2. o[l] = (a \div TwoTo[(l - l) * 8]) % 256
    <3>1. l \in 1 .. l
      OBVIOUS
    <3> QED BY <3>1, <2>1, <1>6, MagnitudeDigits
  <2>3. (l - l) * 8 = 0 /\ a \div 1 = a
    OBVIOUS
  <2>4. o[l] = a % 256
    BY <2>2, <2>3, TwoToFacts
  <2>5. (a % 256) % 2 = a % 2
    OBVIOUS
  <2> QED BY <2>1, <2>4, <2>5, <1>6
<1>27. PICK j \in Nat, d \in Nat : /\ j = n + (RealOctets - l) * 8
                                   /\ d = 8 * RealOctets - Precision
                                   /\ k + Precision - (j - d) = exponent
                                   /\ a * TwoTo[j] = fraction * TwoTo[d]
  <2>1. PICK h \in Nat : h = (RealOctets - l) * 8 /\ h = RealOctets * 8 - l * 8
    <3>1. (RealOctets - l) * 8 \in Nat /\ (RealOctets - l) * 8 = RealOctets * 8 - l * 8
      BY <1>4, RealConstants
    <3> QED BY <3>1
  <2>2. PICK d \in Nat : d = 8 * RealOctets - Precision
    <3>1. 8 * RealOctets - Precision \in Nat
      BY RealConstants
    <3> QED BY <3>1
  <2>3. n \in Nat
    BY <1>6
  <2>4. PICK u \in Nat, v \in Nat, t \in Nat : u = TwoTo[n] /\ v = TwoTo[h] /\ t = TwoTo[d]
    BY <2>3, TwoToFacts
  <2>5. TwoTo[n + h] = u * v
    BY <2>3, <2>4, TwoToSum
  <2>6. (a * u) * v = fraction * t
    <3>1. a * u = Magnitude(m)
      BY <2>4, <1>6, <1>26
    <3>2. Magnitude(m) * v = fraction * t
      BY <2>1, <2>2, <2>4, <1>3, <1>4
    <3> QED BY <3>1, <3>2
  <2>7. a * (u * v) = (a * u) * v
    OBVIOUS
  <2>8. PICK j \in Nat : j = n + h
    BY <2>3
  <2>9. a * TwoTo[j] = fraction * TwoTo[d]
    BY <2>4, <2>5, <2>6, <2>7, <2>8
  <2>10. k + Precision - (j - d) = exponent
    <3>1. exponent \in Int
      BY <1>7, DerRealAssumption DEF DerRealAssumption
    <3>2. PICK w \in Nat : w = RealOctets * 8 /\ w = 8 * RealOctets
      BY RealConstants
    <3>3. PICK y \in Nat, p \in Nat : y = l * 8 /\ p = Precision
      BY RealConstants
    <3> QED BY <3>1, <3>2, <3>3, <2>1, <2>2, <2>3, <2>8, <1>7
  <2> QED BY <2>1, <2>2, <2>8, <2>9, <2>10
<1>28. Ldexp(r.negative, a, k) =
         [kind |-> "normal", negative |-> r.negative, fraction |-> fraction,
          exponent |-> k + Precision - (j - d)]
  BY <1>26, <1>27, LdexpIs
<1>29. Ldexp(r.negative, a, k) = r
  BY <1>28, <1>27, <1>1, NormalFields, Zenon
<1>30. IsSet(s[1], 6) = r.negative
  <2>1. IsSet(s[1], 6) \in BOOLEAN /\ r.negative \in BOOLEAN
    BY NormalFields, Zenon DEF IsSet
  <2> QED BY <2>1, <1>11, <1>22, Zenon
<1>31. decode_normal_real(s) = {r}
  <2>1. PICK first \in Nat : first = s[1]
    BY <1>15, <1>23, OctetStrings
  <2> DEFINE long == s[1] % 4 = 3
             length == IF long THEN s[2] ELSE (s[1] % 4) + 1
             from == IF long THEN 2 ELSE 1
             body == IF Accepted(s[1]) /\ Len(s) >= from + length + 1
                     THEN {Ldexp(IsSet(s[1], 6), Magnitude(SubSeq(s, from + length + 1, Len(s))),
                                 Signed(decode_integer(SubSeq(s, from + 1, from + length),
                                                       IntOctets)))}
                     ELSE {}
  <2>2. decode_normal_real(s) = body
    BY Zenon DEF decode_normal_real
  <2>3. from = start
    BY <1>13, Zenon DEF Start
  <2>4. length = size
    <3>1. CASE long
      BY <3>1, <1>16
    <3>2. CASE ~long
      BY <3>2, <1>17
    <3> QED BY <3>1, <3>2
  <2> HIDE DEF length, from
  <2>5. body = {Ldexp(IsSet(s[1], 6), Magnitude(o), Signed(decode_integer(e, IntOctets)))}
    <3>1. Len(s) >= from + length + 1
      BY <2>3, <2>4, <1>15
    <3> QED BY <3>1, <2>3, <2>4, <1>18, <1>19, <1>21, Zenon
  <2> HIDE DEF body
  <2> QED BY <2>2, <2>5, <1>9, <1>26, <1>29, <1>30, Zenon
<1> QED BY <1>15, <1>23, <1>24, <1>25, <1>31, Zenon


\* The others are read back as well, but for zero, and subnormal ones are the
\* only ones refused.
LEMMA SpecialFields ==
  ASSUME NEW r \in Specials
  PROVE  \/ r.kind = "nan" /\ r = [kind |-> "nan"]
         \/ /\ r.kind \in {"zero", "infinity", "subnormal"} /\ r.negative \in BOOLEAN
            /\ r = [kind |-> r.kind, negative |-> r.negative]
<1>1. CASE r \in [kind : {"nan"}]
  BY <1>1
<1>2. CASE r \in [kind : {"zero", "infinity", "subnormal"}, negative : BOOLEAN]
  <2>1. r.kind \in {"zero", "infinity", "subnormal"} /\ r.negative \in BOOLEAN
    BY <1>2
  <2>2. r = [kind |-> r.kind, negative |-> r.negative]
    BY <1>2
  <2> QED BY <2>1, <2>2, Zenon
<1> QED BY <1>1, <1>2 DEF Specials

LEMMA SpecialWritten ==
  ASSUME NEW r \in Specials, r # PlusZero
  PROVE  /\ encode_special_real(r) = {} => r.kind = "subnormal"
         /\ \A c \in encode_special_real(r) : c # <<>> /\ decode_special_real(c[1]) = {r}
                                              /\ Len(c) = 1
<1>1. CASE r.kind = "nan" /\ r = [kind |-> "nan"]
  <2>1. encode_special_real(r) = {<<66>>}
    BY <1>1 DEF encode_special_real
  <2>2. decode_special_real(66) = {r}
    BY <1>1 DEF decode_special_real
  <2>3. <<66>> # <<>> /\ <<66>>[1] = 66 /\ Len(<<66>>) = 1
    OBVIOUS
  <2> QED BY <2>1, <2>2, <2>3, Zenon
<1>2. ASSUME r.kind = "infinity", r.negative = TRUE, r = [kind |-> r.kind, negative |-> r.negative]
      PROVE  /\ encode_special_real(r) = {<<65>>}
             /\ decode_special_real(65) = {r}
  <2>1. encode_special_real(r) = {<<65>>}
    BY <1>2 DEF encode_special_real
  <2>2. decode_special_real(65) = {[kind |-> "infinity", negative |-> TRUE]}
    BY DEF decode_special_real
  <2> QED BY <2>1, <2>2, <1>2, Zenon
<1>3. ASSUME r.kind = "infinity", r.negative = FALSE, r = [kind |-> r.kind, negative |-> r.negative]
      PROVE  /\ encode_special_real(r) = {<<64>>}
             /\ decode_special_real(64) = {r}
  <2>1. encode_special_real(r) = {<<64>>}
    BY <1>3 DEF encode_special_real
  <2>2. decode_special_real(64) = {[kind |-> "infinity", negative |-> FALSE]}
    BY DEF decode_special_real
  <2> QED BY <2>1, <2>2, <1>3, Zenon
<1>4. ASSUME r.kind = "zero", r.negative = TRUE, r = [kind |-> r.kind, negative |-> r.negative]
      PROVE  /\ encode_special_real(r) = {<<67>>}
             /\ decode_special_real(67) = {r}
  <2>1. encode_special_real(r) = {<<67>>}
    BY <1>4 DEF encode_special_real
  <2>2. decode_special_real(67) = {[kind |-> "zero", negative |-> TRUE]}
    BY DEF decode_special_real
  <2> QED BY <2>1, <2>2, <1>4, Zenon
<1>5. ASSUME r.kind = "zero", r.negative = FALSE, r = [kind |-> r.kind, negative |-> r.negative]
      PROVE  FALSE
  BY <1>5, Zenon DEF PlusZero
<1>6. CASE r.kind = "subnormal"
  <2>1. encode_special_real(r) = {}
    BY <1>6 DEF encode_special_real
  <2> QED BY <2>1, <1>6
<1>7. ASSUME r.kind = "infinity" \/ r.kind = "zero", r.negative \in BOOLEAN,
             r = [kind |-> r.kind, negative |-> r.negative]
      PROVE  \E o \in {64, 65, 67} : encode_special_real(r) = {<<o>>} /\ decode_special_real(o) = {r}
  <2>1. r.negative = TRUE \/ r.negative = FALSE
    BY <1>7, Zenon
  <2>2. 64 \in {64, 65, 67} /\ 65 \in {64, 65, 67} /\ 67 \in {64, 65, 67}
    OBVIOUS
  <2> QED BY <2>1, <2>2, <1>2, <1>3, <1>4, <1>5, <1>7, Zenon
<1>8. CASE r.kind = "infinity" \/ r.kind = "zero"
  <2>1. r.negative \in BOOLEAN /\ r = [kind |-> r.kind, negative |-> r.negative]
    BY <1>8, SpecialFields
  <2>2. PICK o \in {64, 65, 67} : encode_special_real(r) = {<<o>>} /\ decode_special_real(o) = {r}
    BY <2>1, <1>7, <1>8, Zenon
  <2>3. <<o>> # <<>> /\ <<o>>[1] = o /\ Len(<<o>>) = 1
    OBVIOUS
  <2> QED BY <2>2, <2>3, Zenon
<1> QED BY <1>1, <1>6, <1>8, SpecialFields

\* What a real is written as is read as it.
LEMMA RealRoundTrip ==
  ASSUME NEW r \in Normals \cup Specials, r # PlusZero
  PROVE  /\ encode_real(r) = {} => r.kind = "subnormal"
         /\ \A c \in encode_real(r) : decode_real(c) = {r}
<1>1. CASE r \in Normals
  <2>1. encode_real(r) = {encode_normal_real(r)}
    BY <1>1, NormalFields DEF encode_real
  <2>2. PICK c : c = encode_normal_real(r)
    OBVIOUS
  <2>3. decode_normal_real(c) = {r}
    BY <1>1, <2>2, NormalReadBack
  <2>4. decode_real(c) = {r}
    <3>1. Len(c) # 0 /\ Len(c) # 1
      <4>1. Len(c) \in Nat /\ Len(c) > 1
        BY <1>1, <2>2, NormalReadBack
      <4>2. PICK n \in Nat : n = Len(c) /\ n > 1
        BY <4>1
      <4>3. n # 0 /\ n # 1
        BY <4>2
      <4> QED BY <4>2, <4>3
    <3>2. decode_real(c) = decode_normal_real(c)
      BY <3>1, Zenon DEF decode_real
    <3> QED BY <2>3, <3>2, Zenon
  <2> QED BY <2>1, <2>2, <2>4, Zenon
<1>2. CASE r \in Specials
  <2>1. r.kind # "normal"
    BY <1>2, SpecialFields
  <2>2. encode_real(r) = encode_special_real(r)
    BY <2>1, Zenon DEF encode_real
  <2>3. ASSUME NEW c \in encode_special_real(r)
        PROVE  decode_real(c) = {r}
    <3>1. Len(c) = 1 /\ decode_special_real(c[1]) = {r}
      BY <1>2, <2>3, SpecialWritten
    <3> QED BY <3>1 DEF decode_real
  <2>4. encode_special_real(r) = {} => r.kind = "subnormal"
    BY <1>2, SpecialWritten
  <2> QED BY <2>2, <2>3, <2>4, Zenon
<1> QED BY <1>1, <1>2

-----------------------------------------------------------------------------
(***************************************************************************)
(* The specification, of reals.                                            *)
(***************************************************************************)

RealsSound ==
  value.kind = "real" =>
    /\ value.real \in Normals \cup Specials
    /\ result.outcome \in {"written", "read", "thrown"}
    /\ result.outcome = "written" => contents \in encode_real(value.real)
    /\ result.outcome = "read" =>
         \E c \in encode_real(value.real) : result.value \in decode_real(c)
    /\ result.outcome = "thrown" =>
         \/ encode_real(value.real) = {}
         \/ \E c \in encode_real(value.real) : decode_real(c) = {}

LEMMA RealsInit == Init => RealsSound
  BY DEF Init, RealsSound

LEMMA RealWritten ==
  ASSUME NEW r \in Normals \cup Specials, WriteReal(r)
  PROVE  RealsSound'
<1>1. value'.kind = "real" /\ value'.real = r
  BY DEF WriteReal, Encode
<1>2. CASE encode_real(r) = {}
  <2>1. result'.outcome = "thrown"
    BY <1>2 DEF WriteReal, Encode
  <2> QED BY <1>1, <1>2, <2>1 DEF RealsSound
<1>3. CASE encode_real(r) # {}
  <2>1. result'.outcome = "written" /\ contents' \in encode_real(r)
    BY <1>3 DEF WriteReal, Encode
  <2> QED BY <1>1, <2>1 DEF RealsSound
<1> QED BY <1>2, <1>3

LEMMA RealDecoded ==
  ASSUME RealsSound, ReadReal
  PROVE  RealsSound'
<1>1. /\ value.kind = "real" /\ value' = value /\ contents' = contents
      /\ result.outcome = "written"
  BY DEF ReadReal
<1>2. value.real \in Normals \cup Specials /\ contents \in encode_real(value.real)
  BY <1>1 DEF RealsSound
<1>3. CASE decode_real(contents) = {}
  <2>1. result'.outcome = "thrown"
    BY <1>3 DEF ReadReal, Decode
  <2> QED BY <1>1, <1>2, <1>3, <2>1 DEF RealsSound
<1>4. CASE decode_real(contents) # {}
  <2>1. PICK v \in decode_real(contents) : result' = [outcome |-> "read", value |-> v]
    BY <1>4 DEF ReadReal, Decode
  <2>2. result'.outcome = "read" /\ result'.value \in decode_real(contents)
    BY <2>1
  <2> QED BY <1>1, <1>2, <2>2 DEF RealsSound
<1> QED BY <1>3, <1>4

LEMMA RealsStep == RealsSound /\ [Next]_vars => RealsSound'
<1> SUFFICES ASSUME RealsSound, [Next]_vars
             PROVE  RealsSound'
  OBVIOUS
<1>1. ASSUME NEW type \in Types, NEW n \in Values, WriteInteger(type, n)
      PROVE  RealsSound'
  <2>1. value'.kind = "integer"
    BY <1>1 DEF WriteInteger, Encode
  <2> QED BY <2>1 DEF RealsSound
<1>2. ASSUME NEW r \in Normals \cup Specials, WriteReal(r)
      PROVE  RealsSound'
  BY <1>2, RealWritten
<1>3. ASSUME NEW t \in Times, WriteTime(t)
      PROVE  RealsSound'
  <2>1. value'.kind = "time"
    BY <1>3 DEF WriteTime, Encode
  <2> QED BY <2>1 DEF RealsSound
<1>4. ASSUME NEW octets \in Foreign, WriteAny(octets)
      PROVE  RealsSound'
  <2>1. value'.kind = "any"
    BY <1>4 DEF WriteAny, Encode
  <2> QED BY <2>1 DEF RealsSound
<1>5. CASE ReadInteger
  BY <1>5 DEF ReadInteger, RealsSound
<1>6. CASE ReadAny
  BY <1>6 DEF ReadAny, RealsSound
<1>7. CASE ReadReal
  BY <1>7, RealDecoded
<1>8. CASE ReadTime
  BY <1>8 DEF ReadTime, RealsSound
<1>9. CASE UNCHANGED vars
  BY <1>9, Zenon DEF vars, RealsSound
<1> QED BY <1>1, <1>2, <1>3, <1>4, <1>5, <1>6, <1>7, <1>8, <1>9, Zenon
        DEF Next, Encoding, Done

LEMMA RealsHold == Spec => []RealsSound
<1> QED BY RealsInit, RealsStep, PTL DEF Spec

\* Every real that can be written at all is read back with every bit of it,
\* but for zero, and none but subnormal ones are refused
\* (asn_der/util.hpp:169-288).
THEOREM RealsAreReadBack == Spec => []RealReadBack
<1>1. RealsSound => RealReadBack
  <2> SUFFICES ASSUME RealsSound, value.kind = "real", value.real # PlusZero
               PROVE  /\ result.outcome = "read" => result.value = value.real
                      /\ result.outcome = "thrown" => value.real.kind = "subnormal"
    BY DEF RealReadBack
  <2>1. PICK r \in Normals \cup Specials : r = value.real /\ r # PlusZero
    BY DEF RealsSound
  <2>2. ASSUME result.outcome = "read"
        PROVE  result.value = r
    <3>1. PICK c \in encode_real(r) : result.value \in decode_real(c)
      BY <2>1, <2>2 DEF RealsSound
    <3> QED BY <3>1, <2>1, RealRoundTrip
  <2>3. ASSUME result.outcome = "thrown"
        PROVE  r.kind = "subnormal"
    <3>1. CASE encode_real(r) = {}
      BY <3>1, <2>1, RealRoundTrip
    <3>2. CASE encode_real(r) # {}
      <4>1. PICK c \in encode_real(r) : decode_real(c) = {}
        BY <2>1, <2>3, <3>2 DEF RealsSound
      <4> QED BY <4>1, <2>1, RealRoundTrip
    <3> QED BY <3>1, <3>2
  <2> QED BY <2>1, <2>2, <2>3
<1> QED BY <1>1, RealsHold, PTL

\* The mantissa of a normal real is written odd and without octets of zeros in
\* front, so that there is one way to write it (asn_der/util.hpp:149).
THEOREM MantissasAreNormalised == Spec => []MantissaNormalised
<1>1. RealsSound => MantissaNormalised
  <2> SUFFICES ASSUME RealsSound, value.kind = "real", value.real.kind = "normal",
                      result.outcome = "written"
               PROVE  /\ contents[Len(contents)] % 2 = 1
                      /\ contents[(IF contents[1] % 4 = 3 THEN contents[2] + 2
                                   ELSE (contents[1] % 4) + 2) + 1] # 0
                      /\ \A i \in DOMAIN contents : contents[i] \in Octet
    BY Zenon DEF MantissaNormalised
  <2>1. PICK r : r = value.real /\ r \in Normals \cup Specials /\ r.kind = "normal"
    BY DEF RealsSound
  <2>2. r \in Normals
    BY <2>1, SpecialFields
  <2>3. contents = encode_normal_real(r)
    <3>1. contents \in encode_real(r)
      BY <2>1 DEF RealsSound
    <3> QED BY <3>1, <2>1 DEF encode_real
  <2>4. contents \in Seq(Octet)
    BY <2>2, <2>3, NormalReadBack
  <2>5. contents[Len(contents)] % 2 = 1
    BY <2>2, <2>3, NormalReadBack
  <2>6. contents[(IF contents[1] % 4 = 3 THEN contents[2] + 2
                  ELSE (contents[1] % 4) + 2) + 1] # 0
    BY <2>2, <2>3, NormalReadBack, Zenon
  <2>7. \A i \in DOMAIN contents : contents[i] \in Octet
    BY <2>4
  <2> QED BY <2>5, <2>6, <2>7, Zenon
<1> QED BY <1>1, RealsHold, PTL
=============================================================================
