----------------------- MODULE PacketDeserialiserProofs -----------------------
(***************************************************************************)
(* However the peer's octets are cut into chunks and whichever callbacks   *)
(* throw: until an exception drops data, what is looked at next always     *)
(* begins with a packet, every packet before it has been handed on, and    *)
(* the buffer keeps to its limit.                                          *)
(***************************************************************************)
EXTENDS PacketDeserialiser, SequenceTheorems, TLAPS

\* What the call works on, or what is kept between calls.
Held == IF pc = "direct" THEN data ELSE buf

\* How many octets of it are done with.
Done == IF pc = "idle" THEN 0 ELSE pos

\* Where in what the peer sends it begins.
Begin == arrived - Len(Held)

AtBound(n) == \E k \in 1 .. Len(Bounds) : Bounds[k] = n

\* s is what the peer sends from b on.
Follows(s, b) == \A i \in 1 .. Len(s) : s[i] = b + i

\* Every packet from m up to n is among ds.
AllOf(m, n, ds) ==
  \A k \in PacketIds :
    Bounds[k] >= m /\ Bounds[k + 1] <= n
      => \E i \in 1 .. Len(ds) : ds[i] = Packet(k)

Inv ==
  /\ TypeOK
  /\ delivered \in Seq(Seq(1 .. Last))
  /\ pc = "direct" => buf = <<>>
  /\ Begin \in Nat /\ Follows(Held, Begin) /\ Done <= Len(Held)
  /\ ~skipped =>
       /\ opened <= Begin
       /\ AtBound(Begin) /\ AtBound(Begin + Done)
       /\ AllOf(opened, Begin + Done, delivered)
  /\ NothingWaits

-----------------------------------------------------------------------------

LEMMA BoundFacts ==
  /\ Bounds \in Seq(Nat) /\ Len(Bounds) \in Nat /\ Len(Bounds) >= 1
  /\ \A k \in 1 .. Len(Bounds) : Bounds[k] \in Nat /\ Bounds[k] <= Last
  /\ Last \in Nat
  /\ \A k \in PacketIds :
       /\ k \in 1 .. Len(Bounds) /\ k + 1 \in 1 .. Len(Bounds)
       /\ Size(k) \in Nat /\ Size(k) > 0 /\ Bounds[k] + Size(k) = Bounds[k + 1]
  /\ \A j, k \in 1 .. Len(Bounds) : Bounds[j] <= Bounds[k] => j <= k
<1>1. Bounds \in Seq(Nat) /\ Len(Bounds) \in Nat /\ Len(Bounds) >= 1
  BY PacketAssumption DEF PacketAssumption
<1>2. \A k \in 1 .. Len(Bounds) : Bounds[k] \in Nat
  BY <1>1, ElementOfSeq
<1>3. \A j, k \in 1 .. Len(Bounds) : j < k => Bounds[j] < Bounds[k]
  BY PacketAssumption DEF PacketAssumption
<1>4. Last \in Nat
  BY <1>1, <1>2 DEF Last
<1>5. \A k \in 1 .. Len(Bounds) : Bounds[k] <= Last
  BY <1>1, <1>2, <1>3 DEF Last
<1>6. ASSUME NEW k \in PacketIds
      PROVE  /\ k \in 1 .. Len(Bounds) /\ k + 1 \in 1 .. Len(Bounds)
             /\ Size(k) \in Nat /\ Size(k) > 0 /\ Bounds[k] + Size(k) = Bounds[k + 1]
  <2>1. k \in 1 .. Len(Bounds) /\ k + 1 \in 1 .. Len(Bounds) /\ k < k + 1
    BY <1>1 DEF PacketIds
  <2>2. Bounds[k] \in Nat /\ Bounds[k + 1] \in Nat /\ Bounds[k] < Bounds[k + 1]
    BY <2>1, <1>2, <1>3
  <2> QED BY <2>1, <2>2 DEF Size
<1>7. \A j, k \in 1 .. Len(Bounds) : Bounds[j] <= Bounds[k] => j <= k
  BY <1>2, <1>3
<1> QED BY <1>1, <1>2, <1>4, <1>5, <1>6, <1>7

LEMMA StateFacts ==
  ASSUME Inv
  PROVE  /\ buf \in Seq(1 .. Last) /\ data \in Seq(1 .. Last) /\ Held \in Seq(1 .. Last)
         /\ Len(buf) \in Nat /\ Len(Held) \in Nat /\ Len(Held) <= Max
         /\ Max \in Nat /\ pos \in Nat /\ Done \in Nat
         /\ arrived \in Nat /\ arrived <= Last /\ opened \in Nat /\ opened <= arrived
         /\ Begin \in Nat /\ Begin + Len(Held) = arrived /\ Begin <= arrived
         /\ skipped \in BOOLEAN
         /\ delivered \in Seq(Seq(1 .. Last))
<1>1. TypeOK /\ Begin \in Nat /\ delivered \in Seq(Seq(1 .. Last))
  BY DEF Inv
<1>2. /\ buf \in Seq(1 .. Last) /\ data \in Seq(1 .. Last) /\ Len(buf) <= Max /\ Len(data) <= Max
      /\ pos \in 0 .. Max /\ arrived \in 0 .. Last /\ opened \in 0 .. arrived
  BY <1>1 DEF TypeOK
<1>3. Held \in Seq(1 .. Last) /\ Len(Held) <= Max
  BY <1>2 DEF Held
<1>4. Len(buf) \in Nat /\ Len(Held) \in Nat
  BY <1>2, <1>3, LenProperties
<1>5. Max \in Nat
  BY PacketAssumption DEF PacketAssumption
<1>6. skipped \in BOOLEAN
  BY <1>1, Zenon DEF TypeOK
<1>7. Begin + Len(Held) = arrived
  BY <1>1, <1>2, <1>4 DEF Begin
<1> QED BY <1>1, <1>2, <1>3, <1>4, <1>5, <1>6, <1>7, BoundFacts DEF Done

\* What is looked at next is what the peer sends from there on.
LEMMA SpanFacts ==
  ASSUME Inv, pc # "idle"
  PROVE  /\ pos \in Nat /\ pos <= Len(Held) /\ Done = pos
         /\ Span \in Seq(1 .. Last) /\ Len(Span) \in Nat /\ Len(Span) = Len(Held) - pos
         /\ \A i \in 1 .. Len(Span) : Span[i] = Begin + pos + i
<1>1. pos \in Nat /\ Done = pos /\ pos <= Len(Held)
  BY StateFacts DEF Done, Inv
<1>2. Span = SubSeq(Held, pos + 1, Len(Held))
  BY Zenon DEF Span, From, Held
<1>3. \A i \in pos + 1 .. Len(Held) : Held[i] \in 1 .. Last
  <2>1. \A i \in 1 .. Len(Held) : Held[i] \in 1 .. Last
    BY StateFacts, ElementOfSeq
  <2>2. \A i \in pos + 1 .. Len(Held) : i \in 1 .. Len(Held)
    BY <1>1, StateFacts
  <2> QED BY <2>1, <2>2
<1>4. /\ Span \in Seq(1 .. Last) /\ Len(Span) = Len(Held) - pos
      /\ \A i \in 1 .. Len(Held) - pos : Span[i] = Held[pos + i]
  <2> DEFINE s == SubSeq(Held, pos + 1, Len(Held))
  <2>1. /\ s \in Seq(1 .. Last)
        /\ Len(s) = IF pos + 1 <= Len(Held) THEN Len(Held) - (pos + 1) + 1 ELSE 0
        /\ \A i \in 1 .. Len(Held) - (pos + 1) + 1 : s[i] = Held[(pos + 1) + i - 1]
    BY <1>1, <1>3, StateFacts, SubSeqProperties
  <2> HIDE DEF s
  <2>2. Len(s) = Len(Held) - pos
    BY <2>1, <1>1, StateFacts
  <2>3. ASSUME NEW i \in 1 .. Len(Held) - pos
        PROVE  s[i] = Held[pos + i]
    <3>1. i \in 1 .. Len(Held) - (pos + 1) + 1 /\ (pos + 1) + i - 1 = pos + i
      BY <1>1, StateFacts
    <3>2. s[i] = Held[(pos + 1) + i - 1]
      BY <3>1, <2>1
    <3> QED BY <3>1, <3>2
  <2> QED BY <2>1, <2>2, <2>3, <1>2 DEF s
<1>5. ASSUME NEW i \in 1 .. Len(Span)
      PROVE  Span[i] = Begin + pos + i
  <2>1. i \in 1 .. Len(Held) - pos /\ pos + i \in 1 .. Len(Held)
    BY <1>1, <1>4, StateFacts
  <2>2. Held[pos + i] = Begin + (pos + i)
    BY <2>1 DEF Inv, Follows
  <2> QED BY <2>1, <2>2, <1>1, <1>4, StateFacts
<1> QED BY <1>1, <1>4, <1>5, StateFacts

LEMMA HasNextSize ==
  ASSUME Inv, pc # "idle", NEW n \in HasNext(Span)
  PROVE  n \in Nat /\ n <= Len(Span)
<1>1. Len(Span) \in Nat
  BY SpanFacts
<1>2. \A k \in PacketIds : Size(k) \in Nat
  BY BoundFacts
<1> QED BY <1>1, <1>2 DEF HasNext

\* Where the octets looked at begin with a packet, that is the one has_next
\* sees, if it sees one.
LEMMA HasNextFacts ==
  ASSUME Inv, pc # "idle", ~skipped, NEW n \in HasNext(Span)
  PROVE  /\ n # 0 => \E k \in PacketIds : Bounds[k] = Begin + pos /\ n = Size(k)
         /\ n = 0 => \A k \in PacketIds \ Malformed :
                       Bounds[k] = Begin + pos => Len(Span) < Size(k)
<1>1. AtBound(Begin + pos) /\ Begin \in Nat /\ pos \in Nat /\ Begin + pos + Len(Span) = arrived
      /\ arrived <= Last
  BY SpanFacts, StateFacts DEF Inv
<1>2. CASE Span = <<>>
  <2>1. n = 0 /\ Len(Span) = 0
    BY <1>2 DEF HasNext
  <2> QED BY <2>1, BoundFacts
<1>3. CASE Span # <<>>
  <2>1. Len(Span) \in Nat /\ Len(Span) >= 1 /\ Span[1] = Begin + pos + 1
    BY <1>3, SpanFacts
  <2>2. PICK j \in 1 .. Len(Bounds) : Bounds[j] = Begin + pos
    BY <1>1 DEF AtBound
  <2>3. j # Len(Bounds)
    BY <2>1, <2>2, <1>1, BoundFacts DEF Last
  <2>4. j \in PacketIds
    BY <2>3, BoundFacts DEF PacketIds
  <2> DEFINE here == { k \in PacketIds : Span # <<>> /\ Span[1] = Bounds[k] + 1 }
  <2>5. j \in here
    BY <2>1, <2>2, <2>4, <1>3
  <2>6. \A k \in here : k \in PacketIds /\ Bounds[k] = Begin + pos
    <3> SUFFICES ASSUME NEW k \in here
                 PROVE  k \in PacketIds /\ Bounds[k] = Begin + pos
      OBVIOUS
    <3>1. k \in PacketIds /\ Span[1] = Bounds[k] + 1
      OBVIOUS
    <3>2. Bounds[k] \in Nat
      BY <3>1, BoundFacts
    <3> QED BY <3>1, <3>2, <2>1, <1>1
  <2>7. n \in { IF k \notin Malformed /\ Size(k) <= Len(Span) THEN Size(k) ELSE 0 : k \in here }
    BY <2>5, <1>3 DEF HasNext
  <2> HIDE DEF here
  <2>8. PICK k \in here : n = IF k \notin Malformed /\ Size(k) <= Len(Span) THEN Size(k) ELSE 0
    BY <2>7
  <2>9. k \in PacketIds /\ Bounds[k] = Begin + pos
    BY <2>6
  <2>10. \A l \in PacketIds : Bounds[l] = Begin + pos => l = k
    <3> SUFFICES ASSUME NEW l \in PacketIds, Bounds[l] = Begin + pos
                 PROVE  l = k
      OBVIOUS
    <3>1. l \in 1 .. Len(Bounds) /\ k \in 1 .. Len(Bounds) /\ Bounds[l] = Bounds[k]
      BY <2>9, BoundFacts
    <3>2. l <= k /\ k <= l
      BY <3>1, BoundFacts, SMTT(20)
    <3> QED BY <3>1, <3>2
  <2>11. Size(k) \in Nat /\ Size(k) > 0
    BY <2>9, BoundFacts
  <2> QED BY <2>1, <2>8, <2>9, <2>10, <2>11
<1> QED BY <1>2, <1>3

\* What the callback is given.
LEMMA GivenFacts ==
  ASSUME Inv, pc # "idle", NEW n \in HasNext(Span)
  PROVE  /\ SubSeq(Span, 1, n) \in Seq(1 .. Last)
         /\ \A k \in PacketIds :
              Bounds[k] = Begin + pos /\ n = Size(k) => SubSeq(Span, 1, n) = Packet(k)
<1>1. n \in Nat /\ n <= Len(Span) /\ Len(Span) \in Nat /\ Span \in Seq(1 .. Last)
  BY HasNextSize, SpanFacts
<1>2. \A i \in 1 .. n : Span[i] \in 1 .. Last
  <2>1. \A i \in 1 .. Len(Span) : Span[i] \in 1 .. Last
    BY <1>1, ElementOfSeq
  <2>2. \A i \in 1 .. n : i \in 1 .. Len(Span)
    BY <1>1
  <2> QED BY <2>1, <2>2
<1> DEFINE s == SubSeq(Span, 1, n)
<1>3. /\ s \in Seq(1 .. Last)
      /\ Len(s) = IF 1 <= n THEN n - 1 + 1 ELSE 0
      /\ \A i \in 1 .. n - 1 + 1 : s[i] = Span[1 + i - 1]
  BY <1>1, <1>2, SubSeqProperties
<1> HIDE DEF s
<1>4. ASSUME NEW k \in PacketIds, Bounds[k] = Begin + pos, n = Size(k)
      PROVE  s = Packet(k)
  <2>1. Len(s) = n /\ \A i \in 1 .. n : s[i] = Span[i]
    BY <1>1, <1>3
  <2>2. \A i \in 1 .. n : s[i] = Bounds[k] + i
    BY <2>1, <1>1, <1>4, SpanFacts
  <2>3. s = [i \in 1 .. n |-> s[i]]
    BY <1>3, <2>1
  <2>4. [i \in 1 .. n |-> s[i]] = [i \in 1 .. n |-> Bounds[k] + i]
    BY <2>2, Zenon
  <2> QED BY <2>3, <2>4, <1>4 DEF Packet
<1> QED BY <1>3, <1>4 DEF s

\* Handing on one packet more.
LEMMA HandedOn ==
  ASSUME Inv, pc # "idle", NEW n \in HasNext(Span) \ {0},
         delivered' = Append(delivered, SubSeq(Span, 1, n))
  PROVE  /\ delivered' \in Seq(Seq(1 .. Last))
         /\ ~skipped => /\ AtBound(Begin + pos + n)
                        /\ AllOf(opened, Begin + pos, delivered')
                        /\ AllOf(opened, Begin + pos + n, delivered')
<1> DEFINE s == SubSeq(Span, 1, n)
           d == Len(delivered)
<1>1. s \in Seq(1 .. Last)
  BY GivenFacts
<1>2. delivered \in Seq(Seq(1 .. Last)) /\ d \in Nat
  BY StateFacts, LenProperties
<1> HIDE DEF s
<1>3. /\ delivered' \in Seq(Seq(1 .. Last)) /\ Len(delivered') = d + 1
      /\ \A i \in 1 .. d : delivered'[i] = delivered[i]
      /\ delivered'[d + 1] = s
  BY <1>1, <1>2, AppendProperties DEF s
<1>4. ASSUME ~skipped
      PROVE  /\ AtBound(Begin + pos + n)
             /\ AllOf(opened, Begin + pos, delivered')
             /\ AllOf(opened, Begin + pos + n, delivered')
  <2>1. PICK k \in PacketIds : Bounds[k] = Begin + pos /\ n = Size(k)
    BY <1>4, HasNextFacts
  <2>2. s = Packet(k)
    BY <2>1, GivenFacts DEF s
  <2>3. /\ k \in 1 .. Len(Bounds) /\ k + 1 \in 1 .. Len(Bounds)
        /\ Bounds[k + 1] = Begin + pos + n
        /\ Begin \in Nat /\ pos \in Nat /\ n \in Nat
    BY <2>1, BoundFacts, StateFacts, SpanFacts
  <2>4. AtBound(Begin + pos + n)
    BY <2>3 DEF AtBound
  <2>5. AllOf(opened, Begin + pos, delivered)
    BY <1>4, SpanFacts DEF Inv
  <2>6. ASSUME NEW l \in PacketIds, Bounds[l] >= opened, Bounds[l + 1] <= Begin + pos
        PROVE  \E i \in 1 .. Len(delivered') : delivered'[i] = Packet(l)
    <3>1. PICK i \in 1 .. d : delivered[i] = Packet(l)
      BY <2>5, <2>6 DEF AllOf
    <3>2. i \in 1 .. Len(delivered') /\ delivered'[i] = Packet(l)
      BY <3>1, <1>2, <1>3
    <3> QED BY <3>2
  <2>7. ASSUME NEW l \in PacketIds, Bounds[l] >= opened, Bounds[l + 1] <= Begin + pos + n
        PROVE  \E i \in 1 .. Len(delivered') : delivered'[i] = Packet(l)
    <3>1. CASE l = k
      <4>1. d + 1 \in 1 .. Len(delivered')
        BY <1>2, <1>3
      <4> QED BY <4>1, <3>1, <2>2, <1>3
    <3>2. CASE l # k
      <4>1. l \in 1 .. Len(Bounds) /\ l + 1 \in 1 .. Len(Bounds) /\ l + 1 <= k + 1
        BY <2>3, <2>7, BoundFacts
      <4>2. l + 1 <= k
        BY <4>1, <3>2, <2>3
      <4>3. Bounds[l + 1] \in Nat /\ Bounds[k] \in Nat
        BY <4>1, <2>3, BoundFacts
      <4>4. Bounds[l + 1] <= Bounds[k]
        <5>1. CASE l + 1 = k
          BY <5>1, <4>3
        <5>2. CASE l + 1 # k
          <6>1. Bounds[l + 1] < Bounds[k]
            BY <5>2, <4>1, <4>2, <2>3, PacketAssumption DEF PacketAssumption
          <6> QED BY <6>1, <4>3
        <5> QED BY <5>1, <5>2
      <4> QED BY <4>4, <2>1, <2>6, <2>7
    <3> QED BY <3>1, <3>2
  <2> QED BY <2>4, <2>6, <2>7 DEF AllOf
<1> QED BY <1>3, <1>4

-----------------------------------------------------------------------------

LEMMA InitInv ==
  ASSUME Init
  PROVE  Inv
<1>1. /\ buf = <<>> /\ data = <<>> /\ pos = 0 /\ pc = "idle" /\ arrived = 0 /\ delivered = <<>>
      /\ outcome = "none" /\ opened = 0
  BY DEF Init
<1>2. skipped = FALSE /\ skipped \in BOOLEAN
  BY Zenon DEF Init
<1>3. Held = <<>> /\ Len(Held) = 0 /\ Done = 0 /\ Begin = 0
  <2>1. Held = <<>> /\ Done = 0
    BY <1>1 DEF Held, Done
  <2>2. Len(Held) = 0
    BY <2>1
  <2>3. Begin = 0
    BY <2>2, <1>1 DEF Begin
  <2> QED BY <2>1, <2>2, <2>3
<1>4. TypeOK
  BY <1>1, <1>2, BoundFacts, PacketAssumption DEF TypeOK, PacketAssumption
<1>5. AtBound(0)
  BY BoundFacts, PacketAssumption DEF AtBound, PacketAssumption
<1>6. AllOf(0, 0, <<>>)
  <2> SUFFICES ASSUME NEW k \in PacketIds, Bounds[k] >= 0, Bounds[k + 1] <= 0
               PROVE  FALSE
    BY DEF AllOf
  <2>1. Bounds[k] \in Nat /\ Size(k) \in Nat /\ Size(k) > 0 /\ Bounds[k] + Size(k) = Bounds[k + 1]
    BY BoundFacts
  <2> QED BY <2>1
<1> QED BY <1>1, <1>3, <1>4, <1>5, <1>6 DEF Inv, Follows, NothingWaits

LEMMA HandleInv ==
  ASSUME Inv, NEW n \in Nat, Handle(n)
  PROVE  Inv'
<1> DEFINE chunk == [i \in 1 .. n |-> arrived + i]
<1>1. /\ pc = "idle" /\ arrived + n <= Last /\ ~TooMuch(n) /\ arrived' = arrived + n /\ pos' = 0
      /\ UNCHANGED <<delivered, outcome, opened, skipped, throws, clears>>
  BY DEF Handle, calls
<1>2. chunk \in Seq(1 .. Last) /\ Len(chunk) = n /\ \A i \in 1 .. n : chunk[i] = arrived + i
  <2>1. arrived \in Nat /\ Last \in Nat
    BY StateFacts, BoundFacts
  <2>2. \A i \in 1 .. n : arrived + i \in 1 .. Last
    BY <2>1, <1>1
  <2>3. chunk \in [1 .. n -> 1 .. Last]
    BY <2>2
  <2> QED BY <2>3
<1>3. IF buf = <<>> THEN pc' = "direct" /\ data' = chunk /\ UNCHANGED buf
      ELSE pc' = "buffered" /\ buf' = buf \o chunk /\ UNCHANGED data
  BY DEF Handle
<1> HIDE DEF chunk
<1>4. Held = buf /\ Done = 0 /\ Len(buf) + n <= Max /\ Begin + Len(buf) = arrived
  BY <1>1, StateFacts DEF Held, Done, TooMuch
<1>5. /\ Held' \in Seq(1 .. Last) /\ Len(Held') = Len(buf) + n
      /\ \A i \in 1 .. Len(buf) + n : Held'[i] = Begin + i
      /\ pc' = "direct" => buf' = <<>>
      /\ pc' \in {"direct", "buffered"}
      /\ buf' \in Seq(1 .. Last) /\ data' \in Seq(1 .. Last) /\ Len(buf') <= Max /\ Len(data') <= Max
  <2>0. data \in Seq(1 .. Last) /\ Len(data) <= Max
    BY DEF Inv, TypeOK
  <2>1. CASE buf = <<>>
    <3>1. pc' = "direct" /\ data' = chunk /\ buf' = buf /\ Held' = chunk /\ Len(buf) = 0
      BY <2>1, <1>3 DEF Held
    <3> QED BY <3>1, <2>1, <1>2, <1>4, StateFacts
  <2>2. CASE buf # <<>>
    <3>1. pc' = "buffered" /\ data' = data /\ buf' = buf \o chunk /\ Held' = buf \o chunk
      BY <2>2, <1>3 DEF Held
    <3>2. /\ buf \o chunk \in Seq(1 .. Last) /\ Len(buf \o chunk) = Len(buf) + n
          /\ \A i \in 1 .. Len(buf) + n :
               (buf \o chunk)[i] = IF i <= Len(buf) THEN buf[i] ELSE chunk[i - Len(buf)]
      BY <1>2, StateFacts, ConcatProperties
    <3>3. ASSUME NEW i \in 1 .. Len(buf) + n
          PROVE  Held'[i] = Begin + i
      <4>1. CASE i <= Len(buf)
        <5>1. i \in 1 .. Len(Held) /\ Held[i] = Begin + i
          BY <4>1, <1>4, StateFacts DEF Inv, Follows
        <5> QED BY <5>1, <4>1, <3>1, <3>2, <1>4
      <4>2. CASE ~(i <= Len(buf))
        <5>1. i - Len(buf) \in 1 .. n
          BY <4>2, StateFacts
        <5>2. chunk[i - Len(buf)] = arrived + (i - Len(buf))
          BY <5>1, <1>2
        <5> QED BY <5>2, <4>2, <3>1, <3>2, <1>4, StateFacts, SMTT(20)
      <4> QED BY <4>1, <4>2
    <3> QED BY <3>1, <3>2, <3>3, <2>0, <1>4
  <2> QED BY <2>1, <2>2
<1>6. Begin' = Begin /\ Done' = 0
  <2>1. Begin' = arrived' - Len(Held')
    BY DEF Begin
  <2>2. Done' = 0
    BY <1>1 DEF Done
  <2>3. PICK l \in Nat, b \in Nat, a \in Nat : Len(buf) = l /\ Begin = b /\ arrived = a
    BY StateFacts
  <2>4. b + l = a /\ arrived' = a + n /\ Len(Held') = l + n
    BY <2>3, <1>1, <1>4, <1>5
  <2>5. Begin' = b
    BY <2>1, <2>4
  <2> QED BY <2>2, <2>3, <2>5
<1>7. TypeOK'
  <2>1. skipped' \in BOOLEAN
    BY <1>1, StateFacts, Zenon
  <2>2. /\ pos' \in 0 .. Max /\ arrived' \in 0 .. Last /\ opened' \in 0 .. arrived'
        /\ outcome' \in {"none", "ok", "threw", "refused"}
    BY <1>1, StateFacts, BoundFacts DEF Inv, TypeOK
  <2> QED BY <2>1, <2>2, <1>5 DEF TypeOK
<1>8. Follows(Held, Begin)'
  BY <1>5, <1>6 DEF Follows
<1>9. ~skipped' => /\ opened' <= Begin' /\ AtBound(Begin') /\ AtBound(Begin' + Done')
                   /\ AllOf(opened', Begin' + Done', delivered')
  <2> SUFFICES ASSUME ~skipped'
               PROVE  /\ opened' <= Begin' /\ AtBound(Begin') /\ AtBound(Begin' + Done')
                      /\ AllOf(opened', Begin' + Done', delivered')
    OBVIOUS
  <2>1. ~skipped
    BY <1>1
  <2>2. opened <= Begin /\ AtBound(Begin) /\ AllOf(opened, Begin + Done, delivered)
    BY <2>1 DEF Inv
  <2>3. Begin + Done = Begin /\ Begin' + Done' = Begin
    BY <1>4, <1>6, StateFacts
  <2> QED BY <2>2, <2>3, <1>1, <1>6
<1>10. NothingWaits'
  BY <1>5 DEF NothingWaits
<1>11. delivered' \in Seq(Seq(1 .. Last)) /\ Begin' \in Nat /\ Done' <= Len(Held')
  BY <1>1, <1>5, <1>6, StateFacts
<1> QED BY <1>5, <1>7, <1>8, <1>9, <1>10, <1>11 DEF Inv

\* A step in which neither what is held nor what has arrived changes, whatever
\* has been handed on.
LEMMA SameHeld ==
  ASSUME Inv, Held' = Held, arrived' = arrived, opened' = opened,
         skipped' \in BOOLEAN, skipped => skipped', TypeOK',
         pc' = "direct" => buf' = <<>>,
         delivered' \in Seq(Seq(1 .. Last)),
         Done' \in Nat, Done' <= Len(Held),
         ~skipped' => AtBound(Begin + Done') /\ AllOf(opened, Begin + Done', delivered'),
         NothingWaits'
  PROVE  Inv'
<1>1. Begin' = Begin
  BY DEF Begin
<1>2. Begin' \in Nat /\ Follows(Held', Begin') /\ Done' <= Len(Held')
  BY <1>1 DEF Inv
<1>3. ~skipped' => /\ opened' <= Begin' /\ AtBound(Begin') /\ AtBound(Begin' + Done')
                   /\ AllOf(opened', Begin' + Done', delivered')
  BY <1>1 DEF Inv
<1> QED BY <1>2, <1>3 DEF Inv

LEMMA RefuseInv ==
  ASSUME Inv, NEW n \in Nat, Refuse(n)
  PROVE  Inv'
<1>1. /\ buf' = buf /\ data' = data /\ pos' = pos /\ pc' = pc /\ arrived' = arrived
      /\ delivered' = delivered /\ opened' = opened /\ skipped' = skipped /\ outcome' = "refused"
  BY DEF Refuse
<1>2. Held' = Held /\ Done' = Done
  BY <1>1 DEF Held, Done
<1>3. skipped' \in BOOLEAN /\ (skipped => skipped')
  BY <1>1, StateFacts, Zenon
<1>4. TypeOK'
  BY <1>1, <1>3 DEF Inv, TypeOK
<1>5. NothingWaits'
  BY <1>1 DEF NothingWaits
<1> QED BY <1>1, <1>2, <1>3, <1>4, <1>5, StateFacts, SameHeld DEF Inv

LEMMA DeliverInv ==
  ASSUME Inv, Deliver
  PROVE  Inv'
<1>1. /\ pc # "idle" /\ buf' = buf /\ data' = data /\ pc' = pc /\ arrived' = arrived
      /\ outcome' = outcome /\ opened' = opened /\ skipped' = skipped
  BY DEF Deliver
<1>2. PICK n \in HasNext(Span) \ {0} :
        delivered' = Append(delivered, SubSeq(Span, 1, n)) /\ pos' = pos + n
  BY DEF Deliver
<1>3. n \in Nat /\ n <= Len(Span) /\ Len(Span) = Len(Held) - pos /\ pos \in Nat
  BY <1>1, HasNextSize, SpanFacts
<1>4. Held' = Held /\ Done' = pos + n
  BY <1>1, <1>2 DEF Held, Done
<1>5. Done' \in Nat /\ Done' <= Len(Held)
  BY <1>3, <1>4, StateFacts
<1>6. skipped' \in BOOLEAN /\ (skipped => skipped')
  BY <1>1, StateFacts, Zenon
<1>7. TypeOK'
  <2>1. pos' \in 0 .. Max
    BY <1>2, <1>4, <1>5, StateFacts
  <2> QED BY <2>1, <1>1, <1>6 DEF Inv, TypeOK
<1>8. NothingWaits'
  BY <1>1 DEF NothingWaits
<1>9. delivered' \in Seq(Seq(1 .. Last))
      /\ (~skipped => AtBound(Begin + pos + n) /\ AllOf(opened, Begin + pos + n, delivered'))
  BY <1>1, <1>2, HandedOn
<1>10. Begin + Done' = Begin + pos + n
  BY <1>3, <1>4, StateFacts
<1>11. ~skipped' => AtBound(Begin + Done') /\ AllOf(opened, Begin + Done', delivered')
  BY <1>1, <1>9, <1>10
<1>12. pc' = "direct" => buf' = <<>>
  BY <1>1 DEF Inv
<1> QED BY <1>1, <1>4, <1>5, <1>6, <1>7, <1>8, <1>9, <1>11, <1>12, SameHeld

\* An exception while the caller's data is worked on loses what is left of
\* it; out of the buffer, nothing is lost.
LEMMA CallbackThrowsInv ==
  ASSUME Inv, CallbackThrows
  PROVE  Inv'
<1>1. /\ pc # "idle" /\ pc' = "idle" /\ data' = <<>> /\ outcome' = "threw"
      /\ buf' = buf /\ pos' = pos /\ arrived' = arrived /\ opened' = opened
  BY DEF CallbackThrows
<1>2. PICK n \in HasNext(Span) \ {0} : delivered' = Append(delivered, SubSeq(Span, 1, n))
  BY DEF CallbackThrows
<1>3. skipped' = (skipped \/ pc = "direct") /\ skipped' \in BOOLEAN /\ (skipped => skipped')
  BY StateFacts, Zenon DEF CallbackThrows
<1>4. TypeOK'
  BY <1>1, <1>3, StateFacts DEF Inv, TypeOK
<1>5. NothingWaits'
  BY <1>1 DEF NothingWaits
<1>6. delivered' \in Seq(Seq(1 .. Last))
      /\ (~skipped => AllOf(opened, Begin + pos, delivered'))
  BY <1>1, <1>2, HandedOn
<1>7. Held' = buf /\ Done' = 0
  BY <1>1 DEF Held, Done
<1>8. CASE pc = "direct"
  <2>1. buf = <<>> /\ Len(buf) = 0
    BY <1>8 DEF Inv
  <2>2. Begin' = arrived /\ Begin' \in Nat
    BY <2>1, <1>1, <1>7, StateFacts DEF Begin
  <2>3. Follows(Held', Begin') /\ Done' <= Len(Held')
    BY <2>1, <1>7 DEF Follows
  <2>4. skipped'
    BY <1>3, <1>8, Zenon
  <2> QED BY <2>2, <2>3, <2>4, <1>1, <1>4, <1>5, <1>6 DEF Inv
<1>9. CASE pc # "direct"
  <2>1. Held' = Held
    BY <1>7, <1>9 DEF Held
  <2>2. skipped' = skipped
    BY <1>3, <1>9, StateFacts, Zenon
  <2>3. Begin + Done' = Begin
    BY <1>7, StateFacts
  <2>4. ASSUME ~skipped'
        PROVE  AtBound(Begin) /\ AllOf(opened, Begin, delivered')
    <3>1. AtBound(Begin) /\ AllOf(opened, Begin + pos, delivered')
      BY <2>2, <2>4, <1>6 DEF Inv
    <3>2. \A k \in PacketIds : Bounds[k + 1] \in Nat
      BY BoundFacts
    <3>3. \A k \in PacketIds : Bounds[k + 1] <= Begin => Bounds[k + 1] <= Begin + pos
      BY <3>2, StateFacts
    <3> QED BY <3>1, <3>3 DEF AllOf
  <2> QED BY <2>1, <2>2, <2>3, <2>4, <1>1, <1>3, <1>4, <1>5, <1>6, <1>7, StateFacts, SameHeld
<1> QED BY <1>8, <1>9

LEMMA FinishInv ==
  ASSUME Inv, Finish
  PROVE  Inv'
<1>1. /\ pc # "idle" /\ pc' = "idle" /\ data' = <<>> /\ buf' = Span /\ outcome' = "ok"
      /\ pos' = pos /\ arrived' = arrived /\ delivered' = delivered /\ opened' = opened
      /\ skipped' = skipped /\ 0 \in HasNext(Span)
  BY DEF Finish
<1>2. /\ Span \in Seq(1 .. Last) /\ Len(Span) \in Nat /\ Len(Span) = Len(Held) - pos
      /\ \A i \in 1 .. Len(Span) : Span[i] = Begin + pos + i
      /\ pos \in Nat /\ pos <= Len(Held) /\ Done = pos
  BY <1>1, SpanFacts
<1>3. Held' = Span /\ Done' = 0
  BY <1>1 DEF Held, Done
<1>4. Begin' = arrived - Len(Span)
  BY <1>1, <1>3 DEF Begin
<1>5. Begin' = Begin + pos /\ Begin' \in Nat /\ Begin' + Done' = Begin + pos
  BY <1>2, <1>3, <1>4, StateFacts, SMTT(20)
<1>6. Follows(Held', Begin') /\ Done' <= Len(Held')
  BY <1>2, <1>3, <1>5 DEF Follows
<1>7. TypeOK'
  <2>1. skipped' \in BOOLEAN
    BY <1>1, StateFacts, Zenon
  <2>2. Len(buf') <= Max /\ pos' \in 0 .. Max /\ buf' \in Seq(1 .. Last)
    BY <1>1, <1>2, StateFacts
  <2>3. data' \in Seq(1 .. Last) /\ Len(data') <= Max
    BY <1>1, StateFacts
  <2> QED BY <2>1, <2>2, <2>3, <1>1 DEF Inv, TypeOK
<1>8. ASSUME ~skipped'
      PROVE  /\ opened' <= Begin' /\ AtBound(Begin') /\ AtBound(Begin' + Done')
             /\ AllOf(opened', Begin' + Done', delivered')
  <2>1. opened <= Begin /\ AtBound(Begin + pos) /\ AllOf(opened, Begin + pos, delivered)
    BY <1>1, <1>2, <1>8 DEF Inv
  <2>2. opened' <= Begin'
    BY <2>1, <1>1, <1>2, <1>5, StateFacts
  <2> QED BY <2>1, <2>2, <1>1, <1>5
<1>9. ASSUME ~skipped'
      PROVE  /\ buf' = [i \in 1 .. Len(buf') |-> arrived' - Len(buf') + i]
             /\ \E k \in 1 .. Len(Bounds) :
                  /\ arrived' - Len(buf') = Bounds[k]
                  /\ k \in PacketIds \ Malformed => Len(buf') < Size(k)
  <2>1. arrived - Len(Span) = Begin + pos
    BY <1>4, <1>5
  <2>2. Span = [i \in 1 .. Len(Span) |-> arrived - Len(Span) + i]
    <3>1. Span = [i \in 1 .. Len(Span) |-> Span[i]]
      BY <1>2
    <3>2. [i \in 1 .. Len(Span) |-> Span[i]] = [i \in 1 .. Len(Span) |-> Begin + pos + i]
      BY <1>2, Zenon
    <3> QED BY <3>1, <3>2, <2>1, Zenon
  <2>3. PICK k \in 1 .. Len(Bounds) : Bounds[k] = Begin + pos
    BY <1>5, <1>8, <1>9 DEF AtBound
  <2>4. ~skipped
    BY <1>1, <1>9
  <2>5. k \in PacketIds \ Malformed => Len(Span) < Size(k)
    BY <2>3, <2>4, <1>1, HasNextFacts
  <2> QED BY <2>1, <2>2, <2>3, <2>5, <1>1
<1>10. NothingWaits'
  BY <1>9 DEF NothingWaits
<1>11. delivered' \in Seq(Seq(1 .. Last)) /\ (pc' = "direct" => buf' = <<>>)
  BY <1>1, StateFacts
<1> QED BY <1>5, <1>6, <1>7, <1>8, <1>10, <1>11 DEF Inv

LEMMA ClearInv ==
  ASSUME Inv, Clear
  PROVE  Inv'
<1>1. /\ pc = "idle" /\ buf' = <<>> /\ data' = data /\ pos' = pos /\ pc' = pc
      /\ delivered' = delivered /\ opened' = arrived' /\ outcome' = "none"
  BY DEF Clear
<1>2. ~skipped' /\ skipped' \in BOOLEAN
  BY Zenon DEF Clear
<1>3. PICK k \in 1 .. Len(Bounds) : arrived' = Bounds[k]
  BY DEF Clear, Reconnect
<1>4. arrived' \in Nat /\ arrived' <= Last
  BY <1>3, BoundFacts
<1>5. Held' = <<>> /\ Done' = 0
  BY <1>1 DEF Held, Done
<1>6. Len(Held') = 0 /\ Follows(Held', Begin')
  BY <1>5 DEF Follows
<1>7. Begin' = arrived' /\ Begin' + Done' = arrived'
  <2>1. Begin' = arrived' - Len(Held')
    BY DEF Begin
  <2>2. Len(Held') = 0
    BY <1>6
  <2>3. arrived' - 0 = arrived' /\ arrived' + 0 = arrived'
    <3>1. \A n \in Nat : n - 0 = n /\ n + 0 = n
      OBVIOUS
    <3>2. arrived' \in Nat
      BY <1>4
    <3> QED BY <3>1, <3>2, Zenon
  <2>4. Begin' = arrived'
    BY <2>1, <2>2, <2>3, Zenon
  <2>5. Done' = 0
    BY <1>5, Zenon
  <2> QED BY <2>3, <2>4, <2>5, Zenon
<1>8. AtBound(arrived')
  BY <1>3 DEF AtBound
<1>9. AllOf(opened', arrived', delivered')
  <2> SUFFICES ASSUME NEW l \in PacketIds, Bounds[l] >= arrived', Bounds[l + 1] <= arrived'
               PROVE  FALSE
    BY <1>1 DEF AllOf
  <2>1. /\ Bounds[l] \in Nat /\ Size(l) \in Nat /\ Size(l) > 0
        /\ Bounds[l] + Size(l) = Bounds[l + 1]
    BY BoundFacts
  <2> QED BY <2>1, <1>4
<1>10. TypeOK'
  <2>1. opened' \in 0 .. arrived' /\ arrived' \in 0 .. Last
    BY <1>1, <1>4, BoundFacts
  <2>2. buf' \in Seq(1 .. Last) /\ Len(buf') <= Max
    BY <1>1, StateFacts
  <2> QED BY <2>1, <2>2, <1>1, <1>2 DEF Inv, TypeOK
<1>11. NothingWaits'
  BY <1>1 DEF NothingWaits
<1>12. delivered' \in Seq(Seq(1 .. Last)) /\ opened' <= Begin' /\ Begin' \in Nat
       /\ Done' <= Len(Held') /\ (pc' = "direct" => buf' = <<>>)
  BY <1>1, <1>4, <1>5, <1>6, <1>7, StateFacts
<1> QED BY <1>6, <1>7, <1>8, <1>9, <1>10, <1>11, <1>12 DEF Inv

LEMMA StutterInv ==
  ASSUME Inv, UNCHANGED vars
  PROVE  Inv'
<1>1. /\ buf' = buf /\ data' = data /\ pos' = pos /\ pc' = pc /\ arrived' = arrived
      /\ delivered' = delivered /\ opened' = opened /\ skipped' = skipped /\ outcome' = outcome
  BY DEF vars
<1>2. Held' = Held /\ Done' = Done
  BY <1>1 DEF Held, Done
<1>3. skipped' \in BOOLEAN /\ (skipped => skipped')
  BY <1>1, StateFacts, Zenon
<1>4. TypeOK'
  BY <1>1, <1>3 DEF Inv, TypeOK
<1>5. NothingWaits'
  BY <1>1 DEF Inv, NothingWaits
<1> QED BY <1>1, <1>2, <1>3, <1>4, <1>5, StateFacts, SameHeld DEF Inv

LEMMA NextInv ==
  ASSUME Inv, [Next]_vars
  PROVE  Inv'
<1>1. CASE Receive
  <2>1. PICK n \in Chunks \ {0} : Handle(n) \/ Refuse(n)
    BY <1>1 DEF Receive
  <2>2. n \in Nat
    BY PacketAssumption DEF PacketAssumption
  <2> QED BY <2>1, <2>2, HandleInv, RefuseInv
<1>2. CASE Retry
  BY <1>2, HandleInv DEF Retry
<1>3. CASE Deliver \/ CallbackThrows \/ Finish \/ Clear
  BY <1>3, DeliverInv, CallbackThrowsInv, FinishInv, ClearInv
<1>4. CASE UNCHANGED vars
  BY <1>4, StutterInv
<1> QED BY <1>1, <1>2, <1>3, <1>4 DEF Next

-----------------------------------------------------------------------------

\* However the octets are cut and whatever throws, the buffer keeps to its
\* limit and what has been handed on to what the buffer holds
\* (util.hpp:116-138).
THEOREM TypeInvariance == Spec => []TypeOK
<1>1. Init => Inv
  BY InitInv
<1>2. Inv /\ [Next]_vars => Inv'
  BY NextInv
<1>3. Inv => TypeOK
  BY DEF Inv
<1> QED BY <1>1, <1>2, <1>3, PTL DEF Spec

\* A call that returns has handed on every packet that is there
\* (util.hpp:131-138).
THEOREM NothingEverWaits == Spec => []NothingWaits
<1>1. Init => Inv
  BY InitInv
<1>2. Inv /\ [Next]_vars => Inv'
  BY NextInv
<1>3. Inv => NothingWaits
  BY DEF Inv
<1> QED BY <1>1, <1>2, <1>3, PTL DEF Spec

\* As long as no exception has dropped the caller's data, every packet before
\* what is buffered has been handed on, also when callbacks threw
\* (util.hpp:131-138).
THEOREM NoPacketIsLost == Spec => []NoPacketLost
<1>1. Init => Inv
  BY InitInv
<1>2. Inv /\ [Next]_vars => Inv'
  BY NextInv
<1>3. Inv => NoPacketLost
  <2> SUFFICES ASSUME Inv, pc = "idle", ~skipped
               PROVE  AllOf(opened, arrived - Len(buf), delivered)
    BY DEF NoPacketLost, AllOf
  <2>1. Held = buf /\ Done = 0
    BY DEF Held, Done
  <2>2. Begin + Done = arrived - Len(buf)
    BY <2>1, StateFacts
  <2>3. AllOf(opened, Begin + Done, delivered)
    BY DEF Inv
  <2> QED BY <2>2, <2>3
<1> QED BY <1>1, <1>2, <1>3, PTL DEF Spec

\* Unless data was dropped, the callback is never called with anything but one
\* whole packet that came after the last clear() (util.hpp:125-137).
THEOREM FramesAreWhole == Spec => FramesWhole
<1>1. Init => Inv
  BY InitInv
<1>2. Inv /\ [Next]_vars => Inv'
  BY NextInv
<1>3. Inv /\ [Next]_vars =>
        [delivered' # delivered /\ ~skipped
          => \E k \in PacketIds :
               delivered'[Len(delivered')] = Packet(k) /\ Bounds[k] >= opened]_vars
  <2> SUFFICES ASSUME Inv, [Next]_vars, delivered' # delivered, ~skipped
               PROVE  \E k \in PacketIds :
                        delivered'[Len(delivered')] = Packet(k) /\ Bounds[k] >= opened
    OBVIOUS
  <2>1. Deliver \/ CallbackThrows
    BY DEF Next, Receive, Retry, Handle, Refuse, Finish, Clear, vars
  <2>2. pc # "idle"
    BY <2>1 DEF Deliver, CallbackThrows
  <2>3. PICK n \in HasNext(Span) \ {0} : delivered' = Append(delivered, SubSeq(Span, 1, n))
    BY <2>1 DEF Deliver, CallbackThrows
  <2>4. PICK k \in PacketIds : Bounds[k] = Begin + pos /\ n = Size(k)
    BY <2>2, <2>3, HasNextFacts
  <2>5. SubSeq(Span, 1, n) = Packet(k) /\ SubSeq(Span, 1, n) \in Seq(1 .. Last)
    BY <2>2, <2>4, GivenFacts
  <2>6. delivered'[Len(delivered')] = SubSeq(Span, 1, n)
    <3> DEFINE s == SubSeq(Span, 1, n)
    <3>1. s \in Seq(1 .. Last) /\ delivered \in Seq(Seq(1 .. Last))
      BY <2>5, StateFacts
    <3> HIDE DEF s
    <3>2. /\ Len(Append(delivered, s)) = Len(delivered) + 1
          /\ Append(delivered, s)[Len(delivered) + 1] = s
      BY <3>1, AppendProperties
    <3> QED BY <3>2, <2>3 DEF s
  <2>7. opened <= Begin
    BY DEF Inv
  <2>8. Bounds[k] >= opened
    BY <2>2, <2>4, <2>7, StateFacts, SpanFacts
  <2> QED BY <2>5, <2>6, <2>8
<1> QED BY <1>1, <1>2, <1>3, PTL DEF Spec, FramesWhole

-----------------------------------------------------------------------------
(***************************************************************************)
(* While callbacks return, packets leave in the order in which they come,  *)
(* each of them once; and where a packet and a chunk together fit the      *)
(* buffer, nothing is refused, clear() between any two calls included.     *)
(***************************************************************************)

\* No callback throws.
Returning == MaxThrows = 0

\* Every packet can be read, and with one octet missing leaves room for any
\* chunk.
Room ==
  /\ Malformed = {}
  /\ \A k \in PacketIds, n \in Chunks : Size(k) - 1 + n <= Max

\* Between two calls nothing is buffered or the last one ran to its end.
Calm ==
  /\ throws = 0
  /\ ~skipped
  /\ pc = "idle" /\ outcome # "ok" => buf = <<>>

\* The packet looked for is the one after those handed on.
InTurn ==
  /\ Len(delivered) + 1 \in 1 .. Len(Bounds)
  /\ Bounds[Len(delivered) + 1] = Begin + Done

-----------------------------------------------------------------------------

\* A call looks first at what was buffered, then at the new octets.
LEMMA HandleFacts ==
  ASSUME Inv, NEW n \in Nat, Handle(n)
  PROVE  Begin + Done = Begin /\ Begin' + Done' = Begin
<1>1. /\ pc = "idle" /\ arrived' = arrived + n /\ pos' = 0
  BY DEF Handle
<1> DEFINE chunk == [i \in 1 .. n |-> arrived + i]
<1>2. chunk \in Seq(1 .. Last) /\ Len(chunk) = n
  <2>1. arrived \in Nat /\ Last \in Nat /\ arrived + n <= Last
    BY StateFacts, BoundFacts DEF Handle
  <2>2. \A i \in 1 .. n : arrived + i \in 1 .. Last
    BY <2>1
  <2>3. chunk \in [1 .. n -> 1 .. Last]
    BY <2>2
  <2> QED BY <2>3
<1>3. IF buf = <<>> THEN pc' = "direct" /\ data' = chunk /\ UNCHANGED buf
      ELSE pc' = "buffered" /\ buf' = buf \o chunk /\ UNCHANGED data
  BY DEF Handle
<1> HIDE DEF chunk
<1>4. buf \in Seq(1 .. Last)
  BY StateFacts
<1>5. Len(Held') = Len(buf) + n
  <2>1. CASE buf = <<>>
    <3>1. Held' = chunk /\ Len(buf) = 0
      BY <2>1, <1>3 DEF Held
    <3> QED BY <3>1, <1>2
  <2>2. CASE buf # <<>>
    <3>1. Held' = buf \o chunk
      BY <2>2, <1>3 DEF Held
    <3> QED BY <3>1, <1>2, <1>4, ConcatProperties
  <2> QED BY <2>1, <2>2
<1>6. Held = buf /\ Done = 0 /\ Done' = 0
  BY <1>1 DEF Held, Done
<1>7. Begin' = arrived' - Len(Held')
  BY DEF Begin
<1>8. Begin' = Begin
  BY <1>1, <1>5, <1>6, <1>7, StateFacts, SMTT(20)
<1> QED BY <1>6, <1>8, StateFacts

LEMMA FinishFacts ==
  ASSUME Inv, Finish
  PROVE  Begin' + Done' = Begin + Done
<1>1. pc # "idle" /\ pc' = "idle" /\ buf' = Span /\ arrived' = arrived
  BY DEF Finish
<1>2. /\ Len(Span) \in Nat /\ Len(Span) = Len(Held) - pos
      /\ pos \in Nat /\ pos <= Len(Held) /\ Done = pos
  BY <1>1, SpanFacts
<1>3. Held' = Span /\ Done' = 0
  BY <1>1 DEF Held, Done
<1>4. Begin' = arrived - Len(Span)
  BY <1>1, <1>3 DEF Begin
<1> QED BY <1>2, <1>3, <1>4, StateFacts

LEMMA NothingThrown ==
  ASSUME Returning, Calm
  PROVE  ~CallbackThrows
BY DEF Returning, Calm, CallbackThrows

\* Unless nothing came at all, octets that fit no buffer come behind a packet
\* that has been there.
LEMMA NothingRefused ==
  ASSUME Inv, Calm, Room, NEW n \in Chunks \ {0}
  PROVE  ~Refuse(n)
<1> SUFFICES ASSUME Refuse(n)
             PROVE  FALSE
  OBVIOUS
<1>1. pc = "idle" /\ arrived + n <= Last /\ Len(buf) + n > Max
  BY DEF Refuse, TooMuch
<1>2. n \in Nat /\ n > 0 /\ Max \in Nat
  BY PacketAssumption DEF PacketAssumption
<1>3. \A k \in PacketIds : Size(k) \in Nat /\ Size(k) > 0 /\ Size(k) - 1 + n <= Max
  BY BoundFacts DEF Room
<1>4. CASE buf = <<>>
  <2>1. Len(buf) = 0
    BY <1>4
  <2>2. Last > 0
    BY <1>1, <1>2, StateFacts, BoundFacts, SMTT(20)
  <2>3. 1 \in PacketIds
    <3>1. Len(Bounds) # 1
      BY <2>2, PacketAssumption DEF PacketAssumption, Last
    <3>2. PICK m \in Nat : Len(Bounds) = m /\ m >= 1
      BY BoundFacts
    <3>3. m >= 2
      BY <3>1, <3>2
    <3>4. PacketIds = 1 .. m - 1
      BY <3>2 DEF PacketIds
    <3> QED BY <3>2, <3>3, <3>4
  <2>4. Size(1) \in Nat /\ Size(1) > 0 /\ Size(1) - 1 + n <= Max
    BY <2>3, <1>3
  <2> QED BY <2>1, <2>4, <1>1, <1>2
<1>5. CASE buf # <<>>
  <2>1. outcome = "ok" /\ ~skipped
    BY <1>1, <1>5 DEF Calm
  <2>2. PICK k \in 1 .. Len(Bounds) :
          /\ arrived - Len(buf) = Bounds[k]
          /\ k \in PacketIds \ Malformed => Len(buf) < Size(k)
    BY <2>1, <1>1 DEF Inv, NothingWaits
  <2>3. Len(buf) \in Nat /\ arrived \in Nat /\ Last \in Nat /\ arrived <= Last
    BY StateFacts, BoundFacts
  <2>4. k # Len(Bounds)
    BY <2>2, <2>3, <1>1, <1>2 DEF Last
  <2>5. k \in PacketIds \ Malformed
    BY <2>4, BoundFacts DEF PacketIds, Room
  <2>6. Len(buf) < Size(k) /\ Size(k) \in Nat /\ Size(k) - 1 + n <= Max
    BY <2>2, <2>5, <1>3
  <2> QED BY <2>3, <2>6, <1>1, <1>2
<1> QED BY <1>4, <1>5

-----------------------------------------------------------------------------

LEMMA CalmStart ==
  ASSUME Init
  PROVE  Calm /\ NeverRefused
<1>1. ~skipped
  BY Zenon DEF Init
<1>2. throws = 0 /\ buf = <<>> /\ outcome = "none"
  BY DEF Init
<1> QED BY <1>1, <1>2 DEF Calm, NeverRefused

LEMMA CalmStep ==
  ASSUME Inv, Returning, Room, Calm, NeverRefused, [Next]_vars
  PROVE  Calm' /\ NeverRefused'
<1>1. CASE Receive \/ Retry
  <2>1. PICK n \in Chunks : Handle(n) \/ (n # 0 /\ Refuse(n))
    BY <1>1 DEF Receive, Retry
  <2>2. Handle(n)
    BY <2>1, NothingRefused
  <2>3. pc' # "idle" /\ throws' = throws /\ outcome' = outcome
    BY <2>2 DEF Handle, calls
  <2>4. skipped' = skipped
    BY <2>2, Zenon DEF Handle
  <2> QED BY <2>3, <2>4 DEF Calm, NeverRefused
<1>2. CASE Deliver
  <2>1. pc' # "idle" /\ throws' = throws /\ outcome' = outcome
    BY <1>2 DEF Deliver, calls
  <2>2. skipped' = skipped
    BY <1>2, Zenon DEF Deliver
  <2> QED BY <2>1, <2>2 DEF Calm, NeverRefused
<1>3. CASE CallbackThrows
  BY <1>3, NothingThrown
<1>4. CASE Finish
  <2>1. outcome' = "ok" /\ throws' = throws
    BY <1>4 DEF Finish, calls
  <2>2. skipped' = skipped
    BY <1>4, Zenon DEF Finish
  <2> QED BY <2>1, <2>2 DEF Calm, NeverRefused
<1>5. CASE Clear
  <2>1. outcome' = "none" /\ throws' = throws /\ buf' = <<>>
    BY <1>5 DEF Clear
  <2>2. ~skipped'
    BY <1>5, Zenon DEF Clear
  <2> QED BY <2>1, <2>2 DEF Calm, NeverRefused
<1>6. CASE UNCHANGED vars
  <2>1. pc' = pc /\ outcome' = outcome /\ throws' = throws /\ buf' = buf
    BY <1>6 DEF vars, calls
  <2>2. skipped' = skipped
    BY <1>6, Zenon DEF vars
  <2> QED BY <2>1, <2>2 DEF Calm, NeverRefused
<1> QED BY <1>1, <1>2, <1>3, <1>4, <1>5, <1>6 DEF Next

\* As long as no callback throws, a buffer that holds any packet but one octet
\* and any chunk takes whatever comes, however it is cut and whatever clear()
\* breaks off (util.hpp:116).
THEOREM RoomIsEnough ==
  ASSUME Returning, Room
  PROVE  Spec => []NeverRefused
<1>1. Init => Inv /\ Calm /\ NeverRefused
  BY InitInv, CalmStart
<1>2. Inv /\ Calm /\ NeverRefused /\ [Next]_vars => Inv' /\ Calm' /\ NeverRefused'
  BY NextInv, CalmStep
<1> QED BY <1>1, <1>2, PTL DEF Spec

-----------------------------------------------------------------------------

\* Nothing was ever cleared or thrown, and packets left in their turn.
Ordered ==
  /\ throws = 0 /\ clears = 0
  /\ ~skipped
  /\ InTurn

LEMMA OrderedStart ==
  ASSUME Init
  PROVE  Ordered
<1>1. ~skipped
  BY Zenon DEF Init
<1>2. throws = 0 /\ clears = 0 /\ delivered = <<>> /\ arrived = 0 /\ pc = "idle" /\ buf = <<>>
  BY DEF Init
<1>3. Held = <<>> /\ Done = 0
  BY <1>2 DEF Held, Done
<1>4. Begin = 0
  <2>1. Len(Held) = 0
    BY <1>3
  <2> QED BY <2>1, <1>2 DEF Begin
<1>5. Bounds[1] = 0 /\ 1 \in 1 .. Len(Bounds)
  BY BoundFacts, PacketAssumption DEF PacketAssumption
<1>6. Len(delivered) = 0
  BY <1>2
<1>7. InTurn
  BY <1>3, <1>4, <1>5, <1>6 DEF InTurn
<1> QED BY <1>1, <1>2, <1>7 DEF Ordered

\* The packet that is handed on is the one whose turn it is, and all of it
\* has arrived.
LEMMA TheNext ==
  ASSUME Inv, Ordered, pc # "idle", NEW n \in HasNext(Span) \ {0},
         delivered' = Append(delivered, SubSeq(Span, 1, n))
  PROVE  LET k == Len(delivered) + 1 IN
         /\ k < Len(Bounds)
         /\ Bounds[k + 1] = Begin + pos + n
         /\ Bounds[k + 1] <= arrived
         /\ delivered' = Append(delivered, Packet(k))
         /\ Len(delivered') = k
<1>1. PICK k \in PacketIds : Bounds[k] = Begin + pos /\ n = Size(k)
  BY HasNextFacts DEF Ordered
<1>2. SubSeq(Span, 1, n) = Packet(k) /\ SubSeq(Span, 1, n) \in Seq(1 .. Last)
  BY <1>1, GivenFacts
<1>3. PICK d \in Nat : Len(delivered) = d
  BY StateFacts, LenProperties
<1>4. d + 1 \in 1 .. Len(Bounds) /\ Bounds[d + 1] = Begin + pos
  BY <1>3, SpanFacts DEF Ordered, InTurn
<1>5. k \in 1 .. Len(Bounds) /\ k + 1 \in 1 .. Len(Bounds) /\ Bounds[k] + n = Bounds[k + 1]
  BY <1>1, BoundFacts
<1>6. k = d + 1
  <2>1. Bounds[k] \in Nat /\ Bounds[k] <= Bounds[d + 1] /\ Bounds[d + 1] <= Bounds[k]
    BY <1>1, <1>4, <1>5, BoundFacts, SMTT(20)
  <2>2. k <= d + 1 /\ d + 1 <= k
    BY <2>1, <1>4, <1>5, BoundFacts
  <2> QED BY <2>2, <1>5
<1>7. k < Len(Bounds)
  BY <1>5, BoundFacts
<1>8. n <= Len(Span) /\ n \in Nat
  BY HasNextSize
<1>9. Bounds[k + 1] = Begin + pos + n /\ Bounds[k + 1] <= arrived
  <2>1. Bounds[k + 1] = Begin + pos + n
    BY <1>1, <1>5
  <2>2. Len(Span) = Len(Held) - pos /\ Begin + Len(Held) = arrived /\ Len(Span) \in Nat
        /\ Begin \in Nat /\ pos \in Nat /\ Len(Held) \in Nat
    BY SpanFacts, StateFacts
  <2> QED BY <2>1, <2>2, <1>8
<1>10. Len(delivered') = d + 1 /\ delivered' = Append(delivered, Packet(k))
  <2>1. delivered \in Seq(Seq(1 .. Last))
    BY StateFacts
  <2>2. Packet(k) \in Seq(1 .. Last) /\ delivered' = Append(delivered, Packet(k))
    BY <1>2
  <2>3. Len(Append(delivered, Packet(k))) = Len(delivered) + 1
    BY <2>1, <2>2, AppendProperties
  <2> QED BY <2>2, <2>3, <1>3
<1> QED BY <1>3, <1>6, <1>7, <1>9, <1>10

LEMMA OrderedStep ==
  ASSUME Inv, Returning, MaxClears = 0, Ordered, [Next]_vars
  PROVE  Ordered'
<1>1. Len(delivered) \in Nat
  BY StateFacts, LenProperties
<1>2. CASE Receive \/ Retry
  <2>1. PICK n \in Chunks : Handle(n) \/ Refuse(n)
    BY <1>2 DEF Receive, Retry
  <2>2. n \in Nat
    BY PacketAssumption DEF PacketAssumption
  <2>3. throws' = throws /\ clears' = clears /\ delivered' = delivered
    BY <2>1 DEF Handle, Refuse, calls
  <2>4. skipped' = skipped
    BY <2>1, Zenon DEF Handle, Refuse
  <2>5. Begin' + Done' = Begin + Done
    <3>1. CASE Handle(n)
      BY <3>1, <2>2, HandleFacts
    <3>2. CASE Refuse(n)
      <4>1. Held' = Held /\ Done' = Done /\ arrived' = arrived
        BY <3>2 DEF Held, Done, Refuse
      <4> QED BY <4>1 DEF Begin
    <3> QED BY <2>1, <3>1, <3>2
  <2> QED BY <2>3, <2>4, <2>5 DEF Ordered, InTurn
<1>3. CASE Deliver
  <2>1. /\ pc # "idle" /\ buf' = buf /\ data' = data /\ pc' = pc /\ arrived' = arrived
        /\ throws' = throws /\ clears' = clears
    BY <1>3 DEF Deliver, calls
  <2>2. skipped' = skipped
    BY <1>3, Zenon DEF Deliver
  <2>3. PICK n \in HasNext(Span) \ {0} :
          delivered' = Append(delivered, SubSeq(Span, 1, n)) /\ pos' = pos + n
    BY <1>3 DEF Deliver
  <2>4. PICK d \in Nat : Len(delivered) = d
    BY <1>1
  <2>5. d + 1 < Len(Bounds) /\ Bounds[d + 1 + 1] = Begin + pos + n /\ Len(delivered') = d + 1
    BY <2>1, <2>3, <2>4, TheNext
  <2>6. Held' = Held /\ Done' = pos + n
    BY <2>1, <2>3 DEF Held, Done
  <2>7. Begin' = Begin
    BY <2>1, <2>6 DEF Begin
  <2>8. Begin' + Done' = Begin + pos + n
    <3>1. pos \in Nat /\ Begin \in Nat /\ n \in Nat
      BY <2>1, <2>3, SpanFacts, StateFacts, HasNextSize
    <3> QED BY <3>1, <2>6, <2>7
  <2>9. d + 1 + 1 \in 1 .. Len(Bounds)
    BY <2>5, BoundFacts
  <2>10. InTurn'
    BY <2>5, <2>8, <2>9 DEF InTurn
  <2> QED BY <2>1, <2>2, <2>10 DEF Ordered
<1>4. CASE CallbackThrows
  BY <1>4 DEF Ordered, CallbackThrows, Returning
<1>5. CASE Finish
  <2>1. throws' = throws /\ clears' = clears /\ delivered' = delivered
    BY <1>5 DEF Finish, calls
  <2>2. skipped' = skipped
    BY <1>5, Zenon DEF Finish
  <2> QED BY <2>1, <2>2, <1>5, FinishFacts DEF Ordered, InTurn
<1>6. CASE Clear
  BY <1>6 DEF Ordered, Clear
<1>7. CASE UNCHANGED vars
  <2>1. /\ throws' = throws /\ clears' = clears /\ delivered' = delivered
        /\ buf' = buf /\ data' = data /\ pc' = pc /\ arrived' = arrived /\ pos' = pos
    BY <1>7 DEF vars, calls
  <2>2. skipped' = skipped
    BY <1>7, Zenon DEF vars
  <2>3. Held' = Held /\ Done' = Done
    BY <2>1 DEF Held, Done
  <2>4. Begin' = Begin
    BY <2>1, <2>3 DEF Begin
  <2> QED BY <2>1, <2>2, <2>3, <2>4 DEF Ordered, InTurn
<1> QED BY <1>2, <1>3, <1>4, <1>5, <1>6, <1>7 DEF Next

LEMMA StepMaps ==
  ASSUME Inv, Returning, MaxClears = 0, Ordered, [Next]_vars
  PROVE  [FeedSpec!Next]_FeedSpec!vars
<1>1. CASE Receive \/ Retry
  <2>1. PICK n \in Chunks : Handle(n) \/ Refuse(n)
    BY <1>1 DEF Receive, Retry
  <2>2. n \in Nat
    BY PacketAssumption DEF PacketAssumption
  <2>3. CASE Handle(n)
    <3>1. arrived' = arrived + n /\ arrived + n <= Last /\ delivered' = delivered
      BY <2>3 DEF Handle
    <3>2. arrived' \in arrived .. Bounds[Len(Bounds)]
      <4>1. arrived' \in arrived .. Last
        BY <3>1, <2>2, StateFacts, BoundFacts, SMTT(20)
      <4> QED BY <4>1 DEF Last
    <3> QED BY <3>1, <3>2 DEF FeedSpec!Next, FeedSpec!Arrive
  <2>4. CASE Refuse(n)
    BY <2>4 DEF Refuse, FeedSpec!vars
  <2> QED BY <2>1, <2>3, <2>4
<1>2. CASE Deliver
  <2>1. pc # "idle" /\ arrived' = arrived
    BY <1>2 DEF Deliver
  <2>2. PICK n \in HasNext(Span) \ {0} : delivered' = Append(delivered, SubSeq(Span, 1, n))
    BY <1>2 DEF Deliver
  <2>3. LET k == Len(delivered) + 1 IN
        /\ k < Len(Bounds)
        /\ Bounds[k + 1] <= arrived
        /\ delivered' = Append(delivered, Packet(k))
    BY <2>1, <2>2, TheNext
  <2>4. \A k : Packet(k) = FeedSpec!Packet(k)
    BY DEF Packet, FeedSpec!Packet, Size
  <2> QED BY <2>1, <2>3, <2>4 DEF FeedSpec!Next, FeedSpec!Deliver
<1>3. CASE CallbackThrows
  BY <1>3 DEF Ordered, CallbackThrows, Returning
<1>4. CASE Finish
  BY <1>4 DEF Finish, FeedSpec!vars
<1>5. CASE Clear
  BY <1>5 DEF Ordered, Clear
<1>6. CASE UNCHANGED vars
  BY <1>6 DEF vars, FeedSpec!vars
<1> QED BY <1>1, <1>2, <1>3, <1>4, <1>5, <1>6 DEF Next

\* As long as no callback throws and no connection breaks, the packets come
\* out one after the other, each once and only when it is all there, whatever
\* the chunks and the buffer: octets that are refused or cannot be read leave
\* the order as it is (util.hpp:113-139).  That every packet comes out in the
\* end is left to the run.
THEOREM PacketsComeInTurn ==
  ASSUME Returning, MaxClears = 0
  PROVE  Spec => FeedSpec!Safety
<1>1. Init => FeedSpec!Init
  BY DEF Init, FeedSpec!Init
<1>2. Init => Inv /\ Ordered
  BY InitInv, OrderedStart
<1>3. Inv /\ Ordered /\ [Next]_vars => Inv' /\ Ordered' /\ [FeedSpec!Next]_FeedSpec!vars
  BY NextInv, OrderedStep, StepMaps
<1> QED BY <1>1, <1>2, <1>3, PTL DEF Spec, FeedSpec!Safety
=============================================================================
