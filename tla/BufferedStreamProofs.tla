------------------------- MODULE BufferedStreamProofs -------------------------
(***************************************************************************)
(* BufferedStream keeps its invariant and implements PeekableStream, for   *)
(* every message and however deep peeks nest.                              *)
(***************************************************************************)
EXTENDS BufferedStream, SequenceTheorems, TLAPS

\* The inductive invariant: the positions nest, and buffer and stream fit.
Inv == TypeOK /\ PositionsNest /\ BufferCoherent

-----------------------------------------------------------------------------

LEMMA MessageFacts ==
  /\ Data \in Seq(Nat)
  /\ Len(Data) \in Nat
  /\ \A i \in 1 .. Len(Data) : Data[i] \in Nat
  /\ Zero \in Nat /\ MaxRead \in Nat /\ MaxPeeks \in Nat
BY BufferedStreamAssumption, LenProperties, ElementOfSeq DEF BufferedStreamAssumption

\* n elements of a sequence, taken from behind the first a.
LEMMA SliceFacts ==
  ASSUME NEW d \in Seq(Nat), NEW a \in Nat, NEW n \in Nat, a + n <= Len(d)
  PROVE  /\ SubSeq(d, a + 1, a + n) \in Seq(Nat)
         /\ Len(SubSeq(d, a + 1, a + n)) = n
         /\ \A i \in 1 .. n : SubSeq(d, a + 1, a + n)[i] = d[a + i]
OBVIOUS

\* Two sequences, one behind the other.
LEMMA ConcatFacts ==
  ASSUME NEW s \in Seq(Nat), NEW t \in Seq(Nat)
  PROVE  /\ s \o t \in Seq(Nat) /\ Len(s \o t) = Len(s) + Len(t)
         /\ \A i \in 1 .. Len(s) + Len(t) :
              (s \o t)[i] = IF i <= Len(s) THEN s[i] ELSE t[i - Len(s)]
BY ConcatProperties

LEMMA TypeFacts ==
  ASSUME Inv
  PROVE  /\ buffer \in Seq(Nat) /\ Len(buffer) \in Nat
         /\ guards \in Seq(Nat) /\ Len(guards) \in Nat
         /\ read_pos \in 0 .. Len(Data) /\ real_pos \in Nat
         /\ look_ahead_pos \in Nat /\ look_ahead_pos <= Len(buffer)
         /\ failed \in BOOLEAN
         /\ guards # <<>> => guards[1] \in Nat /\ guards[Len(guards)] \in Nat
         /\ \A i \in 1 .. Len(guards) : guards[i] \in Nat
         /\ guards # <<>> => Len(guards) >= 1
         /\ Unread \in Nat
         /\ Floor \in Nat
         /\ Floor <= look_ahead_pos
         /\ pos \in Nat
<1>0. guards \in Seq(Nat) /\ buffer \in Seq(Nat)
  BY DEF Inv, TypeOK
<1>1. /\ Len(buffer) \in Nat /\ Len(guards) \in Nat
      /\ \A i \in 1 .. Len(guards) : guards[i] \in Nat
  BY <1>0, LenProperties, ElementOfSeq
<1>2. guards # <<>> => Len(guards) >= 1
  <2>1. guards # <<>> => Len(guards) \in Nat \ {0}
    BY <1>0, EmptySeq
  <2> QED BY <2>1
<1>3. guards # <<>> => guards[1] \in Nat /\ guards[Len(guards)] \in Nat
  <2>1. guards # <<>> => 1 \in 1 .. Len(guards) /\ Len(guards) \in 1 .. Len(guards)
    BY <1>1, <1>2
  <2> QED BY <1>0, <2>1, ElementOfSeq
<1>4. /\ look_ahead_pos \in Nat /\ real_pos \in Nat /\ look_ahead_pos <= Len(buffer)
      /\ read_pos \in 0 .. Len(Data) /\ failed \in BOOLEAN
  BY DEF Inv, TypeOK, PositionsNest
<1>5. guards # <<>> => guards[1] <= look_ahead_pos
  BY <1>1, <1>2 DEF Inv, PositionsNest
<1>6. Unread \in Nat /\ pos \in Nat
  BY <1>1, <1>4 DEF Unread, pos
<1>7. Floor \in Nat /\ Floor <= look_ahead_pos
  BY <1>3, <1>4, <1>5 DEF Floor, is_peeking
<1> QED BY <1>0, <1>1, <1>2, <1>3, <1>4, <1>6, <1>7

\* What the buffer serves is in it.
LEMMA FromBufferFacts ==
  ASSUME Inv, NEW s \in Nat
  PROVE  /\ FromBuffer(s) \in 0 .. s
         /\ FromBuffer(s) <= Unread
         /\ FromBuffer(s) # s => FromBuffer(s) = Unread
BY TypeFacts DEF FromBuffer

\* read_from_buffer either leaves the buffer where it is, or drops one that
\* nobody needs any more and accounts for all of it.
LEMMA AfterBufferFacts ==
  ASSUME Inv, NEW rs \in Nat, rs <= Unread
  PROVE  LET b == AfterBuffer(rs) IN
         \/ /\ b.buffer = buffer
            /\ b.real_pos = real_pos
            /\ b.look_ahead_pos = look_ahead_pos + rs
         \/ /\ guards = <<>>
            /\ look_ahead_pos + rs = Len(buffer)
            /\ b.buffer = <<>>
            /\ b.real_pos = real_pos + Len(buffer)
            /\ b.look_ahead_pos = 0
<1>1. CASE Drained(rs)
  <2>1. look_ahead_pos + rs = Len(buffer) /\ guards = <<>>
    BY <1>1 DEF Drained, is_peeking
  <2>2. real_pos + look_ahead_pos + rs = real_pos + Len(buffer)
    BY <2>1, TypeFacts
  <2>3. AfterBuffer(rs) = [buffer |-> <<>>, look_ahead_pos |-> 0,
                           real_pos |-> real_pos + Len(buffer)]
    BY <1>1, <2>2 DEF AfterBuffer
  <2> QED BY <2>1, <2>3
<1>2. CASE ~Drained(rs)
  BY <1>2 DEF AfterBuffer
<1> QED BY <1>1, <1>2

\* The octets octet_span_istream hands out.
LEMMA StreamFacts ==
  ASSUME Inv, NEW n \in Nat, StreamHas(n)
  PROVE  /\ StreamOctets(n) \in Seq(Nat)
         /\ Len(StreamOctets(n)) = n
         /\ \A i \in 1 .. n : StreamOctets(n)[i] = Data[read_pos + i]
         /\ read_pos + n \in 0 .. Len(Data)
<1>1. read_pos \in Nat /\ read_pos + n <= Len(Data)
  BY TypeFacts, MessageFacts DEF StreamHas
<1>2. Data \in Seq(Nat) /\ Len(Data) \in Nat
  BY MessageFacts
<1>3. read_pos + n \in 0 .. Len(Data)
  BY <1>1, <1>2
<1>4. /\ SubSeq(Data, read_pos + 1, read_pos + n) \in Seq(Nat)
      /\ Len(SubSeq(Data, read_pos + 1, read_pos + n)) = n
      /\ \A i \in 1 .. n : SubSeq(Data, read_pos + 1, read_pos + n)[i] = Data[read_pos + i]
  BY <1>1, <1>2, SliceFacts
<1> QED BY <1>3, <1>4 DEF StreamOctets

LEMMA ResultFacts ==
  /\ \A o \in Seq(Nat) : Ok(o) \in Results
  /\ EndOfStream \in Results
  /\ None \in Results
  /\ \A k \in BOOLEAN : Ended(k) \in Results
BY EmptySeq DEF Ok, EndOfStream, None, Ended, Results

LEMMA InitInv == Init => Inv
<1> SUFFICES ASSUME Init PROVE Inv
  OBVIOUS
<1>1. <<>> \in Seq(Nat) /\ Len(<<>>) = 0
  BY EmptySeq
<1>2. TypeOK
  <2>1. failed \in BOOLEAN
    BY Zenon DEF Init
  <2>2. 0 \in 0 .. Len(Data)
    BY MessageFacts
  <2> QED BY <1>1, <2>1, <2>2, ResultFacts DEF Init, TypeOK
<1>3. PositionsNest
  BY <1>1 DEF Init, PositionsNest
<1>4. BufferMeetsStream /\ BufferIsGenuine
  BY <1>1 DEF Init, BufferMeetsStream, BufferIsGenuine
<1> QED BY <1>2, <1>3, <1>4 DEF Inv, BufferCoherent

-----------------------------------------------------------------------------

\* What a step does to the buffer, said once for the three kinds of it.

\* The invariant depends on the buffer only through these; a step that keeps
\* the guards where they are has to show no more.
LEMMA SameGuards ==
  ASSUME Inv, UNCHANGED <<guards, failed>>,
         buffer' \in Seq(Nat), look_ahead_pos' \in Nat, real_pos' \in Nat,
         read_pos' \in 0 .. Len(Data),
         result' \in Results,
         look_ahead_pos <= look_ahead_pos' \/ guards = <<>>,
         look_ahead_pos' <= Len(buffer'),
         ~failed => BufferMeetsStream' /\ BufferIsGenuine'
  PROVE  Inv'
<1>1. TypeOK'
  BY TypeFacts DEF TypeOK
<1>2. PositionsNest'
  <2>1. guards' = guards /\ PositionsNest
    BY DEF Inv
  <2>2. \A i \in 1 .. Len(guards) : guards[i] <= look_ahead_pos'
    <3>1. CASE guards = <<>>
      BY <3>1, EmptySeq
    <3>2. CASE look_ahead_pos <= look_ahead_pos'
      <4> SUFFICES ASSUME NEW i \in 1 .. Len(guards) PROVE guards[i] <= look_ahead_pos'
        OBVIOUS
      <4>1. guards[i] <= look_ahead_pos
        BY <2>1 DEF PositionsNest
      <4>2. guards[i] \in Nat /\ look_ahead_pos \in Nat
        BY TypeFacts
      <4> QED BY <3>2, <4>1, <4>2
    <3> QED BY <3>1, <3>2
  <2> QED BY <2>1, <2>2 DEF PositionsNest
<1>3. BufferCoherent'
  BY DEF BufferCoherent
<1> QED BY <1>1, <1>2, <1>3 DEF Inv


\* What read leaves of the buffer after taking rs octets out of it.
LEMMA TakeFacts ==
  ASSUME Inv, NEW rs \in Nat, rs <= Unread
  PROVE  LET b == AfterBuffer(rs) IN
         /\ b.buffer \in Seq(Nat) /\ Len(b.buffer) \in Nat
         /\ b.real_pos \in Nat /\ b.look_ahead_pos \in Nat
         /\ b.look_ahead_pos <= Len(b.buffer)
         /\ Len(b.buffer) - b.look_ahead_pos = Unread - rs
         /\ b.real_pos + Len(b.buffer) = real_pos + Len(buffer)
         /\ b.real_pos + b.look_ahead_pos = pos + rs
         /\ guards # <<>> => b.buffer = buffer /\ b.real_pos = real_pos
         /\ \/ b.buffer = buffer /\ b.real_pos = real_pos
               /\ look_ahead_pos <= b.look_ahead_pos
            \/ b.buffer = <<>> /\ guards = <<>>
<1> DEFINE b == AfterBuffer(rs)
<1>1. /\ buffer \in Seq(Nat) /\ Len(buffer) \in Nat /\ real_pos \in Nat
      /\ look_ahead_pos \in Nat /\ Unread = Len(buffer) - look_ahead_pos
      /\ pos = real_pos + look_ahead_pos
  BY TypeFacts DEF Unread, pos
<1>2. <<>> \in Seq(Nat) /\ Len(<<>>) = 0
  BY EmptySeq
<1>3. CASE b.buffer = buffer /\ b.real_pos = real_pos /\ b.look_ahead_pos = look_ahead_pos + rs
  <2> HIDE DEF b
  <2>1. b.look_ahead_pos \in Nat /\ b.look_ahead_pos <= Len(buffer) /\ look_ahead_pos <= b.look_ahead_pos
    BY <1>1, <1>3
  <2> QED BY <1>1, <1>3, <2>1 DEF b
<1>4. CASE /\ guards = <<>> /\ look_ahead_pos + rs = Len(buffer) /\ b.buffer = <<>>
           /\ b.real_pos = real_pos + Len(buffer) /\ b.look_ahead_pos = 0
  <2> HIDE DEF b
  <2> QED BY <1>1, <1>2, <1>4 DEF b
<1> QED BY <1>3, <1>4, AfterBufferFacts

\* What read hands out of the buffer.
LEMMA BufferedFacts ==
  ASSUME Inv, NEW rs \in Nat, rs <= Unread
  PROVE  /\ Buffered(rs) \in Seq(Nat) /\ Len(Buffered(rs)) = rs
         /\ \A i \in 1 .. rs : Buffered(rs)[i] = buffer[look_ahead_pos + i]
<1>1. buffer \in Seq(Nat) /\ look_ahead_pos \in Nat /\ Len(buffer) \in Nat
  BY TypeFacts
<1>2. look_ahead_pos + rs <= Len(buffer)
  BY <1>1 DEF Unread
<1> QED BY <1>1, <1>2, SliceFacts DEF Buffered

LEMMA ReadBufferedInv ==
  ASSUME Inv, NEW s \in Nat, ReadBuffered(s)
  PROVE  Inv'
<1> DEFINE b == AfterBuffer(s)
<1>1. s <= Unread
  BY FromBufferFacts DEF ReadBuffered
<1>2. /\ buffer' = b.buffer /\ look_ahead_pos' = b.look_ahead_pos /\ real_pos' = b.real_pos
      /\ UNCHANGED <<read_pos, guards, failed>>
  BY DEF ReadBuffered
<1>3. result' \in Results
  <2>1. Buffered(s) \in Seq(Nat)
    BY <1>1, BufferedFacts
  <2> QED BY <2>1, ResultFacts DEF ReadBuffered
<1>4. ASSUME ~failed PROVE BufferMeetsStream' /\ BufferIsGenuine'
  <2>1. BufferMeetsStream /\ BufferIsGenuine
    BY <1>4 DEF Inv, BufferCoherent
  <2>2. BufferMeetsStream'
    BY <1>1, <1>2, <2>1, TakeFacts DEF BufferMeetsStream
  <2>3. ASSUME buffer' = buffer, real_pos' = real_pos, look_ahead_pos <= look_ahead_pos'
        PROVE  BufferIsGenuine'
    <3>1. Floor <= Floor' /\ Floor \in Nat /\ Floor' \in Nat
      BY <1>2, <2>3, TypeFacts, <1>1, TakeFacts, SMTT(20) DEF Floor, is_peeking
    <3> QED BY <2>1, <2>3, <3>1 DEF BufferIsGenuine
  <2>4. ASSUME buffer' = <<>> PROVE BufferIsGenuine'
    BY <2>4, EmptySeq DEF BufferIsGenuine
  <2>5. \/ buffer' = buffer /\ real_pos' = real_pos /\ look_ahead_pos <= look_ahead_pos'
        \/ buffer' = <<>>
    BY <1>1, <1>2, TakeFacts
  <2> QED BY <2>2, <2>3, <2>4, <2>5
<1>5. look_ahead_pos <= look_ahead_pos' \/ guards = <<>>
  BY <1>1, <1>2, TakeFacts
<1>6. /\ buffer' \in Seq(Nat) /\ look_ahead_pos' \in Nat /\ real_pos' \in Nat
      /\ look_ahead_pos' <= Len(buffer') /\ read_pos' \in 0 .. Len(Data)
  BY <1>1, <1>2, TakeFacts, TypeFacts
<1> QED BY <1>2, <1>3, <1>4, <1>5, <1>6, SameGuards

\* A step that appends to the buffer what it takes from the stream, with no
\* reader or guard moving back, keeps the two together.
LEMMA ExtendFacts ==
  ASSUME Inv, ~failed, NEW n \in Nat, StreamHas(n),
         buffer' = buffer \o StreamOctets(n), real_pos' = real_pos,
         read_pos' = read_pos + n, Floor' \in Nat, Floor <= Floor'
  PROVE  BufferMeetsStream' /\ BufferIsGenuine'
<1> DEFINE o == StreamOctets(n)
<1>1. /\ buffer \in Seq(Nat) /\ Len(buffer) \in Nat /\ real_pos \in Nat /\ Floor \in Nat
      /\ read_pos \in Nat /\ read_pos + n <= Len(Data) /\ Len(Data) \in Nat
  BY TypeFacts, MessageFacts DEF StreamHas
<1>2. o \in Seq(Nat) /\ Len(o) = n /\ \A i \in 1 .. n : o[i] = Data[read_pos + i]
  BY StreamFacts
<1>3. BufferMeetsStream /\ BufferIsGenuine
  BY DEF Inv, BufferCoherent
<1> HIDE DEF o
<1>4. /\ Len(buffer \o o) = Len(buffer) + n
      /\ \A i \in 1 .. Len(buffer) + n :
           (buffer \o o)[i] = IF i <= Len(buffer) THEN buffer[i] ELSE o[i - Len(buffer)]
  <2>1. o \in Seq(Nat) /\ buffer \in Seq(Nat)
    BY <1>1, <1>2
  <2>2. Len(o) = n
    BY <1>2
  <2> QED BY <2>1, <2>2, ConcatFacts
<1>5. buffer' = buffer \o o
  BY DEF o
<1>6. n # 0 => real_pos + Len(buffer) = read_pos
  BY <1>1, <1>3 DEF BufferMeetsStream
<1>7. BufferMeetsStream'
  <2>1. Len(buffer') = Len(buffer) + n
    BY <1>4, <1>5
  <2>2. CASE n = 0
    BY <1>1, <1>3, <2>1, <2>2 DEF BufferMeetsStream
  <2>3. CASE n # 0
    <3>0. real_pos + Len(buffer) = read_pos
      BY <1>6, <2>3
    <3>2. real_pos \in Nat /\ Len(buffer) \in Nat /\ read_pos \in Nat
      BY <1>1
    <3>1. real_pos + (Len(buffer) + n) = read_pos + n
      BY <3>0, <3>2, SMTT(20)
    <3> QED BY <2>1, <3>1 DEF BufferMeetsStream
  <2> QED BY <2>2, <2>3
<1>8. BufferIsGenuine'
  <2> SUFFICES ASSUME NEW i \in 1 .. Len(buffer) + n, Floor' < i
               PROVE  (buffer \o o)[i] = Data[real_pos + i]
    BY <1>4, <1>5 DEF BufferIsGenuine
  <2>1. CASE i <= Len(buffer)
    <3>1. i \in 1 .. Len(buffer) /\ Floor < i
      BY <1>1, <2>1
    <3> QED BY <1>3, <1>4, <2>1, <3>1 DEF BufferIsGenuine
  <2>2. CASE ~(i <= Len(buffer))
    <3>1. i - Len(buffer) \in 1 .. n /\ n # 0
      BY <1>1, <2>2
    <3>2. read_pos + (i - Len(buffer)) = real_pos + i
      <4>1. real_pos + Len(buffer) = read_pos
        BY <1>6, <3>1
      <4>2. real_pos \in Nat /\ Len(buffer) \in Nat /\ read_pos \in Nat /\ i \in Int
        BY <1>1
      <4> QED BY <4>1, <4>2, SMTT(30)
    <3>3. (buffer \o o)[i] = o[i - Len(buffer)]
      BY <1>4, <2>2
    <3>4. o[i - Len(buffer)] = Data[read_pos + (i - Len(buffer))]
      BY <1>2, <3>1
    <3> QED BY <3>2, <3>3, <3>4
  <2> QED BY <2>1, <2>2
<1> QED BY <1>7, <1>8

\* What read has taken from the buffer when it goes on to the stream.
LEMMA ReadOnFacts ==
  ASSUME Inv, NEW s \in Nat, FromBuffer(s) # s
  PROVE  /\ FromBuffer(s) \in Nat /\ FromBuffer(s) = Unread
         /\ s - FromBuffer(s) \in Nat /\ s - FromBuffer(s) # 0
         /\ look_ahead_pos + FromBuffer(s) = Len(buffer)
<1>1. /\ FromBuffer(s) \in 0 .. s /\ FromBuffer(s) = Unread
      /\ look_ahead_pos \in Nat /\ Len(buffer) \in Nat
  BY FromBufferFacts, TypeFacts
<1> QED BY <1>1 DEF Unread

LEMMA ReadThroughInv ==
  ASSUME Inv, NEW s \in Nat, ReadThrough(s)
  PROVE  Inv'
<1> DEFINE rs == FromBuffer(s)
           b == AfterBuffer(rs)
           more == s - rs
<1>1. /\ rs # s /\ StreamHas(more) /\ read_pos' = read_pos + more
      /\ UNCHANGED <<guards, failed>>
      /\ result' = Ok(Buffered(rs) \o StreamOctets(more))
  BY DEF ReadThrough
<1>2. /\ rs \in Nat /\ rs <= Unread /\ more \in Nat /\ look_ahead_pos + rs = Len(buffer)
      /\ Unread - rs = 0
  BY <1>1, ReadOnFacts, TypeFacts, SMTT(20)
<1>3. /\ is_peeking => /\ buffer' = b.buffer \o StreamOctets(more)
                       /\ look_ahead_pos' = b.look_ahead_pos + more
                       /\ real_pos' = b.real_pos
      /\ ~is_peeking => /\ buffer' = b.buffer
                        /\ look_ahead_pos' = b.look_ahead_pos
                        /\ real_pos' = b.real_pos + more
  BY DEF ReadThrough
<1> HIDE DEF rs, more, b
<1>4. result' \in Results
  <2>1. Buffered(rs) \in Seq(Nat) /\ StreamOctets(more) \in Seq(Nat)
    BY <1>1, <1>2, BufferedFacts, StreamFacts
  <2>2. Buffered(rs) \o StreamOctets(more) \in Seq(Nat)
    BY <2>1
  <2> QED BY <1>1, <2>2, ResultFacts
<1>5. read_pos' \in 0 .. Len(Data)
  BY <1>1, <1>2, StreamFacts
<1>6. /\ b.buffer \in Seq(Nat) /\ Len(b.buffer) \in Nat
      /\ b.real_pos \in Nat /\ b.look_ahead_pos \in Nat
      /\ b.look_ahead_pos = Len(b.buffer)
      /\ b.real_pos + Len(b.buffer) = real_pos + Len(buffer)
      /\ guards # <<>> => b.buffer = buffer /\ b.real_pos = real_pos
  <2>1. Len(b.buffer) - b.look_ahead_pos = 0 /\ Len(b.buffer) \in Nat /\ b.look_ahead_pos \in Nat
    BY <1>2, TakeFacts DEF b
  <2>2. b.look_ahead_pos = Len(b.buffer)
    BY <2>1
  <2> QED BY <1>2, <2>2, TakeFacts DEF b
<1>7. CASE is_peeking
  <2>1. guards # <<>> /\ buffer' = buffer \o StreamOctets(more) /\ real_pos' = real_pos
    BY <1>3, <1>6, <1>7 DEF is_peeking
  <2>2. StreamOctets(more) \in Seq(Nat) /\ Len(StreamOctets(more)) = more
    BY <1>1, <1>2, StreamFacts
  <2>3. /\ buffer' \in Seq(Nat) /\ Len(buffer') = Len(buffer) + more
        /\ look_ahead_pos' = Len(buffer) + more
    <3>1. look_ahead_pos' = b.look_ahead_pos + more /\ b.look_ahead_pos = Len(buffer)
      BY <1>3, <1>6, <1>7, <2>1
    <3>2. buffer \in Seq(Nat)
      BY TypeFacts
    <3>3. buffer' \in Seq(Nat) /\ Len(buffer') = Len(buffer) + more
      BY <2>1, <2>2, <3>2, ConcatFacts
    <3> QED BY <3>1, <3>3
  <2>4. Floor' = Floor
    BY <1>1, <2>1 DEF Floor, is_peeking
  <2>5. ASSUME ~failed PROVE BufferMeetsStream' /\ BufferIsGenuine'
    <3>1. Floor' \in Nat /\ Floor <= Floor'
      BY <2>4, TypeFacts
    <3>2. more \in Nat /\ StreamHas(more) /\ read_pos' = read_pos + more
      BY <1>1, <1>2
    <3> QED BY <2>1, <2>5, <3>1, <3>2, ExtendFacts
  <2>6. /\ look_ahead_pos' \in Nat /\ look_ahead_pos <= look_ahead_pos'
        /\ look_ahead_pos' <= Len(buffer') /\ real_pos' \in Nat
    <3>1. Len(buffer) \in Nat /\ look_ahead_pos \in Nat /\ look_ahead_pos <= Len(buffer)
      BY TypeFacts
    <3>2. more \in Nat /\ real_pos' \in Nat
      BY <1>2, <2>1, TypeFacts
    <3> QED BY <2>3, <3>1, <3>2, SMTT(30)
  <2> QED BY <1>1, <1>4, <1>5, <2>3, <2>5, <2>6, SameGuards
<1>8. CASE ~is_peeking
  <2>1. /\ guards = <<>> /\ buffer' = b.buffer /\ look_ahead_pos' = b.look_ahead_pos
        /\ real_pos' = b.real_pos + more
    BY <1>3, <1>8 DEF is_peeking
  <2>2. ASSUME ~failed PROVE BufferMeetsStream' /\ BufferIsGenuine'
    <3>1. BufferMeetsStream
      BY <2>2 DEF Inv, BufferCoherent
    <3>2. more # 0 /\ read_pos + more <= Len(Data)
      BY <1>1, ReadOnFacts DEF StreamHas, rs, more
    <3>3. read_pos \in Nat /\ real_pos \in Nat /\ Len(buffer) \in Nat /\ Len(Data) \in Nat
      BY TypeFacts, MessageFacts
    <3>4. real_pos + Len(buffer) = read_pos
      BY <1>2, <3>1, <3>2, <3>3 DEF BufferMeetsStream
    <3>5. real_pos' + Len(buffer') = read_pos'
      <4>1. real_pos' + Len(buffer') = (b.real_pos + more) + Len(b.buffer)
        BY <2>1
      <4>2. b.real_pos \in Nat /\ Len(b.buffer) \in Nat /\ more \in Nat
        BY <1>2, <1>6
      <4>3. b.real_pos + Len(b.buffer) = read_pos
        BY <1>6, <3>4
      <4>4. (b.real_pos + more) + Len(b.buffer) = read_pos + more
        BY <4>2, <4>3, SMTT(30)
      <4> QED BY <1>1, <4>1, <4>4
    <3>6. Floor' = Len(buffer')
      BY <1>1, <1>6, <2>1 DEF Floor, is_peeking
    <3>7. BufferIsGenuine'
      BY <1>6, <2>1, <3>6 DEF BufferIsGenuine
    <3> QED BY <3>5, <3>7 DEF BufferMeetsStream
  <2>3. /\ buffer' \in Seq(Nat) /\ look_ahead_pos' \in Nat /\ real_pos' \in Nat
        /\ look_ahead_pos' <= Len(buffer')
    BY <1>2, <1>6, <2>1
  <2> QED BY <1>1, <1>4, <1>5, <2>1, <2>2, <2>3, SameGuards
<1> QED BY <1>7, <1>8

LEMMA ReadFailsInv ==
  ASSUME Inv, NEW s \in Nat, ReadFails(s)
  PROVE  Inv'
<1> DEFINE rs == FromBuffer(s)
           b == AfterBuffer(rs)
<1>1. /\ rs # s /\ read_pos' = Len(Data) /\ UNCHANGED <<guards, failed>>
      /\ buffer' = b.buffer /\ look_ahead_pos' = b.look_ahead_pos /\ real_pos' = b.real_pos
      /\ result' = EndOfStream
  BY DEF ReadFails
<1>2. rs \in Nat /\ rs <= Unread /\ Unread - rs = 0
  BY <1>1, ReadOnFacts, TypeFacts
<1> HIDE DEF rs, b
<1>3. /\ buffer' \in Seq(Nat) /\ Len(buffer') \in Nat /\ real_pos' \in Nat
      /\ look_ahead_pos' \in Nat /\ look_ahead_pos' = Len(buffer')
      /\ real_pos' + Len(buffer') = real_pos + Len(buffer)
      /\ look_ahead_pos <= look_ahead_pos' \/ guards = <<>>
      /\ guards # <<>> => buffer' = buffer /\ real_pos' = real_pos
  <2>1. /\ Len(buffer') - look_ahead_pos' = 0 /\ Len(buffer') \in Nat /\ look_ahead_pos' \in Nat
    BY <1>1, <1>2, TakeFacts DEF b
  <2>2. look_ahead_pos' = Len(buffer')
    BY <2>1
  <2> QED BY <1>1, <1>2, <2>2, TakeFacts DEF b
<1>4. read_pos' \in 0 .. Len(Data) /\ result' \in Results
  BY <1>1, MessageFacts, ResultFacts
<1>5. ASSUME ~failed PROVE BufferMeetsStream' /\ BufferIsGenuine'
  <2>1. BufferMeetsStream /\ BufferIsGenuine
    BY <1>5 DEF Inv, BufferCoherent
  <2>2. real_pos + Len(buffer) <= Len(Data)
    BY <2>1, TypeFacts, MessageFacts DEF BufferMeetsStream
  <2>3. BufferMeetsStream'
    BY <1>1, <1>3, <2>2 DEF BufferMeetsStream
  <2>4. CASE guards = <<>>
    <3>1. Floor' = Len(buffer')
      BY <1>1, <1>3, <2>4 DEF Floor, is_peeking
    <3>2. BufferIsGenuine'
      BY <1>3, <3>1 DEF BufferIsGenuine
    <3> QED BY <2>3, <3>2
  <2>5. CASE guards # <<>>
    <3>1. Floor' = Floor /\ buffer' = buffer /\ real_pos' = real_pos
      BY <1>1, <1>3, <2>5 DEF Floor, is_peeking
    <3>2. BufferIsGenuine'
      BY <2>1, <3>1 DEF BufferIsGenuine
    <3> QED BY <2>3, <3>2
  <2> QED BY <2>4, <2>5
<1>6. look_ahead_pos' <= Len(buffer')
  BY <1>3
<1> QED BY <1>1, <1>3, <1>4, <1>5, <1>6, SameGuards

LEMMA ReadableBytesInv ==
  ASSUME Inv, NEW s \in Nat, ReadableBytes(s)
  PROVE  Inv'
<1> DEFINE more == s - FromBuffer(s)
<1>1. /\ more > 0 => StreamHas(more)
      /\ buffer' = buffer \o StreamOctets(more) /\ read_pos' = read_pos + more
      /\ result' = Ok(<<>>)
      /\ UNCHANGED <<look_ahead_pos, real_pos, guards, failed>>
  BY DEF ReadableBytes
<1>2. more \in Nat
  BY FromBufferFacts
<1> HIDE DEF more
<1>3. StreamHas(more)
  <2>1. CASE more = 0
    BY <2>1, TypeFacts, MessageFacts DEF StreamHas
  <2>2. CASE more # 0
    BY <1>1, <1>2, <2>2
  <2> QED BY <2>1, <2>2
<1>4. /\ StreamOctets(more) \in Seq(Nat) /\ Len(StreamOctets(more)) = more
      /\ read_pos' \in 0 .. Len(Data)
  BY <1>1, <1>2, <1>3, StreamFacts
<1>5. buffer' \in Seq(Nat) /\ Len(buffer') = Len(buffer) + more
  <2>1. buffer \in Seq(Nat)
    BY TypeFacts
  <2> QED BY <1>1, <1>4, <2>1, ConcatFacts
<1>6. result' \in Results
  BY <1>1, ResultFacts, EmptySeq
<1>7. ASSUME ~failed PROVE BufferMeetsStream' /\ BufferIsGenuine'
  <2>1. Floor' = Floor /\ Floor \in Nat
    BY <1>1, TypeFacts DEF Floor, is_peeking
  <2>2. real_pos' = real_pos
    BY <1>1
  <2>3. Floor' \in Nat /\ Floor <= Floor'
    BY <2>1
  <2> QED BY <1>1, <1>2, <1>3, <1>7, <2>2, <2>3, ExtendFacts
<1>8. /\ look_ahead_pos' \in Nat /\ look_ahead_pos <= look_ahead_pos' /\ real_pos' \in Nat
  BY <1>1, TypeFacts
<1>9. look_ahead_pos' <= Len(buffer')
  <2>1. look_ahead_pos <= Len(buffer) /\ look_ahead_pos \in Nat /\ Len(buffer) \in Nat
    BY TypeFacts
  <2>2. look_ahead_pos <= Len(buffer) + more
    BY <1>2, <2>1
  <2> QED BY <1>1, <1>5, <2>2
<1> QED BY <1>1, <1>4, <1>5, <1>6, <1>7, <1>8, <1>9, SameGuards

LEMMA ReadableBytesFailsInv ==
  ASSUME Inv, NEW s \in Nat, ReadableBytesFails(s)
  PROVE  Inv'
<1> DEFINE more == s - FromBuffer(s)
           zeros == [i \in 1 .. more |-> Zero]
<1>1. /\ buffer' = buffer \o zeros /\ read_pos' = Len(Data)
      /\ result' = EndOfStream /\ failed' = TRUE
      /\ UNCHANGED <<look_ahead_pos, real_pos, guards>>
  BY DEF ReadableBytesFails
<1>2. more \in Nat
  BY FromBufferFacts
<1>3. zeros \in Seq(Nat) /\ Len(zeros) = more
  BY <1>2, MessageFacts
<1> HIDE DEF more, zeros
<1>4. buffer' \in Seq(Nat) /\ Len(buffer') = Len(buffer) + more
  <2>1. buffer \in Seq(Nat)
    BY TypeFacts
  <2> QED BY <1>1, <1>3, <2>1, ConcatFacts
<1>5. TypeOK'
  <2>1. failed' \in BOOLEAN
    BY <1>1, Zenon
  <2>2. read_pos' \in 0 .. Len(Data) /\ result' \in Results
    BY <1>1, MessageFacts, ResultFacts
  <2>3. look_ahead_pos' \in Nat /\ real_pos' \in Nat /\ guards' \in Seq(Nat)
    BY <1>1, TypeFacts
  <2> QED BY <1>4, <2>1, <2>2, <2>3 DEF TypeOK
<1>6. PositionsNest'
  <2>1. look_ahead_pos <= Len(buffer) /\ look_ahead_pos \in Nat /\ Len(buffer) \in Nat
    BY TypeFacts
  <2>2. look_ahead_pos <= Len(buffer) + more
    BY <1>2, <2>1
  <2>3. PositionsNest
    BY DEF Inv
  <2> QED BY <1>1, <1>4, <2>2, <2>3 DEF PositionsNest
<1>7. BufferCoherent'
  BY <1>1 DEF BufferCoherent
<1> QED BY <1>5, <1>6, <1>7 DEF Inv

\* A step that moves neither the buffer nor the streams, and does not let
\* anybody read further back, keeps buffer and stream together.
LEMMA SameBuffer ==
  ASSUME Inv, UNCHANGED <<read_pos, buffer, real_pos, failed>>,
         Floor' \in Nat, Floor <= Floor'
  PROVE  BufferCoherent'
<1> SUFFICES ASSUME ~failed PROVE BufferMeetsStream' /\ BufferIsGenuine'
  BY DEF BufferCoherent
<1>1. BufferMeetsStream /\ BufferIsGenuine
  BY DEF Inv, BufferCoherent
<1>2. BufferMeetsStream'
  BY <1>1 DEF BufferMeetsStream
<1>3. BufferIsGenuine'
  <2> SUFFICES ASSUME NEW i \in 1 .. Len(buffer), Floor' < i
               PROVE  buffer[i] = Data[real_pos + i]
    BY DEF BufferIsGenuine
  <2>1. Floor < i
    BY TypeFacts
  <2> QED BY <1>1, <2>1 DEF BufferIsGenuine
<1> QED BY <1>2, <1>3

LEMMA StartPeekInv ==
  ASSUME Inv, StartPeek
  PROVE  Inv'
<1>1. /\ guards' = Append(guards, look_ahead_pos) /\ result' = None
      /\ UNCHANGED <<read_pos, buffer, look_ahead_pos, real_pos, failed>>
  BY DEF StartPeek
<1>2. /\ guards \in Seq(Nat) /\ Len(guards) \in Nat /\ look_ahead_pos \in Nat
      /\ \A i \in 1 .. Len(guards) : guards[i] \in Nat
  BY TypeFacts
<1>3. /\ guards' \in Seq(Nat) /\ guards' # <<>> /\ Len(guards') = Len(guards) + 1
      /\ \A i \in 1 .. Len(guards) : guards'[i] = guards[i]
      /\ guards'[Len(guards) + 1] = look_ahead_pos
  BY <1>1, <1>2, AppendProperties
<1>4. TypeOK'
  BY <1>1, <1>3, TypeFacts, ResultFacts DEF TypeOK
<1>5. PositionsNest'
  <2>1. PositionsNest
    BY DEF Inv
  <2> SUFFICES ASSUME NEW i \in 1 .. Len(guards) + 1
               PROVE  /\ guards'[i] <= look_ahead_pos
                      /\ \A j \in 1 .. Len(guards) + 1 : i <= j => guards'[i] <= guards'[j]
    BY <1>1, <1>3, <2>1 DEF PositionsNest
  <2>2. CASE i = Len(guards) + 1
    <3>1. \A j \in 1 .. Len(guards) + 1 : i <= j => j = i
      BY <1>2, <2>2
    <3>2. guards'[i] = look_ahead_pos
      BY <1>3, <2>2
    <3> QED BY <1>2, <3>1, <3>2
  <2>3. CASE i # Len(guards) + 1
    <3>1. i \in 1 .. Len(guards) /\ guards'[i] = guards[i]
      BY <1>2, <1>3, <2>3
    <3>2. guards[i] <= look_ahead_pos
      BY <2>1, <3>1 DEF PositionsNest
    <3> SUFFICES ASSUME NEW j \in 1 .. Len(guards) + 1, i <= j
                 PROVE  guards'[i] <= guards'[j]
      BY <3>1, <3>2
    <3>3. CASE j = Len(guards) + 1
      BY <1>3, <3>1, <3>2, <3>3
    <3>4. CASE j # Len(guards) + 1
      <4>1. j \in 1 .. Len(guards) /\ guards'[j] = guards[j]
        BY <1>2, <1>3, <3>4
      <4> QED BY <2>1, <3>1, <4>1 DEF PositionsNest
    <3> QED BY <3>3, <3>4
  <2> QED BY <2>2, <2>3
<1>6. BufferCoherent'
  <2>1. CASE guards = <<>>
    <3>1. Len(guards) = 0
      BY <2>1, EmptySeq
    <3>2. Floor' = look_ahead_pos /\ Floor = look_ahead_pos
      BY <1>1, <1>3, <2>1, <3>1 DEF Floor, is_peeking
    <3>3. Floor' \in Nat /\ Floor <= Floor'
      BY <1>2, <3>2
    <3> QED BY <1>1, <3>3, SameBuffer
  <2>2. CASE guards # <<>>
    <3>1. 1 \in 1 .. Len(guards)
      BY <1>2, <2>2, TypeFacts
    <3>2. Floor' = Floor
      BY <1>3, <2>2, <3>1 DEF Floor, is_peeking
    <3>3. Floor' \in Nat /\ Floor <= Floor'
      BY <3>2, TypeFacts
    <3> QED BY <1>1, <3>3, SameBuffer
  <2> QED BY <2>1, <2>2
<1> QED BY <1>4, <1>5, <1>6 DEF Inv

LEMMA EndPeekInv ==
  ASSUME Inv, NEW commit \in BOOLEAN, EndPeek(commit)
  PROVE  Inv'
<1> DEFINE n == Len(guards)
<1>1. /\ guards # <<>> /\ guards' = SubSeq(guards, 1, n - 1) /\ result' = Ended(commit)
      /\ UNCHANGED <<read_pos, buffer, real_pos, failed>>
  BY DEF EndPeek, is_peeking
<1>2. /\ guards \in Seq(Nat) /\ n \in Nat /\ n >= 1 /\ n \in 1 .. n
      /\ \A i \in 1 .. n : guards[i] \in Nat
      /\ look_ahead_pos \in Nat /\ Len(buffer) \in Nat
  BY <1>1, TypeFacts
<1>3. look_ahead_pos' = look_ahead_pos \/ look_ahead_pos' = guards[n]
  BY DEF EndPeek
<1>4. /\ guards' \in Seq(Nat) /\ Len(guards') = n - 1
      /\ \A i \in 1 .. n - 1 : guards'[i] = guards[i]
  <2>1. \A i \in 1 .. n - 1 : guards[i] \in Nat
    BY <1>2
  <2> HIDE DEF n
  <2> QED BY <1>1, <1>2, <2>1
<1>5. PositionsNest
  BY DEF Inv
<1>6. guards[n] <= look_ahead_pos /\ \A i \in 1 .. n : guards[i] <= guards[n]
  BY <1>2, <1>5 DEF PositionsNest
<1>7. /\ look_ahead_pos' \in Nat /\ look_ahead_pos' <= look_ahead_pos
      /\ \A i \in 1 .. n : guards[i] <= look_ahead_pos'
  BY <1>2, <1>3, <1>5, <1>6 DEF PositionsNest
<1>8. TypeOK'
  BY <1>1, <1>4, <1>7, TypeFacts, ResultFacts DEF TypeOK
<1>9. PositionsNest'
  <2>1. look_ahead_pos' <= Len(buffer')
    <3>1. look_ahead_pos <= Len(buffer)
      BY <1>5 DEF PositionsNest
    <3> QED BY <1>1, <1>2, <1>7, <3>1
  <2>2. \A i \in 1 .. n - 1 : i \in 1 .. n
    BY <1>2
  <2>3. \A i \in 1 .. n - 1 : guards'[i] <= look_ahead_pos'
    BY <1>4, <1>7, <2>2
  <2>4. \A i, j \in 1 .. n - 1 : i <= j => guards'[i] <= guards'[j]
    BY <1>4, <1>5, <2>2 DEF PositionsNest
  <2> QED BY <1>4, <2>1, <2>3, <2>4 DEF PositionsNest
<1>10. BufferCoherent'
  <2>1. CASE n = 1
    <3>1. guards' = <<>>
      BY <1>4, <2>1, EmptySeq
    <3>2. Floor' = look_ahead_pos' /\ Floor = guards[1]
      BY <1>1, <3>1 DEF Floor, is_peeking
    <3>3. Floor' \in Nat /\ Floor <= Floor'
      BY <1>2, <1>7, <3>2
    <3> QED BY <1>1, <3>3, SameBuffer
  <2>2. CASE n # 1
    <3>1. 1 \in 1 .. n - 1 /\ n - 1 # 0
      <4>1. n \in Nat /\ n >= 1
        BY <1>2
      <4> HIDE DEF n
      <4> QED BY <2>2, <4>1, SMTT(30)
    <3>2. guards' # <<>>
      BY <1>4, <3>1, EmptySeq
    <3>3. Floor' = Floor
      BY <1>1, <1>4, <3>1, <3>2 DEF Floor, is_peeking
    <3>4. Floor' \in Nat /\ Floor <= Floor'
      BY <3>3, TypeFacts
    <3> QED BY <1>1, <3>4, SameBuffer
  <2> QED BY <2>1, <2>2
<1> QED BY <1>8, <1>9, <1>10 DEF Inv

-----------------------------------------------------------------------------

LEMMA NextInv ==
  ASSUME Inv, [Next]_vars
  PROVE  Inv'
<1>0. 0 .. MaxRead \subseteq Nat
  BY MessageFacts
<1>1. ASSUME NEW s \in 0 .. MaxRead, Read(s) PROVE Inv'
  BY <1>0, <1>1, ReadBufferedInv, ReadThroughInv, ReadFailsInv DEF Read
<1>2. ASSUME NEW s \in 0 .. MaxRead, ReadableBytes(s) PROVE Inv'
  BY <1>0, <1>2, ReadableBytesInv
<1>3. ASSUME NEW s \in 0 .. MaxRead, ReadableBytesFails(s) PROVE Inv'
  BY <1>0, <1>3, ReadableBytesFailsInv
<1>4. CASE StartPeek
  BY <1>4, StartPeekInv
<1>5. ASSUME NEW commit \in BOOLEAN, EndPeek(commit) PROVE Inv'
  BY <1>5, EndPeekInv
<1>6. CASE UNCHANGED vars
  BY <1>6 DEF vars, Inv, TypeOK, PositionsNest, BufferCoherent, BufferMeetsStream,
              BufferIsGenuine, Floor, is_peeking
<1> QED BY <1>1, <1>2, <1>3, <1>4, <1>5, <1>6 DEF Next

\* The positions a buffered_stream keeps never lead out of its buffer, and
\* what can still be read is the message, however reads, look-aheads, failed
\* reads and nested peeks follow each other (buffered_stream.hpp:25-105).
THEOREM Invariance == Spec => []Inv
<1>1. Init => Inv
  BY InitInv
<1>2. Inv /\ [Next]_vars => Inv'
  BY NextInv
<1> QED BY <1>1, <1>2, PTL DEF Spec

\* Every offset stays a number of octets of the message, in every order of
\* reads, look-aheads and failures (buffered_stream.hpp:25-105).
THEOREM TypeInvariance == Spec => []TypeOK
<1>1. Inv => TypeOK
  BY DEF Inv
<1> QED BY <1>1, Invariance, PTL

\* However peeks nest, the offset each live guard would put back is within the
\* buffer and not behind an outer guard's (buffered_stream.hpp:44-52,90-101).
THEOREM GuardsNest == Spec => []PositionsNest
<1>1. Inv => PositionsNest
  BY DEF Inv
<1> QED BY <1>1, Invariance, PTL

\* Until a read has failed, the buffer and the stream together are the message,
\* and the position reported is that of the octet read next
\* (buffered_stream.hpp:39-67,103-105).
THEOREM BufferInStep == Spec => []BufferCoherent
<1>1. Inv => BufferCoherent
  BY DEF Inv
<1> QED BY <1>1, Invariance, PTL

-----------------------------------------------------------------------------

LEMMA InitPeekable == Init => P!Init
<1> SUFFICES ASSUME Init PROVE P!Init
  OBVIOUS
<1>1. Len(<<>>) = 0 /\ Len(Data) \in Nat
  BY EmptySeq, MessageFacts
<1>2. pos = 0
  BY DEF Init, pos
<1>3. Reach = Len(Data)
  BY <1>1 DEF Init, Reach
<1>4. Marks = <<>>
  BY <1>1 DEF Init, Marks
<1>5. failed = FALSE /\ result = P!None
  BY Zenon DEF Init, None, P!None
<1> QED BY <1>2, <1>3, <1>4, <1>5 DEF P!Init

\* Until a look-ahead fails, the reader's position and everything it can
\* still reach lie in the message.
LEMMA ReachFacts ==
  ASSUME Inv, ~failed
  PROVE  /\ Reach \in Nat /\ Reach <= Len(Data) /\ pos <= Reach
         /\ real_pos + Len(buffer) <= Reach
         /\ read_pos # Len(Data) => real_pos + Len(buffer) = read_pos
         /\ Reach - pos = Unread + (IF read_pos = Len(Data) THEN 0 ELSE Len(Data) - read_pos)
<1>1. /\ Len(buffer) \in Nat /\ real_pos \in Nat /\ look_ahead_pos \in Nat
      /\ look_ahead_pos <= Len(buffer) /\ read_pos \in Nat /\ read_pos <= Len(Data)
      /\ Len(Data) \in Nat
  BY TypeFacts, MessageFacts
<1>2. BufferMeetsStream
  BY DEF Inv, BufferCoherent
<1>3. CASE read_pos = Len(Data)
  <2>1. Reach = real_pos + Len(buffer) /\ real_pos + Len(buffer) <= Len(Data)
    BY <1>1, <1>2, <1>3 DEF Reach, BufferMeetsStream
  <2> QED BY <1>1, <1>3, <2>1, SMTT(30) DEF pos, Unread
<1>4. CASE read_pos # Len(Data)
  <2>1. Reach = Len(Data) /\ real_pos + Len(buffer) = read_pos
    BY <1>1, <1>2, <1>4 DEF Reach, BufferMeetsStream
  <2> QED BY <1>1, <1>4, <2>1, SMTT(30) DEF pos, Unread
<1> QED BY <1>3, <1>4

\* What read serves from the buffer is the next of the message.
LEMMA BufferedIsNext ==
  ASSUME Inv, ~failed, NEW rs \in Nat, rs <= Unread
  PROVE  \A i \in 1 .. rs : Buffered(rs)[i] = Data[pos + i]
<1> SUFFICES ASSUME NEW i \in 1 .. rs PROVE Buffered(rs)[i] = Data[pos + i]
  OBVIOUS
<1>1. /\ Len(buffer) \in Nat /\ real_pos \in Nat /\ look_ahead_pos \in Nat
      /\ Floor \in Nat /\ Floor <= look_ahead_pos
  BY TypeFacts
<1>2. look_ahead_pos + i \in 1 .. Len(buffer) /\ Floor < look_ahead_pos + i
  BY <1>1, SMTT(30) DEF Unread
<1>3. buffer[look_ahead_pos + i] = Data[real_pos + (look_ahead_pos + i)]
  BY <1>2 DEF Inv, BufferCoherent, BufferIsGenuine
<1>4. real_pos + (look_ahead_pos + i) = pos + i
  BY <1>1 DEF pos
<1> QED BY <1>3, <1>4, BufferedFacts

\* The same guards over a buffer that has not moved are the same marks.
LEMMA SameMarks ==
  ASSUME Inv, guards' = guards, guards # <<>> => real_pos' = real_pos
  PROVE  Marks' = Marks
<1>1. CASE guards = <<>>
  <2>1. 1 .. Len(guards) = {}
    BY <1>1, EmptySeq
  <2> QED BY <2>1 DEF Marks
<1>2. CASE guards # <<>>
  BY <1>2 DEF Marks
<1> QED BY <1>1, <1>2

LEMMA ReadBufferedPeekable ==
  ASSUME Inv, ~failed, NEW s \in 0 .. MaxRead, ReadBuffered(s)
  PROVE  P!Read(s)
<1> DEFINE b == AfterBuffer(s)
<1>0. s \in Nat /\ s <= Unread
  BY FromBufferFacts, MessageFacts DEF ReadBuffered
<1>1. /\ buffer' = b.buffer /\ look_ahead_pos' = b.look_ahead_pos /\ real_pos' = b.real_pos
      /\ UNCHANGED <<read_pos, guards, failed>> /\ result' = Ok(Buffered(s))
  BY DEF ReadBuffered
<1>2. /\ real_pos' + Len(buffer') = real_pos + Len(buffer)
      /\ real_pos' + look_ahead_pos' = pos + s
      /\ guards # <<>> => real_pos' = real_pos
  BY <1>0, <1>1, TakeFacts
<1>3. pos' = pos + s /\ Reach' = Reach
  BY <1>1, <1>2 DEF pos, Reach
<1>4. pos + s <= Reach
  <2>1. pos \in Nat /\ Unread \in Nat /\ Reach \in Nat
    BY ReachFacts, TypeFacts
  <2>2. Reach - pos >= Unread
    BY ReachFacts, TypeFacts, MessageFacts, SMTT(20)
  <2> QED BY <1>0, <2>1, <2>2, SMTT(30)
<1>5. Buffered(s) = SubSeq(Data, pos + 1, pos + s)
  <2>1. pos \in Nat /\ pos + s <= Len(Data) /\ Data \in Seq(Nat)
    BY <1>0, <1>4, ReachFacts, TypeFacts, MessageFacts
  <2>2. /\ SubSeq(Data, pos + 1, pos + s) \in Seq(Nat)
        /\ Len(SubSeq(Data, pos + 1, pos + s)) = s
        /\ \A i \in 1 .. s : SubSeq(Data, pos + 1, pos + s)[i] = Data[pos + i]
    BY <1>0, <2>1, SliceFacts
  <2>3. /\ Buffered(s) \in Seq(Nat) /\ Len(Buffered(s)) = s
        /\ \A i \in 1 .. s : Buffered(s)[i] = Data[pos + i]
    BY <1>0, BufferedFacts, BufferedIsNext
  <2> QED BY <2>2, <2>3, SeqEqual
<1>6. Marks' = Marks
  BY <1>1, <1>2, SameMarks
<1>7. result' = P!Ok(SubSeq(Data, pos + 1, pos + s))
  BY <1>1, <1>5 DEF Ok, P!Ok
<1> QED BY <1>1, <1>3, <1>4, <1>6, <1>7 DEF P!Read

LEMMA ReadThroughPeekable ==
  ASSUME Inv, ~failed, NEW s \in 0 .. MaxRead, ReadThrough(s)
  PROVE  P!Read(s)
<1> DEFINE rs == FromBuffer(s)
           b == AfterBuffer(rs)
           more == s - rs
           o == StreamOctets(more)
<1>1. /\ rs # s /\ StreamHas(more) /\ read_pos' = read_pos + more
      /\ UNCHANGED <<guards, failed>> /\ result' = Ok(Buffered(rs) \o o)
  BY DEF ReadThrough
<1>2. /\ s \in Nat /\ rs \in Nat /\ rs = Unread /\ rs <= Unread /\ more \in Nat /\ more # 0
      /\ rs + more = s
  BY <1>1, ReadOnFacts, TypeFacts, MessageFacts, SMTT(20)
<1>3. /\ is_peeking => /\ buffer' = b.buffer \o o
                       /\ look_ahead_pos' = b.look_ahead_pos + more
                       /\ real_pos' = b.real_pos
      /\ ~is_peeking => /\ buffer' = b.buffer
                        /\ look_ahead_pos' = b.look_ahead_pos
                        /\ real_pos' = b.real_pos + more
  BY DEF ReadThrough
<1>4. /\ o \in Seq(Nat) /\ Len(o) = more
      /\ \A i \in 1 .. more : o[i] = Data[read_pos + i]
      /\ Buffered(rs) \in Seq(Nat) /\ Len(Buffered(rs)) = rs
      /\ \A i \in 1 .. rs : Buffered(rs)[i] = Data[pos + i]
  BY <1>1, <1>2, StreamFacts, BufferedFacts, BufferedIsNext
<1> HIDE DEF rs, b, more, o
<1>5. /\ b.buffer \in Seq(Nat) /\ Len(b.buffer) \in Nat
      /\ b.real_pos \in Nat /\ b.look_ahead_pos \in Nat
      /\ b.real_pos + Len(b.buffer) = real_pos + Len(buffer)
      /\ b.real_pos + b.look_ahead_pos = pos + rs
      /\ guards # <<>> => b.buffer = buffer /\ b.real_pos = real_pos
  BY <1>2, TakeFacts DEF b
<1>6. /\ read_pos # Len(Data) /\ read_pos + more <= Len(Data)
      /\ real_pos + Len(buffer) = read_pos /\ Reach = Len(Data)
      /\ read_pos \in Nat /\ Len(Data) \in Nat /\ pos \in Nat /\ pos + rs = read_pos
  <2>1. read_pos \in Nat /\ Len(Data) \in Nat /\ read_pos + more <= Len(Data)
    BY <1>1, TypeFacts, MessageFacts DEF StreamHas
  <2>2. read_pos # Len(Data)
    BY <1>2, <2>1, SMTT(30)
  <2>3. real_pos + Len(buffer) = read_pos
    BY <2>2, ReachFacts
  <2>4. pos \in Nat /\ pos + rs = real_pos + Len(buffer)
    <3>1. look_ahead_pos \in Nat /\ real_pos \in Nat /\ Len(buffer) \in Nat
      BY TypeFacts
    <3> QED BY <1>2, <3>1 DEF pos, Unread
  <2> QED BY <2>1, <2>2, <2>3, <2>4 DEF Reach
<1>7. real_pos' + Len(buffer') = read_pos' /\ pos' = pos + s
  <2>1. CASE is_peeking
    <3>1. Len(buffer') = Len(b.buffer) + more
      BY <1>3, <1>4, <1>5, <2>1, ConcatFacts
    <3>2. real_pos' = b.real_pos /\ look_ahead_pos' = b.look_ahead_pos + more
      BY <1>3, <2>1
    <3>3. b.real_pos + (Len(b.buffer) + more) = read_pos + more
      <4>1. b.real_pos + Len(b.buffer) = read_pos
        BY <1>5, <1>6
      <4>2. b.real_pos \in Nat /\ Len(b.buffer) \in Nat /\ more \in Nat
        BY <1>2, <1>5
      <4> QED BY <4>1, <4>2, SMTT(30)
    <3>4. b.real_pos + (b.look_ahead_pos + more) = pos + s
      <4>1. b.real_pos + b.look_ahead_pos = pos + rs /\ rs + more = s
        BY <1>2, <1>5
      <4>2. /\ b.real_pos \in Nat /\ b.look_ahead_pos \in Nat /\ more \in Nat
            /\ pos \in Nat /\ rs \in Nat
        BY <1>2, <1>5, <1>6
      <4>3. s = rs + more
        BY <4>1
      <4>4. (pos + rs) + more = pos + (rs + more)
        BY <4>2
      <4>5. (b.real_pos + b.look_ahead_pos) + more = b.real_pos + (b.look_ahead_pos + more)
        BY <4>2
      <4> QED BY <4>1, <4>3, <4>4, <4>5
    <3> QED BY <1>1, <3>1, <3>2, <3>3, <3>4 DEF pos
  <2>2. CASE ~is_peeking
    <3>1. real_pos' = b.real_pos + more /\ look_ahead_pos' = b.look_ahead_pos /\ buffer' = b.buffer
      BY <1>3, <2>2
    <3>2. (b.real_pos + more) + Len(b.buffer) = read_pos + more
      <4>1. b.real_pos + Len(b.buffer) = read_pos
        BY <1>5, <1>6
      <4>2. b.real_pos \in Nat /\ Len(b.buffer) \in Nat /\ more \in Nat
        BY <1>2, <1>5
      <4> QED BY <4>1, <4>2, SMTT(30)
    <3>3. (b.real_pos + more) + b.look_ahead_pos = pos + s
      <4>1. b.real_pos + b.look_ahead_pos = pos + rs /\ rs + more = s
        BY <1>2, <1>5
      <4>2. /\ b.real_pos \in Nat /\ b.look_ahead_pos \in Nat /\ more \in Nat
            /\ pos \in Nat /\ rs \in Nat
        BY <1>2, <1>5, <1>6
      <4>3. s = rs + more
        BY <4>1
      <4>4. (pos + rs) + more = pos + (rs + more)
        BY <4>2
      <4>5. (b.real_pos + b.look_ahead_pos) + more = (b.real_pos + more) + b.look_ahead_pos
        BY <4>2
      <4> QED BY <4>1, <4>3, <4>4, <4>5
    <3> QED BY <1>1, <3>1, <3>2, <3>3 DEF pos
  <2> QED BY <2>1, <2>2
<1>8. Reach' = Reach
  BY <1>6, <1>7 DEF Reach
<1>9. pos + s <= Reach
  <2>1. pos + s = read_pos + more
    <3>1. pos + rs = read_pos /\ rs + more = s
      BY <1>2, <1>6
    <3>2. pos \in Nat /\ rs \in Nat /\ more \in Nat
      BY <1>2, <1>6
    <3> QED BY <3>1, <3>2, SMTT(30)
  <2> QED BY <1>6, <2>1
<1>10. Buffered(rs) \o o = SubSeq(Data, pos + 1, pos + s)
  <2>1. Data \in Seq(Nat) /\ pos + s <= Len(Data)
    BY <1>6, <1>9, MessageFacts
  <2>2. /\ SubSeq(Data, pos + 1, pos + s) \in Seq(Nat)
        /\ Len(SubSeq(Data, pos + 1, pos + s)) = s
        /\ \A i \in 1 .. s : SubSeq(Data, pos + 1, pos + s)[i] = Data[pos + i]
    BY <1>2, <1>6, <2>1, SliceFacts
  <2>3. /\ Buffered(rs) \o o \in Seq(Nat) /\ Len(Buffered(rs) \o o) = s
        /\ \A i \in 1 .. s : (Buffered(rs) \o o)[i] =
             IF i <= rs THEN Buffered(rs)[i] ELSE o[i - rs]
    <3>1. /\ Buffered(rs) \in Seq(Nat) /\ Len(Buffered(rs)) = rs
          /\ o \in Seq(Nat) /\ Len(o) = more /\ rs + more = s
      BY <1>2, <1>4
    <3>2. /\ Buffered(rs) \o o \in Seq(Nat)
          /\ Len(Buffered(rs) \o o) = Len(Buffered(rs)) + Len(o)
          /\ \A i \in 1 .. Len(Buffered(rs)) + Len(o) :
               (Buffered(rs) \o o)[i] = IF i <= Len(Buffered(rs)) THEN Buffered(rs)[i]
                                        ELSE o[i - Len(Buffered(rs))]
      BY <3>1, ConcatFacts, Zenon
    <3> QED BY <3>1, <3>2
  <2>4. ASSUME NEW i \in 1 .. s PROVE (Buffered(rs) \o o)[i] = Data[pos + i]
    <3>1. CASE i <= rs
      <4>1. i \in 1 .. rs
        BY <1>2, <3>1
      <4> QED BY <1>4, <2>3, <3>1, <4>1
    <3>2. CASE ~(i <= rs)
      <4>1. i - rs \in 1 .. more
        BY <1>2, <3>2
      <4>2. read_pos + (i - rs) = pos + i
        <5>1. pos + rs = read_pos /\ pos \in Nat /\ rs \in Nat /\ i \in Int
          BY <1>2, <1>6
        <5> QED BY <5>1, SMTT(30)
      <4>3. (Buffered(rs) \o o)[i] = o[i - rs]
        BY <2>3, <3>2
      <4>4. o[i - rs] = Data[read_pos + (i - rs)]
        BY <1>4, <4>1
      <4> QED BY <4>2, <4>3, <4>4
    <3> QED BY <3>1, <3>2
  <2> QED BY <2>2, <2>3, <2>4, SeqEqual
<1>11. Marks' = Marks
  BY <1>1, <1>3, <1>5, SameMarks DEF is_peeking
<1>12. result' = P!Ok(SubSeq(Data, pos + 1, pos + s))
  BY <1>1, <1>10 DEF Ok, P!Ok
<1> QED BY <1>1, <1>7, <1>8, <1>9, <1>11, <1>12 DEF P!Read

LEMMA ReadFailsPeekable ==
  ASSUME Inv, ~failed, NEW s \in 0 .. MaxRead, ReadFails(s)
  PROVE  P!ReadPastEnd(s)
<1> DEFINE rs == FromBuffer(s)
           b == AfterBuffer(rs)
<1>1. /\ rs # s /\ ~StreamHas(s - rs) /\ read_pos' = Len(Data)
      /\ UNCHANGED <<guards, failed>> /\ result' = EndOfStream
      /\ buffer' = b.buffer /\ look_ahead_pos' = b.look_ahead_pos /\ real_pos' = b.real_pos
  BY DEF ReadFails
<1>2. s \in Nat /\ rs \in Nat /\ rs = Unread /\ rs <= Unread
  BY <1>1, ReadOnFacts, TypeFacts, MessageFacts
<1>3. /\ real_pos' + Len(buffer') = real_pos + Len(buffer)
      /\ real_pos' + look_ahead_pos' = pos + rs
      /\ guards # <<>> => real_pos' = real_pos
  BY <1>1, <1>2, TakeFacts
<1>4. Reach' = real_pos + Len(buffer)
  BY <1>1, <1>3 DEF Reach
<1>5. pos' = real_pos + Len(buffer)
  <2>1. /\ real_pos \in Nat /\ look_ahead_pos \in Nat /\ Len(buffer) \in Nat
    BY TypeFacts
  <2>2. pos' = pos + rs
    BY <1>3 DEF pos
  <2> QED BY <1>2, <2>1, <2>2 DEF pos, Unread
<1>6. Reach' \in pos .. Reach
  <2>1. /\ real_pos \in Nat /\ look_ahead_pos \in Nat /\ Len(buffer) \in Nat
        /\ look_ahead_pos <= Len(buffer)
    BY TypeFacts
  <2>2. pos <= real_pos + Len(buffer)
    BY <2>1 DEF pos
  <2> QED BY <1>4, <2>1, <2>2, ReachFacts, TypeFacts
<1>7. pos + s > Reach
  <2>1. read_pos + (s - rs) > Len(Data)
    BY <1>1, <1>2, TypeFacts, MessageFacts DEF StreamHas
  <2>2. Reach - pos = rs + (Len(Data) - read_pos)
    BY <1>2, ReachFacts, TypeFacts, MessageFacts
  <2>3. /\ read_pos \in Nat /\ Len(Data) \in Nat /\ Reach \in Nat /\ pos \in Nat
    BY ReachFacts, TypeFacts, MessageFacts
  <2> QED BY <1>2, <2>1, <2>2, <2>3, SMTT(30)
<1>8. Marks' = Marks
  BY <1>1, <1>3, SameMarks
<1>9. result' = P!EndOfStream
  BY <1>1 DEF EndOfStream, P!EndOfStream
<1> QED BY <1>1, <1>4, <1>5, <1>6, <1>7, <1>8, <1>9 DEF P!ReadPastEnd

LEMMA ReadableBytesPeekable ==
  ASSUME Inv, ~failed, NEW s \in 0 .. MaxRead, ReadableBytes(s)
  PROVE  P!Require(s)
<1> DEFINE rs == FromBuffer(s)
           more == s - rs
           o == StreamOctets(more)
<1>1. /\ more > 0 => StreamHas(more)
      /\ buffer' = buffer \o o /\ read_pos' = read_pos + more /\ result' = Ok(<<>>)
      /\ UNCHANGED <<look_ahead_pos, real_pos, guards, failed>>
  BY DEF ReadableBytes
<1>2. /\ s \in Nat /\ rs \in Nat /\ more \in Nat /\ rs <= Unread /\ rs + more = s
      /\ more # 0 => rs = Unread
  BY FromBufferFacts, MessageFacts, SMTT(20)
<1>3. /\ read_pos \in Nat /\ read_pos <= Len(Data) /\ Len(Data) \in Nat
      /\ real_pos \in Nat /\ look_ahead_pos \in Nat /\ Len(buffer) \in Nat /\ buffer \in Seq(Nat)
      /\ pos \in Nat /\ Unread \in Nat /\ Reach \in Nat /\ Reach - pos >= Unread
  BY TypeFacts, MessageFacts, ReachFacts, SMTT(20)
<1>4. StreamHas(more)
  <2>1. CASE more = 0
    BY <1>3, <2>1 DEF StreamHas
  <2>2. CASE more # 0
    BY <1>1, <1>2, <2>2
  <2> QED BY <2>1, <2>2
<1>5. o \in Seq(Nat) /\ Len(o) = more
  BY <1>2, <1>4, StreamFacts
<1> HIDE DEF rs, more, o
<1>6. Len(buffer') = Len(buffer) + more
  BY <1>1, <1>3, <1>5, ConcatFacts
<1>7. pos' = pos /\ Marks' = Marks
  BY <1>1, SameMarks DEF pos
<1>8. CASE more = 0
  <2>1. read_pos' = read_pos /\ Len(buffer') = Len(buffer)
    BY <1>1, <1>3, <1>6, <1>8
  <2>2. Reach' = Reach
    BY <1>1, <2>1 DEF Reach
  <2>3. pos + s <= Reach
    <3>1. s <= Unread
      BY <1>2, <1>8
    <3> QED BY <1>2, <1>3, <3>1, SMTT(30)
  <2> QED BY <1>1, <1>7, <2>2, <2>3 DEF P!Require, Ok, P!Ok
<1>9. CASE more # 0
  <2>1. read_pos + more <= Len(Data)
    BY <1>4 DEF StreamHas
  <2>2. read_pos # Len(Data)
    BY <1>2, <1>3, <1>9, <2>1, SMTT(30)
  <2>3. Reach = Len(Data) /\ real_pos + Len(buffer) = read_pos
    BY <2>2, ReachFacts DEF Reach
  <2>4. real_pos + (Len(buffer) + more) = read_pos + more
    <3>1. real_pos \in Nat /\ Len(buffer) \in Nat /\ more \in Nat
      BY <1>2, <1>3
    <3>2. real_pos + Len(buffer) = read_pos
      BY <2>3
    <3> QED BY <3>1, <3>2, SMTT(30)
  <2>5. real_pos' + Len(buffer') = read_pos'
    BY <1>1, <1>6, <2>4
  <2>6. Reach' = Reach
    BY <2>3, <2>5 DEF Reach
  <2>7. pos + s <= Reach
    <3>1. Unread = Len(buffer) - look_ahead_pos /\ pos = real_pos + look_ahead_pos
      BY DEF Unread, pos
    <3>2. pos + Unread = read_pos
      BY <1>3, <2>3, <3>1, SMTT(30)
    <3>3. (pos + Unread) + more = pos + (Unread + more)
      BY <1>2, <1>3
    <3>4. Unread + more = s
      BY <1>2, <1>9
    <3> QED BY <2>1, <2>3, <3>2, <3>3, <3>4
  <2> QED BY <1>1, <1>7, <2>6, <2>7 DEF P!Require, Ok, P!Ok
<1> QED BY <1>8, <1>9

LEMMA ReadableBytesFailsPeekable ==
  ASSUME Inv, ~failed, NEW s \in 0 .. MaxRead, ReadableBytesFails(s)
  PROVE  P!RequirePastEnd(s)
<1> DEFINE rs == FromBuffer(s)
<1>1. s - rs > 0 /\ ~StreamHas(s - rs) /\ failed' = TRUE /\ result' = EndOfStream
  BY DEF ReadableBytesFails
<1>2. s \in Nat /\ rs \in Nat /\ rs = Unread
  BY <1>1, FromBufferFacts, MessageFacts
<1>3. read_pos + (s - rs) > Len(Data)
  BY <1>1, <1>2, TypeFacts, MessageFacts DEF StreamHas
<1>4. Reach - pos = rs + (Len(Data) - read_pos)
  BY <1>2, ReachFacts, TypeFacts, MessageFacts
<1>5. read_pos \in Nat /\ Len(Data) \in Nat /\ Reach \in Nat /\ pos \in Nat
  BY ReachFacts, TypeFacts, MessageFacts
<1>6. pos + s > Reach
  BY <1>2, <1>3, <1>4, <1>5, SMTT(30)
<1> QED BY <1>1, <1>6 DEF P!RequirePastEnd, EndOfStream, P!EndOfStream

LEMMA StartPeekPeekable ==
  ASSUME Inv, ~failed, StartPeek
  PROVE  P!Mark
<1>1. /\ guards' = Append(guards, look_ahead_pos) /\ result' = None
      /\ UNCHANGED <<read_pos, buffer, look_ahead_pos, real_pos, failed>>
  BY DEF StartPeek
<1>2. /\ guards \in Seq(Nat) /\ Len(guards) \in Nat /\ look_ahead_pos \in Nat
      /\ real_pos \in Nat /\ \A i \in 1 .. Len(guards) : guards[i] \in Nat
  BY TypeFacts
<1>3. /\ Len(guards') = Len(guards) + 1
      /\ \A i \in 1 .. Len(guards) : guards'[i] = guards[i]
      /\ guards'[Len(guards) + 1] = look_ahead_pos
  BY <1>1, <1>2, AppendProperties
<1>4. pos' = pos /\ Reach' = Reach
  BY <1>1 DEF pos, Reach
<1>5. Marks' = Append(Marks, pos)
  <2>1. Marks \in Seq(Nat) /\ Len(Marks) = Len(guards) /\ pos \in Nat
    BY <1>2 DEF Marks, pos
  <2>2. /\ Append(Marks, pos) \in Seq(Nat) /\ Len(Append(Marks, pos)) = Len(guards) + 1
        /\ \A i \in 1 .. Len(guards) : Append(Marks, pos)[i] = Marks[i]
        /\ Append(Marks, pos)[Len(guards) + 1] = pos
    BY <2>1, AppendProperties
  <2>3. Marks' = [i \in 1 .. Len(guards) + 1 |-> real_pos + guards'[i]]
    BY <1>1, <1>3 DEF Marks
  <2>4. ASSUME NEW i \in 1 .. Len(guards) + 1
        PROVE  real_pos + guards'[i] = Append(Marks, pos)[i] /\ real_pos + guards'[i] \in Nat
    <3>1. CASE i = Len(guards) + 1
      BY <1>2, <1>3, <2>2, <3>1 DEF pos
    <3>2. CASE i # Len(guards) + 1
      <4>1. i \in 1 .. Len(guards)
        BY <1>2, <3>2
      <4> QED BY <1>2, <1>3, <2>2, <4>1 DEF Marks
    <3> QED BY <3>1, <3>2
  <2>5. /\ Marks' \in Seq(Nat) /\ Len(Marks') = Len(guards) + 1
        /\ \A i \in 1 .. Len(guards) + 1 : Marks'[i] = Append(Marks, pos)[i]
    <3> DEFINE f == [i \in 1 .. Len(guards) + 1 |-> real_pos + guards'[i]]
    <3>1. f \in Seq(Nat) /\ Len(f) = Len(guards) + 1
      BY <1>2, <2>4
    <3>2. \A i \in 1 .. Len(guards) + 1 : f[i] = Append(Marks, pos)[i]
      BY <2>4
    <3>3. Marks' = f
      BY <2>3
    <3> HIDE DEF f
    <3> QED BY <3>1, <3>2, <3>3
  <2> QED BY <2>2, <2>5, SeqEqual
<1> QED BY <1>1, <1>4, <1>5 DEF P!Mark, None, P!None

LEMMA EndPeekPeekable ==
  ASSUME Inv, ~failed, NEW commit \in BOOLEAN, EndPeek(commit)
  PROVE  P!Unmark(commit)
<1> DEFINE n == Len(guards)
<1>1. /\ guards # <<>> /\ guards' = SubSeq(guards, 1, n - 1) /\ result' = Ended(commit)
      /\ UNCHANGED <<read_pos, buffer, real_pos, failed>>
      /\ look_ahead_pos' = IF commit THEN look_ahead_pos ELSE guards[n]
  BY DEF EndPeek, is_peeking
<1>2. /\ guards \in Seq(Nat) /\ n \in Nat /\ n >= 1 /\ n \in 1 .. n /\ real_pos \in Nat
      /\ \A i \in 1 .. n : guards[i] \in Nat
  BY <1>1, TypeFacts
<1>3. /\ Len(guards') = n - 1 /\ \A i \in 1 .. n - 1 : guards'[i] = guards[i]
  <2>1. \A i \in 1 .. n - 1 : guards[i] \in Nat
    BY <1>2
  <2> HIDE DEF n
  <2> QED BY <1>1, <1>2, <2>1
<1>4. Reach' = Reach
  BY <1>1 DEF Reach
<1>5. /\ Marks \in Seq(Nat) /\ Len(Marks) = n /\ \A i \in 1 .. n : Marks[i] = real_pos + guards[i]
  BY <1>2 DEF Marks
<1>6. Marks # <<>>
  BY <1>2, <1>5, EmptySeq
<1>7. pos' = IF commit THEN pos ELSE Marks[Len(Marks)]
  BY <1>1, <1>2, <1>5 DEF pos
<1>8. Marks' = SubSeq(Marks, 1, n - 1)
  <2>1. Marks' = [i \in 1 .. n - 1 |-> real_pos + guards'[i]]
    BY <1>1, <1>3 DEF Marks
  <2>2. \A i \in 1 .. n - 1 : i \in 1 .. n
    BY <1>2
  <2>3. \A i \in 1 .. n - 1 : real_pos + guards'[i] = Marks[i] /\ Marks[i] \in Nat
    <3> SUFFICES ASSUME NEW i \in 1 .. n - 1
                 PROVE  real_pos + guards'[i] = Marks[i] /\ Marks[i] \in Nat
      OBVIOUS
    <3>1. i \in 1 .. n /\ guards'[i] = guards[i]
      BY <1>3, <2>2
    <3>2. guards[i] \in Nat /\ Marks[i] = real_pos + guards[i]
      BY <1>2, <1>5, <3>1
    <3> QED BY <1>2, <3>1, <3>2
  <2> HIDE DEF n
  <2>4. /\ SubSeq(Marks, 1, n - 1) \in Seq(Nat) /\ Len(SubSeq(Marks, 1, n - 1)) = n - 1
        /\ \A i \in 1 .. n - 1 : SubSeq(Marks, 1, n - 1)[i] = Marks[i]
    BY <1>2, <1>5, <2>2, <2>3
  <2>5. /\ Marks' \in Seq(Nat) /\ Len(Marks') = n - 1
        /\ \A i \in 1 .. n - 1 : Marks'[i] = Marks[i]
    BY <1>2, <2>1, <2>3
  <2> QED BY <2>4, <2>5, SeqEqual
<1> QED BY <1>1, <1>4, <1>5, <1>6, <1>7, <1>8 DEF P!Unmark, Ended, P!Ended

LEMMA NextPeekable ==
  ASSUME Inv, [Next]_vars
  PROVE  [P!Next]_(P!vars)
<1>1. CASE failed
  <2>1. failed'
    BY <1>1 DEF Next, vars, Read, ReadBuffered, ReadThrough, ReadFails, ReadableBytes,
                ReadableBytesFails, StartPeek, EndPeek
  <2> QED BY <1>1, <2>1 DEF P!Next, P!Void
<1>2. CASE ~failed
  <2>1. ASSUME NEW s \in 0 .. MaxRead, Read(s) PROVE P!Next
    BY <1>2, <2>1, ReadBufferedPeekable, ReadThroughPeekable, ReadFailsPeekable
       DEF Read, P!Next
  <2>2. ASSUME NEW s \in 0 .. MaxRead, ReadableBytes(s) PROVE P!Next
    BY <1>2, <2>2, ReadableBytesPeekable DEF P!Next
  <2>3. ASSUME NEW s \in 0 .. MaxRead, ReadableBytesFails(s) PROVE P!Next
    BY <1>2, <2>3, ReadableBytesFailsPeekable DEF P!Next
  <2>4. CASE StartPeek
    BY <1>2, <2>4, StartPeekPeekable DEF P!Next
  <2>5. ASSUME NEW commit \in BOOLEAN, EndPeek(commit) PROVE P!Next
    BY <1>2, <2>5, EndPeekPeekable DEF P!Next
  <2>6. CASE UNCHANGED vars
    BY <2>6 DEF vars, P!vars, pos, Reach, Marks
  <2> QED BY <2>1, <2>2, <2>3, <2>4, <2>5, <2>6 DEF Next
<1> QED BY <1>1, <1>2

\* Wherever its octets are kept, a buffered_stream behaves as a plain cursor
\* over the message that can be marked and put back
\* (buffered_stream.hpp:25-105).
THEOREM Implements == Spec => PeekableSpec
<1>1. Init => P!Init
  BY InitPeekable
<1>2. Init => Inv
  BY InitInv
<1>3. Inv /\ [Next]_vars => Inv' /\ [P!Next]_(P!vars)
  BY NextInv, NextPeekable
<1> QED BY <1>1, <1>2, <1>3, PTL DEF Spec, PeekableSpec, P!Spec
=============================================================================
