-------------------------- MODULE DeserialiserProofs --------------------------
(***************************************************************************)
(* The decoder stays consistent whatever it is given to read and as what   *)
(* type: its state keeps its type, every scope that a call will still      *)
(* close is open and no other is but what exceptions have left behind, no  *)
(* header is read out of the middle of a value, and no sequence that is    *)
(* cut short is taken for a whole one.  And what can be read at all, as    *)
(* DerReading says, is read as what is expected.                           *)
(***************************************************************************)
EXTENDS DerReading, DerProofs

IsGuard(f) == f.call = "end optional"
MarkOf(f) == f.mark

\* How many scopes calls will close: all but those left behind.
Due == Len(seq_pos) - leaked

\* p is not in the middle of a value, as far as there is still something to
\* read there and the message is values in values.
Between(p) == Nested(input.message) /\ p < limit => input.message[p + 1].is # "octet"

\* Where scopes end, and what is on the stack: a guard puts the position back
\* to where something has been read before, between two values.
Ends == { p \in Nat : Between(p) }
Fitting == { f \in Frames : IsGuard(f) => MarkOf(f) <= read_pos /\ Between(MarkOf(f)) }

\* The inductive invariant: the types, the scopes and the positions depend on
\* each other.
Inv ==
  /\ input \in Cases
  /\ StreamOK
  /\ seq_pos \in Seq(Ends)
  /\ leaked \in Nat
  /\ Due \in Nat /\ Stack(Fitting, frames, Due)
  /\ current_tag \in Tags
  /\ ex \in BOOLEAN
  /\ status \in Statuses
  /\ items \in Seq(Items)
  /\ status = "running" => Between(cursor)
  /\ HeadersAligned

-----------------------------------------------------------------------------

\* The frames the actions push.
LEMMA ReadFrames ==
  ASSUME NEW T \in Types
  PROVE  /\ Read(T) \in Fitting /\ ~Closes(Read(T))
         /\ Loop(T) \in Fitting /\ ~Closes(Loop(T))
BY DEF Fitting, Frames, Read, Loop, Closes, Closers, IsGuard

LEMMA AmpFrame == Amp \in Fitting /\ ~Closes(Amp)
BY DEF Fitting, Frames, Amp, Closes, Closers, IsGuard

LEMMA FieldsFrame ==
  ASSUME NEW ts \in Seq(Types)
  PROVE  Fields(ts) \in Fitting /\ ~Closes(Fields(ts))
BY DEF Fitting, Frames, Fields, Closes, Closers, IsGuard

LEMMA StartExplicitFrame ==
  ASSUME NEW n \in Nat, NEW T \in Types
  PROVE  StartExplicit(n, T) \in Fitting /\ ~Closes(StartExplicit(n, T))
BY DEF Fitting, Frames, StartExplicit, Closes, Closers, IsGuard

LEMMA ClosingFrames ==
  ASSUME NEW d \in Nat
  PROVE  /\ EndSequence(d) \in Fitting /\ Closes(EndSequence(d)) /\ DepthOf(EndSequence(d)) = d
         /\ EndExplicit(d) \in Fitting /\ Closes(EndExplicit(d)) /\ DepthOf(EndExplicit(d)) = d
BY DEF Fitting, Frames, EndSequence, EndExplicit, Closes, Closers, IsGuard, DepthOf

\* What a frame of each sort carries.
LEMMA FrameParts ==
  ASSUME NEW f \in Frames
  PROVE  /\ f.call \in {"read", "loop", "start explicit"} => f.type \in Types
         /\ f.call = "fields" => f.types \in Seq(Types)
         /\ f.call = "start explicit" => f.tag \in Nat
         /\ IsGuard(f) => ~Closes(f) /\ MarkOf(f) \in Nat /\ f.items \in Seq(Items)
BY DEF Frames, Closes, Closers, IsGuard, MarkOf

-----------------------------------------------------------------------------

LEMMA MessageFacts ==
  ASSUME Inv
  PROVE  /\ input.message \in Seq(Cells)
         /\ Len(input.message) \in Nat
         /\ input.type \in Types
         /\ \A i \in 1 .. Len(input.message) : input.message[i] \in Cells
<1>1. input.message \in Seq(Cells) /\ input.type \in Types
  BY DeserialiserAssumption DEF Inv, DeserialiserAssumption
<1>2. Len(input.message) \in Nat
  BY <1>1, LenProperties
<1>3. \A i \in 1 .. Len(input.message) : input.message[i] \in Cells
  BY <1>1, ElementOfSeq
<1> QED BY <1>1, <1>2, <1>3

LEMMA StreamFacts ==
  ASSUME Inv
  PROVE  /\ cursor \in Nat /\ read_pos \in Nat /\ limit \in Nat
         /\ cursor <= read_pos /\ read_pos <= limit /\ cursor <= limit
         /\ limit <= Len(input.message)
<1>1. /\ cursor \in Nat /\ read_pos \in Nat /\ limit \in Nat
      /\ cursor <= read_pos /\ read_pos <= limit /\ limit <= Len(input.message)
  BY DEF Inv, StreamOK
<1> QED BY <1>1

LEMMA StackFacts ==
  ASSUME Inv
  PROVE  /\ seq_pos \in Seq(Ends) /\ Len(seq_pos) \in Nat
         /\ leaked \in Nat /\ Due \in Nat /\ Due = Len(seq_pos) - leaked
         /\ frames \in Seq(Fitting) /\ Stack(Fitting, frames, Due)
<1>1. seq_pos \in Seq(Ends) /\ Len(seq_pos) \in Nat
  BY LenProperties DEF Inv
<1> QED BY <1>1 DEF Inv, Due, Stack

\* What is on top of the stack and below it.
LEMMA TopFacts ==
  ASSUME Inv, frames # <<>>
  PROVE  /\ Top \in Fitting /\ Top \in Frames
         /\ Rest \in Seq(Fitting)
         /\ ~Closes(Top) => Stack(Fitting, Rest, Due)
         /\ Closes(Top) => Due - 1 \in Nat /\ Stack(Fitting, Rest, Due - 1)
<1>1. Top \in Fitting /\ Rest \in Seq(Fitting)
  BY StackFacts, PopIndices DEF Top, Rest
<1>2. ~Closes(Top) => Stack(Fitting, Rest, Due)
  BY StackFacts, PopPlain DEF Top, Rest
<1>3. Closes(Top) => Due - 1 \in Nat /\ Stack(Fitting, Rest, Due - 1)
  BY StackFacts, PopCloser DEF Top, Rest
<1> QED BY <1>1, <1>2, <1>3 DEF Fitting

LEMMA ReadingFacts ==
  ASSUME Inv, NEW k, Reading(k)
  PROVE  /\ frames # <<>> /\ status = "running" /\ ~Closes(Top)
         /\ Top.type \in Types /\ Top.type.kind = k
         /\ WellFormed(Top.type)
         /\ Stack(Fitting, Rest, Due) /\ Rest \in Seq(Fitting) /\ Due \in Nat
<1>1. frames # <<>> /\ status = "running" /\ Top.call = "read" /\ Top.type.kind = k
  BY DEF Reading, running
<1>2. Top.type \in Types
  BY <1>1, TopFacts, FrameParts
<1>3. ~Closes(Top)
  BY <1>1 DEF Closes, Closers
<1> QED BY <1>1, <1>2, <1>3, TopFacts, StackFacts, DeserialiserAssumption
        DEF DeserialiserAssumption

LEMMA RecordKeeps ==
  ASSUME Inv, NEW item \in Items
  PROVE  Record(item) \in Seq(Items)
BY DEF Inv, Record, Noted

LEMMA ItemFacts ==
  /\ Some \in Items /\ Absent \in Items /\ Begin \in Items /\ End \in Items
  /\ \A s \in Seq(Cells) : Value(s) \in Items
  /\ \A n \in Nat : Chosen(n) \in Items
BY DEF Items, Value, Chosen

-----------------------------------------------------------------------------

\* The cell at the cursor.
LEMMA CellHere ==
  ASSUME Inv, HeaderHere
  PROVE  /\ cursor + 1 \in 1 .. Len(input.message) /\ cursor + 1 <= limit
         /\ Cell = input.message[cursor + 1] /\ Cell.is = "header"
         /\ Cell.len \in Nat
<1>1. cursor < limit /\ Cell.is = "header"
  BY DEF HeaderHere
<1>2. cursor + 1 \in 1 .. Len(input.message) /\ cursor + 1 <= limit
  BY <1>1, StreamFacts, MessageFacts
<1>3. Cell \in Cells
  BY <1>2, MessageFacts DEF Cell
<1>4. \A c \in Cells : c.is = "header" => c.len \in Nat
  BY DEF Cells
<1> QED BY <1>1, <1>2, <1>3, <1>4 DEF Cell

\* Behind a value, and behind the header of a value of values, there is
\* another value.
LEMMA BetweenFacts ==
  ASSUME Inv, HeaderHere
  PROVE  /\ Between(cursor + 1 + Cell.len)
         /\ Cell.constructed => Between(cursor + 1)
<1>1. /\ cursor + 1 \in 1 .. Len(input.message)
      /\ input.message[cursor + 1].is = "header" /\ Cell = input.message[cursor + 1]
      /\ Cell.len \in Nat
  BY CellHere
<1>2. /\ cursor \in Nat /\ limit \in Nat /\ limit <= Len(input.message)
      /\ Len(input.message) \in Nat /\ input.message \in Seq(Cells)
  BY StreamFacts, MessageFacts
<1> DEFINE m == input.message
           e == cursor + 1 + Cell.len
<1>3. ASSUME Nested(m), e < limit
      PROVE  m[e + 1].is # "octet"
  <2>1. e + 1 \in 1 .. Len(m) /\ e + 1 = (cursor + 1) + m[cursor + 1].len + 1
    BY <1>1, <1>2, <1>3
  <2> QED BY <2>1, <1>1, <1>2, <1>3, BehindValue
<1>4. ASSUME Nested(m), Cell.constructed, cursor + 1 < limit
      PROVE  m[cursor + 1 + 1].is # "octet"
  <2>1. cursor + 1 + 1 \in 1 .. Len(m) /\ m[cursor + 1].constructed
    BY <1>1, <1>2, <1>4
  <2> QED BY <2>1, <1>1, <1>2, <1>4, BehindValue
<1> QED BY <1>3, <1>4 DEF Between

-----------------------------------------------------------------------------

\* The stream is only read on, and what is lost of it stays lost: what was
\* between two values is.
LEMMA ReadOn ==
  ASSUME Inv, input' = input, StreamOK', read_pos <= read_pos', limit' <= limit
  PROVE  /\ \A p \in Nat : Between(p) => Between(p)'
         /\ Ends \subseteq Ends'
         /\ Fitting \subseteq Fitting'
<1>1. limit \in Nat /\ limit' \in Nat /\ read_pos \in Nat /\ read_pos' \in Nat
  BY StreamFacts DEF StreamOK
<1>2. ASSUME NEW p \in Nat, Between(p)
      PROVE  Between(p)'
  <2>1. p < limit' => p < limit
    BY <1>1
  <2> QED BY <2>1, <1>2 DEF Between
<1>3. Ends \subseteq Ends'
  BY <1>2 DEF Ends
<1>4. ASSUME NEW f \in Fitting
      PROVE  f \in Fitting'
  <2>1. CASE IsGuard(f)
    <3>1. f \in Frames /\ MarkOf(f) \in Nat /\ MarkOf(f) <= read_pos /\ Between(MarkOf(f))
      BY <2>1, FrameParts DEF Fitting
    <3>2. MarkOf(f) <= read_pos' /\ Between(MarkOf(f))'
      BY <3>1, <1>1, <1>2
    <3> QED BY <3>1, <3>2 DEF Fitting
  <2>2. CASE ~IsGuard(f)
    BY <2>2 DEF Fitting
  <2> QED BY <2>1, <2>2
<1> QED BY <1>2, <1>3, <1>4

\* What a step has to show.
LEMMA StepKeeps ==
  ASSUME Inv, input' = input, StreamOK', read_pos <= read_pos', limit' <= limit,
         seq_pos' \in Seq(Ends), leaked' \in Nat, Due' \in Nat,
         Stack(Fitting, frames', Due'),
         current_tag' \in Tags, ex' \in BOOLEAN, items' \in Seq(Items),
         status' \in Statuses,
         status' = "misaligned" => ~Nested(input.message),
         status' = "running" => Between(cursor')
  PROVE  Inv'
<1>1. Ends \subseteq Ends' /\ Fitting \subseteq Fitting'
  BY ReadOn
<1>2. seq_pos' \in Seq(Ends')
  BY <1>1, SeqWider
<1>3. Stack(Fitting', frames', Due')
  BY <1>1, Wider
<1>4. status' = "running" => Between(cursor)'
  <2>1. cursor' \in Nat
    BY DEF StreamOK
  <2>2. limit \in Nat /\ limit' \in Nat
    BY StreamFacts DEF StreamOK
  <2> QED BY <2>1, <2>2 DEF Between
<1>5. HeadersAligned'
  BY DEF HeadersAligned
<1>6. input' \in Cases
  BY DEF Inv
<1> QED BY <1>2, <1>3, <1>4, <1>5, <1>6 DEF Inv

\* A step that reads nothing.
LEMMA QuietStep ==
  ASSUME Inv, UNCHANGED <<input, stream, seq_pos, leaked>>,
         Stack(Fitting, frames', Due),
         current_tag' \in Tags, ex' \in BOOLEAN, items' \in Seq(Items),
         status' \in Statuses, status' # "misaligned",
         status' = "running" => status = "running"
  PROVE  Inv'
<1>1. cursor' = cursor /\ read_pos' = read_pos /\ limit' = limit /\ input' = input
  BY DEF stream
<1>2. StreamOK' /\ read_pos <= read_pos' /\ limit' <= limit
  BY <1>1, StreamFacts, MessageFacts DEF StreamOK
<1>3. Due' = Due /\ seq_pos' = seq_pos /\ leaked' = leaked
  BY DEF Due
<1>4. seq_pos' \in Seq(Ends) /\ leaked' \in Nat /\ Due' \in Nat /\ Stack(Fitting, frames', Due')
  BY <1>3, StackFacts
<1>5. status' = "running" => Between(cursor')
  BY <1>1 DEF Inv
<1> QED BY <1>1, <1>2, <1>4, <1>5, StepKeeps

\* A call ends having read on, successfully or with an exception.
LEMMA EndingStep ==
  ASSUME Inv, frames # <<>>, ~Closes(Top), frames' = Rest,
         UNCHANGED <<input, seq_pos, leaked, ex>>,
         StreamOK', read_pos <= read_pos', limit' <= limit,
         current_tag' \in Tags, items' \in Seq(Items), status' \in Statuses,
         status' = "misaligned" => ~Nested(input.message),
         status' = "running" => Between(cursor')
  PROVE  Inv'
<1>1. Due' = Due /\ seq_pos' = seq_pos /\ leaked' = leaked /\ ex' = ex /\ input' = input
  BY DEF Due
<1>2. /\ seq_pos' \in Seq(Ends) /\ leaked' \in Nat /\ Due' \in Nat /\ ex' \in BOOLEAN
      /\ Stack(Fitting, frames', Due')
  BY <1>1, StackFacts, TopFacts DEF Inv
<1> QED BY <1>1, <1>2, StepKeeps

\* Reading to c, and failing to.
LEMMA TakeKeeps ==
  ASSUME Inv, NEW c \in Nat, c <= limit, Take(c), input' = input
  PROVE  /\ StreamOK' /\ read_pos <= read_pos' /\ limit' <= limit
         /\ cursor' = c /\ limit' = limit
<1>1. cursor' = c /\ limit' = limit /\ read_pos' = IF read_pos > c THEN read_pos ELSE c
  BY DEF Take, Larger
<1> QED BY <1>1, StreamFacts, MessageFacts DEF StreamOK

LEMMA LoseKeeps ==
  ASSUME Inv, NEW c \in Nat, c <= limit, Lose(c), input' = input
  PROVE  StreamOK' /\ read_pos <= read_pos' /\ limit' <= limit
<1> DEFINE q == IF read_pos > c THEN read_pos ELSE c
<1>1. cursor' = q /\ limit' = q /\ read_pos' = q
  BY DEF Lose, Larger
<1>2. q \in Nat /\ q <= limit /\ read_pos <= q
  BY StreamFacts
<1> HIDE DEF q
<1>3. q <= Len(input.message)
  BY <1>2, StreamFacts, MessageFacts
<1> QED BY <1>1, <1>2, <1>3, StreamFacts DEF StreamOK

\* Octets at the cursor are not between two values.
LEMMA OctetHere ==
  ASSUME Inv, status = "running", cursor < limit, Cell.is = "octet"
  PROVE  ~Nested(input.message)
BY DEF Inv, Between, Cell

LEMMA HeaderFailsKeeps ==
  ASSUME Inv, frames # <<>>, status = "running", ~Closes(Top), NEW t, HeaderFails(t),
         UNCHANGED <<input, seq_pos, leaked, ex>>, current_tag' \in Tags,
         items' \in Seq(Items)
  PROVE  Inv'
<1>1. frames' = Rest /\ input' = input
  BY DEF HeaderFails
<1>2. CASE is_end_of_sequence \/ cursor = limit
  <2>1. status' = "throwing" /\ UNCHANGED stream
    BY <1>2 DEF HeaderFails
  <2>2. cursor' = cursor /\ read_pos' = read_pos /\ limit' = limit
    BY <2>1 DEF stream
  <2>3. StreamOK' /\ read_pos <= read_pos' /\ limit' <= limit
    BY <2>2, <1>1, StreamFacts, MessageFacts DEF StreamOK
  <2> QED BY <2>1, <2>3, <1>1, EndingStep DEF Statuses
<1>3. CASE ~(is_end_of_sequence \/ cursor = limit)
  <2>1. /\ status' = IF Cell.is = "octet" THEN "misaligned" ELSE "throwing"
        /\ Take(cursor + 1)
    BY <1>3 DEF HeaderFails
  <2>2. cursor + 1 \in Nat /\ cursor + 1 <= limit /\ cursor < limit
    BY <1>3, StreamFacts
  <2>3. StreamOK' /\ read_pos <= read_pos' /\ limit' <= limit
    BY <2>1, <2>2, <1>1, TakeKeeps
  <2>4. /\ status' \in Statuses /\ status' # "running"
        /\ status' = "misaligned" => ~Nested(input.message)
    BY <2>1, <2>2, OctetHere DEF Statuses
  <2> QED BY <2>3, <2>4, <1>1, EndingStep
<1> QED BY <1>2, <1>3

-----------------------------------------------------------------------------

LEMMA ReadObjectKeeps ==
  ASSUME Inv, ReadObject
  PROVE  Inv'
<1>1. Top.type.fields \in Seq(Types) /\ Stack(Fitting, Rest, Due) /\ status = "running"
  BY ReadingFacts DEF ReadObject, WellFormed
<1>2. Stack(Fitting, <<Fields(Top.type.fields)>> \o Rest, Due)
  BY <1>1, ReadingFacts, FieldsFrame, PushPlain DEF ReadObject
<1> QED BY <1>1, <1>2, QuietStep DEF ReadObject, Inv

LEMMA ReadImplicitKeeps ==
  ASSUME Inv, ReadImplicit
  PROVE  Inv'
<1>1. /\ Top.type.of \in Types /\ Top.type.tag \in Nat
      /\ Stack(Fitting, Rest, Due) /\ Rest \in Seq(Fitting) /\ Due \in Nat
      /\ status = "running"
  BY ReadingFacts DEF ReadImplicit, WellFormed
<1>2. Stack(Fitting, <<Read(Top.type.of), Amp>> \o Rest, Due)
  BY <1>1, ReadFrames, AmpFrame, PushTwoPlain
<1>3. Context(Top.type.tag) \in Tags
  BY <1>1 DEF Context, Tags
<1> QED BY <1>1, <1>2, <1>3, QuietStep DEF ReadImplicit, Inv

LEMMA ReadExplicitKeeps ==
  ASSUME Inv, ReadExplicit
  PROVE  Inv'
<1>1. /\ Top.type.of \in Types /\ Top.type.tag \in Nat
      /\ Stack(Fitting, Rest, Due) /\ Rest \in Seq(Fitting) /\ Due \in Nat
      /\ status = "running"
  BY ReadingFacts DEF ReadExplicit, WellFormed
<1>2. Stack(Fitting, <<StartExplicit(Top.type.tag, Top.type.of)>> \o Rest, Due)
  BY <1>1, StartExplicitFrame, PushPlain
<1> QED BY <1>1, <1>2, QuietStep DEF ReadExplicit, Inv

\* The position a guard is built at is between two values.
LEMMA GuardFacts ==
  ASSUME Inv, status = "running"
  PROVE  Guard \in Fitting /\ ~Closes(Guard)
<1>1. /\ Guard.call = "end optional" /\ Guard.mark = cursor
      /\ Guard.items = items /\ Guard.depth = Len(seq_pos)
  BY DEF Guard, EndOptional
<1>2. cursor \in Nat /\ items \in Seq(Items) /\ Len(seq_pos) \in Nat
  BY StreamFacts, StackFacts DEF Inv
<1>3. Guard \in Frames
  BY <1>2 DEF Guard, EndOptional, Frames
<1>4. cursor <= read_pos /\ Between(cursor)
  BY StreamFacts DEF Inv
<1> QED BY <1>1, <1>3, <1>4 DEF Fitting, MarkOf, Closes, Closers

LEMMA ReadOptionalKeeps ==
  ASSUME Inv, ReadOptional
  PROVE  Inv'
<1>1. /\ Top.type.of \in Types
      /\ Stack(Fitting, Rest, Due) /\ Rest \in Seq(Fitting) /\ Due \in Nat
      /\ status = "running"
  BY ReadingFacts DEF ReadOptional, WellFormed
<1>2. Stack(Fitting, <<Read(Top.type.of), Amp, Guard>> \o Rest, Due)
  BY <1>1, ReadFrames, AmpFrame, GuardFacts, PushThreePlain
<1>3. Record(Some) \in Seq(Items)
  BY RecordKeeps, ItemFacts
<1> QED BY <1>1, <1>2, <1>3, QuietStep DEF ReadOptional, Inv

LEMMA ReadExplicitOptionalKeeps ==
  ASSUME Inv, ReadExplicitOptional
  PROVE  Inv'
<1>1. /\ Top.type.of \in Types /\ Top.type.tag \in Nat
      /\ Stack(Fitting, Rest, Due) /\ Rest \in Seq(Fitting) /\ Due \in Nat
      /\ status = "running"
  BY ReadingFacts DEF ReadExplicitOptional, WellFormed
<1>2. Top.type.of.of \in Types
  BY <1>1, DeserialiserAssumption DEF DeserialiserAssumption, WellFormed, ReadExplicitOptional
<1>3. Stack(Fitting, <<StartExplicit(Top.type.tag, Top.type.of.of), Guard>> \o Rest, Due)
  BY <1>1, <1>2, StartExplicitFrame, GuardFacts, PushTwoPlain
<1>4. Record(Some) \in Seq(Items)
  BY RecordKeeps, ItemFacts
<1> QED BY <1>1, <1>3, <1>4, QuietStep DEF ReadExplicitOptional, Inv

LEMMA NextFieldKeeps ==
  ASSUME Inv, NextField
  PROVE  Inv'
<1>1. frames # <<>> /\ Top.call = "fields" /\ status = "running"
  BY DEF NextField, running
<1>2. Top.types \in Seq(Types) /\ ~Closes(Top)
  BY <1>1, TopFacts, FrameParts DEF Closes, Closers
<1>3. Stack(Fitting, Rest, Due) /\ Rest \in Seq(Fitting) /\ Due \in Nat
  BY <1>1, <1>2, TopFacts, StackFacts
<1>4. Stack(Fitting, frames', Due)
  <2>1. CASE Top.types = <<>>
    <3>1. frames' = <<>> \o Rest
      BY <2>1 DEF NextField
    <3>2. <<>> \o Rest = Rest
      BY <1>3
    <3> QED BY <3>1, <3>2, <1>3
  <2>2. CASE Top.types # <<>>
    <3>1. frames' = <<Read(Head(Top.types)), Amp, Fields(Tail(Top.types))>> \o Rest
      BY <2>2 DEF NextField
    <3>2. Head(Top.types) \in Types /\ Tail(Top.types) \in Seq(Types)
      BY <2>2, <1>2, HeadTailProperties
    <3> QED BY <3>1, <3>2, <1>3, ReadFrames, AmpFrame, FieldsFrame, PushThreePlain
  <2> QED BY <2>1, <2>2
<1> QED BY <1>1, <1>4, QuietStep DEF NextField, Inv

LEMMA NextElementKeeps ==
  ASSUME Inv, NextElement
  PROVE  Inv'
<1>1. frames # <<>> /\ Top.call = "loop" /\ status = "running"
  BY DEF NextElement, running
<1>2. Top.type \in Types /\ ~Closes(Top)
  BY <1>1, TopFacts, FrameParts DEF Closes, Closers
<1>3. Stack(Fitting, frames', Due) /\ items' \in Seq(Items)
  <2>1. CASE is_end_of_sequence
    <3>1. frames' = Rest /\ items' = Record(End)
      BY <2>1 DEF NextElement
    <3> QED BY <3>1, <1>1, <1>2, TopFacts, RecordKeeps, ItemFacts
  <2>2. CASE ~is_end_of_sequence
    <3>1. frames' = <<Read(Top.type), Amp>> \o frames /\ items' = items
      BY <2>2 DEF NextElement
    <3>2. items \in Seq(Items)
      BY DEF Inv
    <3>3. Stack(Fitting, <<Read(Top.type), Amp>> \o frames, Due)
      BY <1>2, StackFacts, ReadFrames, AmpFrame, PushTwoPlain
    <3> QED BY <3>1, <3>2, <3>3
  <2> QED BY <2>1, <2>2
<1> QED BY <1>1, <1>3, QuietStep DEF NextElement, Inv

LEMMA AmpersandKeeps ==
  ASSUME Inv, Ampersand
  PROVE  Inv'
<1>1. frames # <<>> /\ frames' = Rest /\ Top.call = "amp" /\ status = "running"
  BY DEF Ampersand, running
<1>2. Stack(Fitting, frames', Due)
  BY <1>1, TopFacts DEF Closes, Closers
<1>3. ex' \in BOOLEAN /\ status' \in Statuses /\ status' # "misaligned"
  BY DEF Ampersand, Statuses
<1> QED BY <1>1, <1>2, <1>3, QuietStep DEF Ampersand, Inv

LEMMA KeepOptionalKeeps ==
  ASSUME Inv, KeepOptional
  PROVE  Inv'
<1>1. frames # <<>> /\ frames' = Rest /\ Top.call = "end optional" /\ status = "running"
  BY DEF KeepOptional, running
<1>2. Stack(Fitting, frames', Due)
  BY <1>1, TopFacts DEF Closes, Closers
<1> QED BY <1>1, <1>2, QuietStep DEF KeepOptional, Inv

\* Passing a call that would have closed a scope leaves the scope behind.
LEMMA UnwindKeeps ==
  ASSUME Inv, Unwind
  PROVE  Inv'
<1>1. /\ frames # <<>> /\ frames' = Rest /\ Top.call # "end sequence"
      /\ UNCHANGED <<input, stream, seq_pos, current_tag, status, ex, items>>
      /\ leaked' = IF Top.call = "end explicit" THEN leaked + 1 ELSE leaked
      /\ status = "throwing"
  BY DEF Unwind
<1>2. CASE Top.call = "end explicit"
  <2>1. Closes(Top) /\ leaked' = leaked + 1
    BY <1>1, <1>2, Zenon DEF Closes, Closers
  <2>2. Due - 1 \in Nat /\ Stack(Fitting, Rest, Due - 1)
    BY <1>1, <2>1, TopFacts
  <2>3. Due' = Due - 1 /\ leaked' \in Nat
    <3>1. Due' = Len(seq_pos) - (leaked + 1)
      BY <1>1, <2>1 DEF Due
    <3>2. Len(seq_pos) \in Nat /\ leaked \in Nat /\ Due = Len(seq_pos) - leaked
      BY StackFacts
    <3> QED BY <3>1, <3>2, <2>1
  <2>4. cursor' = cursor /\ read_pos' = read_pos /\ limit' = limit /\ input' = input
    BY <1>1 DEF stream
  <2>5. StreamOK' /\ read_pos <= read_pos' /\ limit' <= limit
    BY <2>4, StreamFacts, MessageFacts DEF StreamOK
  <2>6. Due' \in Nat /\ Stack(Fitting, frames', Due')
    BY <1>1, <2>2, <2>3
  <2>7. /\ seq_pos' \in Seq(Ends) /\ current_tag' \in Tags /\ ex' \in BOOLEAN
        /\ items' \in Seq(Items) /\ status' = "throwing" /\ status' \in Statuses
    BY <1>1 DEF Inv
  <2> QED BY <2>3, <2>4, <2>5, <2>6, <2>7, StepKeeps
<1>3. CASE Top.call # "end explicit"
  <2>1. ~Closes(Top) /\ leaked' = leaked
    BY <1>1, <1>3, Zenon DEF Closes, Closers
  <2>2. Stack(Fitting, frames', Due)
    BY <1>1, <2>1, TopFacts
  <2> QED BY <1>1, <2>1, <2>2, QuietStep DEF Inv
<1> QED BY <1>2, <1>3

LEMMA ReturnKeeps ==
  ASSUME Inv, Return
  PROVE  Inv'
<1>1. Stack(Fitting, frames', Due)
  BY StackFacts DEF Return
<1>2. status' \in Statuses /\ status' # "misaligned" /\ status' # "running"
  BY DEF Return, Statuses
<1> QED BY <1>1, <1>2, QuietStep DEF Return, Inv

LEMMA StutterKeeps ==
  ASSUME Inv, UNCHANGED vars
  PROVE  Inv'
<1>1. /\ cursor' = cursor /\ read_pos' = read_pos /\ limit' = limit /\ input' = input
      /\ seq_pos' = seq_pos /\ leaked' = leaked /\ frames' = frames /\ status' = status
      /\ current_tag' = current_tag /\ ex' = ex /\ items' = items
  BY DEF vars
<1>2. Due' = Due
  BY <1>1 DEF Due
<1>3. StreamOK' /\ read_pos <= read_pos' /\ limit' <= limit
  BY <1>1, StreamFacts, MessageFacts DEF StreamOK
<1>4. status = "misaligned" => ~Nested(input.message)
  BY DEF Inv, HeadersAligned
<1>5. Due' \in Nat /\ Stack(Fitting, frames', Due')
  BY <1>1, <1>2, StackFacts
<1>6. /\ seq_pos' \in Seq(Ends) /\ leaked' \in Nat /\ current_tag' \in Tags
      /\ ex' \in BOOLEAN /\ items' \in Seq(Items) /\ status' \in Statuses
      /\ status' = "running" => Between(cursor')
  BY <1>1 DEF Inv
<1> QED BY <1>1, <1>3, <1>4, <1>5, <1>6, StepKeeps

-----------------------------------------------------------------------------

\* Octets of the message.
LEMMA ContentItem ==
  ASSUME Inv, NEW a \in Nat, NEW b \in Int, b <= limit
  PROVE  Record(Value(SubSeq(input.message, a + 1, b))) \in Seq(Items)
<1>1. SubSeq(input.message, a + 1, b) \in Seq(Cells)
  <2>1. input.message \in Seq(Cells) /\ a + 1 \in Int /\ b <= Len(input.message)
    BY MessageFacts, StreamFacts
  <2>2. \A i \in a + 1 .. b : input.message[i] \in Cells
    BY <2>1, MessageFacts, StreamFacts
  <2> QED BY <2>1, <2>2, SubSeqProperties
<1> QED BY <1>1, RecordKeeps, ItemFacts

LEMMA ReadPrimitiveKeeps ==
  ASSUME Inv, ReadPrimitive
  PROVE  Inv'
<1> DEFINE T == Top.type
           t == TagOr(T.tag)
           len == Cell.len
<1>1. frames # <<>> /\ status = "running" /\ ~Closes(Top)
  BY ReadingFacts DEF ReadPrimitive
<1>2. UNCHANGED <<input, leaked, seq_pos, ex>> /\ current_tag' \in Tags
  BY DEF ReadPrimitive, NoTag, Tags
<1>3. items \in Seq(Items)
  BY DEF Inv
<1>4. CASE HeaderFails(t) /\ UNCHANGED items
  BY <1>1, <1>2, <1>3, <1>4, HeaderFailsKeeps
<1>5. CASE Matches(t) /\ Take(cursor + 1) /\ Throw /\ UNCHANGED items
  <2>1. cursor + 1 \in Nat /\ cursor + 1 <= limit
    BY <1>5, CellHere, StreamFacts DEF Matches
  <2>2. StreamOK' /\ read_pos <= read_pos' /\ limit' <= limit
    BY <2>1, <1>2, <1>5, TakeKeeps
  <2>3. items' \in Seq(Items) /\ frames' = Rest /\ status' = "throwing" /\ status' \in Statuses
    BY <1>3, <1>5 DEF Throw, Statuses
  <2> QED BY <2>2, <2>3, <1>1, <1>2, EndingStep
<1>6. CASE Matches(t) /\ Lose(cursor + 1) /\ Throw /\ UNCHANGED items
  <2>1. cursor + 1 \in Nat /\ cursor + 1 <= limit
    BY <1>6, CellHere, StreamFacts DEF Matches
  <2>2. StreamOK' /\ read_pos <= read_pos' /\ limit' <= limit
    BY <2>1, <1>2, <1>6, LoseKeeps
  <2>3. items' \in Seq(Items) /\ frames' = Rest /\ status' = "throwing" /\ status' \in Statuses
    BY <1>3, <1>6 DEF Throw, Statuses
  <2> QED BY <2>2, <2>3, <1>1, <1>2, EndingStep
<1>7. CASE /\ Matches(t)
           /\ cursor + 1 + len <= limit
           /\ Take(cursor + 1 + len)
           /\ IF Refuses(T, Content(len))
              THEN Throw /\ UNCHANGED items
              ELSE /\ items' = Record(Value(Content(len)))
                   /\ frames' = Rest
                   /\ UNCHANGED status
  <2>1. HeaderHere /\ cursor + 1 \in Nat /\ len \in Nat
    BY <1>7, CellHere, StreamFacts DEF Matches
  <2>2. cursor + 1 + len \in Nat /\ Between(cursor + 1 + len)
    BY <2>1, BetweenFacts
  <2>3. /\ StreamOK' /\ read_pos <= read_pos' /\ limit' <= limit
        /\ cursor' = cursor + 1 + len
    BY <2>2, <1>2, <1>7, TakeKeeps
  <2>4. Record(Value(Content(len))) \in Seq(Items)
    <3>1. cursor + 2 = (cursor + 1) + 1
      BY StreamFacts
    <3>2. Content(len) = SubSeq(input.message, (cursor + 1) + 1, cursor + 1 + len)
      BY <3>1, Zenon DEF Content
    <3> QED BY <3>2, <2>1, <2>2, <1>7, ContentItem
  <2>5. items' \in Seq(Items) /\ frames' = Rest /\ status' \in {"running", "throwing"}
    BY <1>1, <1>3, <1>7, <2>4 DEF Throw
  <2>6. status' = "running" => Between(cursor')
    BY <2>2, <2>3
  <2> QED BY <2>3, <2>5, <2>6, <1>1, <1>2, EndingStep DEF Statuses
<1> QED BY <1>4, <1>5, <1>6, <1>7 DEF ReadPrimitive

LEMMA ReadTrailingKeeps ==
  ASSUME Inv, ReadTrailing
  PROVE  Inv'
<1> DEFINE n == Head(seq_pos) - cursor
<1>1. /\ frames # <<>> /\ seq_pos # <<>> /\ status = "running" /\ ~Closes(Top)
  BY ReadingFacts DEF ReadTrailing
<1>2. UNCHANGED <<input, leaked, seq_pos, ex>> /\ current_tag' \in Tags
  BY DEF ReadTrailing, Inv
<1>3. Head(seq_pos) \in Nat /\ Between(Head(seq_pos))
  <2>1. Head(seq_pos) \in Ends
    BY <1>1, StackFacts, HeadTailProperties
  <2> QED BY <2>1 DEF Ends
<1>4. CASE n > 0 /\ cursor + n > limit /\ Lose(cursor) /\ Throw /\ UNCHANGED items
  <2>1. StreamOK' /\ read_pos <= read_pos' /\ limit' <= limit
    BY <1>2, <1>4, StreamFacts, LoseKeeps
  <2>2. items' \in Seq(Items) /\ status' = "throwing" /\ status' \in Statuses /\ frames' = Rest
    BY <1>4 DEF Inv, Throw, Statuses
  <2> QED BY <2>1, <2>2, <1>1, <1>2, EndingStep
<1>5. CASE /\ n <= 0 \/ cursor + n <= limit
           /\ Take(Larger(cursor, Head(seq_pos)))
           /\ items' = Record(Value(SubSeq(input.message, cursor + 1, cursor + n)))
           /\ frames' = Rest
           /\ UNCHANGED status
  <2> DEFINE e == Larger(cursor, Head(seq_pos))
  <2>1. e \in Nat /\ e <= limit /\ cursor + n \in Int /\ cursor + n <= limit
    BY <1>3, <1>5, StreamFacts DEF Larger
  <2>2. Between(e)
    BY <1>1, <1>3 DEF Larger, Inv
  <2>3. Take(e)
    BY <1>5
  <2> HIDE DEF e
  <2>4. StreamOK' /\ read_pos <= read_pos' /\ limit' <= limit /\ cursor' = e
    BY <2>1, <2>3, <1>2, TakeKeeps
  <2>5. items' \in Seq(Items)
    BY <2>1, <1>5, StreamFacts, ContentItem
  <2>6. status' = "running" /\ status' \in Statuses /\ frames' = Rest
    BY <1>1, <1>5 DEF Statuses
  <2>7. Between(cursor')
    BY <2>2, <2>4
  <2> QED BY <2>4, <2>5, <2>6, <2>7, <1>1, <1>2, EndingStep
<1> QED BY <1>4, <1>5 DEF ReadTrailing

LEMMA ReadChoiceKeeps ==
  ASSUME Inv, ReadChoice
  PROVE  Inv'
<1> DEFINE T == Top.type
<1>1. /\ frames # <<>> /\ status = "running" /\ ~Closes(Top)
      /\ Stack(Fitting, Rest, Due) /\ Rest \in Seq(Fitting) /\ Due \in Nat
      /\ \A i \in 1 .. Len(T.alts) : AsImplicit(T.alts[i]) \in Types
  BY ReadingFacts DEF ReadChoice, WellFormed
<1>2. UNCHANGED <<input, leaked, seq_pos, current_tag, ex, cursor, limit>>
  BY DEF ReadChoice
<1>3. current_tag' \in Tags /\ ex' \in BOOLEAN /\ Between(cursor') /\ items \in Seq(Items)
  BY <1>1, <1>2 DEF Inv
<1>4. CASE /\ read_pos' = IF cursor = limit THEN read_pos ELSE Larger(read_pos, cursor + 1)
           /\ frames' = Rest
           /\ status' = IF cursor < limit /\ Cell.is = "octet" THEN "misaligned" ELSE "throwing"
           /\ UNCHANGED items
  <2>1. StreamOK' /\ read_pos <= read_pos' /\ limit' <= limit
    BY <1>2, <1>4, StreamFacts, MessageFacts DEF StreamOK, Larger
  <2>2. /\ status' \in Statuses
        /\ status' = "misaligned" => ~Nested(input.message)
    BY <1>1, <1>4, OctetHere DEF Statuses
  <2> QED BY <2>1, <2>2, <1>1, <1>2, <1>3, <1>4, EndingStep
<1>5. ASSUME NEW i \in Alternatives(T),
             frames' = <<Read(AsImplicit(T.alts[i])), Amp>> \o Rest,
             items' = Record(Chosen(T.alts[i].tag)),
             read_pos' = Larger(read_pos, cursor + 1),
             status' = status
      PROVE  Inv'
  <2>1. HeaderHere /\ i \in 1 .. Len(T.alts) /\ AsImplicit(T.alts[i]) \in Types
    BY <1>1, <1>5 DEF Alternatives
  <2>2. cursor + 1 \in Nat /\ cursor + 1 <= limit
    BY <2>1, CellHere, StreamFacts
  <2>3. StreamOK' /\ read_pos <= read_pos' /\ limit' <= limit
    BY <2>2, <1>2, <1>5, StreamFacts, MessageFacts DEF StreamOK, Larger
  <2>4. Due' = Due
    BY <1>2 DEF Due
  <2>5. Stack(Fitting, frames', Due') /\ Due' \in Nat
    BY <2>1, <2>4, <1>1, <1>5, ReadFrames, AmpFrame, PushTwoPlain
  <2>6. T.alts[i].tag \in Nat
    <3>1. WellFormed(AsImplicit(T.alts[i]))
      BY <2>1, DeserialiserAssumption DEF DeserialiserAssumption
    <3>2. AsImplicit(T.alts[i]).kind = "implicit" /\ AsImplicit(T.alts[i]).tag = T.alts[i].tag
      BY DEF AsImplicit
    <3> QED BY <3>1, <3>2 DEF WellFormed
  <2>7. items' \in Seq(Items)
    BY <2>6, <1>5, ItemFacts, RecordKeeps
  <2>8. seq_pos' \in Seq(Ends) /\ leaked' \in Nat
    BY <1>2, StackFacts
  <2>9. status' = "running" /\ status' \in Statuses
    BY <1>1, <1>5 DEF Statuses
  <2> QED BY <2>3, <2>5, <2>7, <2>8, <2>9, <1>2, <1>3, StepKeeps
<1> QED BY <1>4, <1>5 DEF ReadChoice

-----------------------------------------------------------------------------

\* Opening a scope, whatever goes on inside it, provided that it is closed
\* once: the frames put on the stack end with one that closes it.
LEMMA OpenScopeKeeps ==
  ASSUME Inv, frames # <<>>, status = "running", ~Closes(Top),
         NEW t, NEW inside, OpenScope(t, inside),
         UNCHANGED <<input, leaked, ex>>, current_tag' \in Tags, items' \in Seq(Items),
         Stack(Fitting, inside \o Rest, Due + 1)
  PROVE  Inv'
<1>1. CASE /\ Matches(t)
           /\ Cell.constructed
           /\ Take(cursor + 1)
           /\ seq_pos' = <<cursor + 1 + Cell.len>> \o seq_pos
           /\ frames' = inside \o Rest
           /\ UNCHANGED status
  <2> DEFINE e == cursor + 1 + Cell.len
  <2>1. /\ HeaderHere /\ cursor + 1 \in Nat /\ cursor + 1 <= limit /\ e \in Nat
        /\ Between(e) /\ Between(cursor + 1)
    BY <1>1, CellHere, BetweenFacts, StreamFacts DEF Matches
  <2>2. /\ StreamOK' /\ read_pos <= read_pos' /\ limit' <= limit /\ cursor' = cursor + 1
    BY <2>1, <1>1, TakeKeeps
  <2>3. seq_pos' \in Seq(Ends) /\ Len(seq_pos') = Len(seq_pos) + 1
    <3>1. seq_pos \in Seq(Ends) /\ e \in Ends /\ seq_pos' = <<e>> \o seq_pos
      BY <2>1, <1>1, StackFacts DEF Ends
    <3> HIDE DEF e
    <3> QED BY <3>1, PushIndices
  <2>4. Due' = Due + 1
    <3>1. Due' = Len(seq_pos') - leaked' /\ leaked' = leaked
      BY DEF Due
    <3> QED BY <3>1, <2>3, StackFacts
  <2>5. Due' \in Nat /\ Stack(Fitting, frames', Due')
    BY <2>4, <1>1, StackFacts
  <2>6. leaked' \in Nat /\ ex' \in BOOLEAN /\ status' = "running" /\ status' \in Statuses
    BY <1>1 DEF Inv
  <2>7. Between(cursor')
    BY <2>1, <2>2
  <2> QED BY <2>2, <2>3, <2>5, <2>6, <2>7, StepKeeps
<1>2. CASE Matches(t) /\ Take(cursor + 1) /\ Throw /\ UNCHANGED seq_pos
  <2>1. cursor + 1 \in Nat /\ cursor + 1 <= limit
    BY <1>2, CellHere, StreamFacts DEF Matches
  <2>2. StreamOK' /\ read_pos <= read_pos' /\ limit' <= limit
    BY <2>1, <1>2, TakeKeeps
  <2>3. status' = "throwing" /\ status' \in Statuses /\ frames' = Rest
    BY <1>2 DEF Throw, Statuses
  <2> QED BY <2>2, <2>3, <1>2, EndingStep
<1>3. CASE HeaderFails(t) /\ UNCHANGED seq_pos
  BY <1>3, HeaderFailsKeeps
<1> QED BY <1>1, <1>2, <1>3 DEF OpenScope

LEMMA DepthFacts ==
  ASSUME Inv
  PROVE  Depth \in Nat /\ Depth = Due + 1
BY StackFacts DEF Depth

LEMMA ReadSequenceKeeps ==
  ASSUME Inv, ReadSequence
  PROVE  Inv'
<1> DEFINE f == Fields(Top.type.fields)
           e == EndSequence(Depth)
<1>1. /\ frames # <<>> /\ status = "running" /\ ~Closes(Top)
      /\ Stack(Fitting, Rest, Due) /\ Rest \in Seq(Fitting) /\ Due \in Nat
      /\ Top.type.fields \in Seq(Types)
  BY ReadingFacts DEF ReadSequence, WellFormed
<1>2. f \in Fitting /\ ~Closes(f) /\ e \in Fitting /\ Closes(e) /\ DepthOf(e) = Due + 1
  BY <1>1, FieldsFrame, ClosingFrames, DepthFacts
<1>3. OpenScope(TagOr(Top.type.tag), <<f, e>>)
  BY DEF ReadSequence
<1> HIDE DEF f, e
<1>4. Stack(Fitting, <<f, e>> \o Rest, Due + 1)
  BY <1>1, <1>2, PushLayer
<1>5. current_tag' \in Tags /\ items' \in Seq(Items) /\ UNCHANGED <<input, leaked, ex>>
  BY DEF ReadSequence, NoTag, Tags, Inv
<1> QED BY <1>1, <1>3, <1>4, <1>5, OpenScopeKeeps

LEMMA ReadContainerKeeps ==
  ASSUME Inv, ReadContainer
  PROVE  Inv'
<1> DEFINE f == Loop(Top.type.of)
           e == EndSequence(Depth)
<1>1. /\ frames # <<>> /\ status = "running" /\ ~Closes(Top)
      /\ Stack(Fitting, Rest, Due) /\ Rest \in Seq(Fitting) /\ Due \in Nat
      /\ Top.type.of \in Types
  BY ReadingFacts DEF ReadContainer, WellFormed
<1>2. f \in Fitting /\ ~Closes(f) /\ e \in Fitting /\ Closes(e) /\ DepthOf(e) = Due + 1
  BY <1>1, ReadFrames, ClosingFrames, DepthFacts
<1>3. OpenScope(TagOr(SequenceTag), <<f, e>>)
  BY DEF ReadContainer
<1> HIDE DEF f, e
<1>4. Stack(Fitting, <<f, e>> \o Rest, Due + 1)
  BY <1>1, <1>2, PushLayer
<1>5. current_tag' \in Tags /\ UNCHANGED <<input, leaked, ex>>
  BY DEF ReadContainer, NoTag, Tags
<1>6. items' \in Seq(Items)
  BY RecordKeeps, ItemFacts DEF ReadContainer
<1> QED BY <1>1, <1>3, <1>4, <1>5, <1>6, OpenScopeKeeps

LEMMA OpenExplicitKeeps ==
  ASSUME Inv, OpenExplicit
  PROVE  Inv'
<1> DEFINE f == Read(Top.type)
           e == EndExplicit(Depth)
<1>1. frames # <<>> /\ Top.call = "start explicit" /\ status = "running"
  BY DEF OpenExplicit, running
<1>2. Top.type \in Types /\ ~Closes(Top)
  BY <1>1, TopFacts, FrameParts DEF Closes, Closers
<1>3. Stack(Fitting, Rest, Due) /\ Rest \in Seq(Fitting) /\ Due \in Nat
  BY <1>1, <1>2, TopFacts, StackFacts
<1>4. f \in Fitting /\ ~Closes(f) /\ e \in Fitting /\ Closes(e) /\ DepthOf(e) = Due + 1
  BY <1>2, ReadFrames, ClosingFrames, DepthFacts
<1>5. OpenScope(Context(Top.tag), <<f, Amp, e>>)
  BY DEF OpenExplicit
<1> HIDE DEF f, e
<1>6. Stack(Fitting, <<f, Amp, e>> \o Rest, Due + 1)
  BY <1>3, <1>4, AmpFrame, PushTaggedLayer
<1>7. current_tag' \in Tags /\ items' \in Seq(Items) /\ UNCHANGED <<input, leaked, ex>>
  BY DEF OpenExplicit, Inv
<1> QED BY <1>1, <1>2, <1>5, <1>6, <1>7, OpenScopeKeeps

\* pop closes the innermost scope, and the call on top of the stack is the one
\* that is to close a scope next.  It skips to where the scope ends, or to the
\* end of the stream.
LEMMA PopScopeKeeps ==
  ASSUME Inv, frames # <<>>, Closes(Top), Pop, frames' = Rest,
         UNCHANGED <<input, leaked, current_tag, items>>,
         ex' \in BOOLEAN, status' \in {"running", "throwing"},
         status' = "running" => status = "running"
  PROVE  Inv'
<1>1. seq_pos # <<>> /\ seq_pos' = Tail(seq_pos) /\ seq_pos \in Seq(Ends)
  BY StackFacts DEF Pop
<1>2. /\ Head(seq_pos) \in Ends /\ Tail(seq_pos) \in Seq(Ends)
      /\ Len(Tail(seq_pos)) = Len(seq_pos) - 1
  BY <1>1, PopIndices
<1> DEFINE e == IF Head(seq_pos) > limit THEN limit ELSE Larger(cursor, Head(seq_pos))
<1>3. Take(e)
  BY Zenon DEF Pop
<1>4. e \in Nat /\ e <= limit
  BY <1>2, StreamFacts DEF Larger, Ends
<1>5. status = "running" => Between(e)
  <2>1. Between(limit)
    BY StreamFacts DEF Between
  <2> QED BY <2>1, <1>2 DEF Larger, Ends, Inv
<1> HIDE DEF e
<1>6. StreamOK' /\ read_pos <= read_pos' /\ limit' <= limit /\ cursor' = e
  BY <1>3, <1>4, TakeKeeps
<1>7. Due - 1 \in Nat /\ Stack(Fitting, Rest, Due - 1)
  BY TopFacts
<1>8. Due' = Due - 1
  <2>1. Due' = Len(seq_pos) - 1 - leaked
    BY <1>1, <1>2 DEF Due
  <2> QED BY <2>1, StackFacts
<1>9. Due' \in Nat /\ Stack(Fitting, frames', Due')
  BY <1>7, <1>8
<1>10. /\ seq_pos' \in Seq(Ends) /\ leaked' \in Nat /\ current_tag' \in Tags
       /\ items' \in Seq(Items) /\ status' \in Statuses
  BY <1>1, <1>2 DEF Inv, Statuses
<1>11. status' = "running" => Between(cursor')
  BY <1>5, <1>6
<1> QED BY <1>6, <1>9, <1>10, <1>11, StepKeeps

LEMMA CloseSequenceKeeps ==
  ASSUME Inv, CloseSequence
  PROVE  Inv'
<1>1. frames # <<>> /\ Closes(Top)
  BY DEF CloseSequence, Closes, Closers
<1>2. ex' \in BOOLEAN /\ status' = status /\ status \in {"running", "throwing"}
  BY DEF CloseSequence, Inv
<1> QED BY <1>1, <1>2, PopScopeKeeps DEF CloseSequence

LEMMA CloseExplicitKeeps ==
  ASSUME Inv, CloseExplicit
  PROVE  Inv'
<1>1. frames # <<>> /\ Closes(Top) /\ status = "running"
  BY DEF CloseExplicit, running, Closes, Closers
<1>2. ex' \in BOOLEAN /\ status' \in {"running", "throwing"}
  BY DEF CloseExplicit, Inv
<1> QED BY <1>1, <1>2, PopScopeKeeps DEF CloseExplicit

\* The position the guard puts back is between two values.
LEMMA CatchOptionalKeeps ==
  ASSUME Inv, CatchOptional
  PROVE  Inv'
<1>1. frames # <<>> /\ IsGuard(Top) /\ frames' = Rest /\ status' = "running"
  BY DEF CatchOptional, IsGuard
<1>2. /\ Top \in Fitting /\ ~Closes(Top) /\ MarkOf(Top) \in Nat /\ Top.items \in Seq(Items)
      /\ Stack(Fitting, Rest, Due)
  BY <1>1, TopFacts, FrameParts
<1>3. MarkOf(Top) <= read_pos /\ Between(MarkOf(Top))
  BY <1>1, <1>2 DEF Fitting
<1>4. /\ cursor' = MarkOf(Top)
      /\ UNCHANGED <<input, leaked, read_pos, limit, seq_pos, current_tag, ex>>
  BY DEF CatchOptional, MarkOf
<1>5. StreamOK' /\ read_pos <= read_pos' /\ limit' <= limit
  BY <1>2, <1>3, <1>4, StreamFacts, MessageFacts DEF StreamOK
<1>6. Due' = Due
  BY <1>4 DEF Due
<1>7. Due' \in Nat /\ Stack(Fitting, frames', Due')
  BY <1>1, <1>2, <1>6, StackFacts
<1>8. items' \in Seq(Items)
  <2>1. items' = Noted(Top.items, Absent)
    BY DEF CatchOptional
  <2> QED BY <2>1, <1>2, ItemFacts DEF Noted
<1>9. /\ seq_pos' \in Seq(Ends) /\ leaked' \in Nat /\ current_tag' \in Tags /\ ex' \in BOOLEAN
      /\ status' \in Statuses
  BY <1>1, <1>4 DEF Inv, Statuses
<1>10. Between(cursor')
  BY <1>3, <1>4
<1> QED BY <1>1, <1>4, <1>5, <1>7, <1>8, <1>9, <1>10, StepKeeps

-----------------------------------------------------------------------------

\* A message does not begin within a value.
LEMMA InitInv ==
  ASSUME Init
  PROVE  Inv
<1>1. input \in Cases /\ input.message \in Seq(Cells) /\ input.type \in Types
  BY DeserialiserAssumption DEF Init, DeserialiserAssumption
<1>2. /\ cursor = 0 /\ read_pos = 0 /\ limit = Len(input.message) /\ seq_pos = <<>>
      /\ leaked = 0 /\ status = "running" /\ frames = <<Read(input.type), Amp>>
  BY DEF Init
<1>3. Len(input.message) \in Nat
  BY <1>1, LenProperties
<1>4. StreamOK
  BY <1>2, <1>3 DEF StreamOK
<1>5. Len(seq_pos) = 0 /\ seq_pos \in Seq(Ends)
  BY <1>2
<1>6. Due = 0
  BY <1>2, <1>5 DEF Due
<1>7. Stack(Fitting, frames, 0)
  <2> DEFINE none == <<>>
             f == Read(input.type)
             g == Amp
  <2>1. f \in Fitting /\ ~Closes(f) /\ g \in Fitting /\ ~Closes(g)
    BY <1>1, ReadFrames, AmpFrame
  <2>2. none \in Seq(Fitting) /\ Stack(Fitting, none, 0)
    BY NoneToClose
  <2>3. frames = <<f, g>>
    BY <1>2
  <2> HIDE DEF none, f, g
  <2>4. Stack(Fitting, <<f, g>> \o none, 0)
    BY <2>1, <2>2, PushTwoPlain
  <2>5. <<f, g>> \o none = <<f, g>>
    BY <2>1 DEF none
  <2> QED BY <2>3, <2>4, <2>5
<1>8. Between(cursor)
  <2>1. ASSUME Nested(input.message), 0 < Len(input.message), input.message[1].is = "octet"
        PROVE  FALSE
    <3>1. 1 \in 1 .. Len(input.message)
      BY <1>3, <2>1
    <3>2. PICK i \in 1 .. Len(input.message) : i < 1
      BY <1>1, <2>1, <3>1, NestedParts
    <3> QED BY <3>2
  <2>2. 0 + 1 = 1
    OBVIOUS
  <2> QED BY <2>1, <2>2, <1>2 DEF Between
<1>9. current_tag \in Tags
  BY DEF Init, NoTag, Tags
<1>10. ex \in BOOLEAN
  BY Zenon DEF Init
<1>11. status \in Statuses /\ items \in Seq(Items) /\ leaked \in Nat
  BY DEF Init, Statuses
<1>12. HeadersAligned
  BY <1>2 DEF HeadersAligned
<1> QED BY <1>1, <1>4, <1>5, <1>6, <1>7, <1>8, <1>9, <1>10, <1>11, <1>12 DEF Inv

LEMMA NextInv ==
  ASSUME Inv, [Next]_vars
  PROVE  Inv'
<1>1. CASE Step
  BY <1>1, ReadPrimitiveKeeps, ReadSequenceKeeps, ReadContainerKeeps, ReadObjectKeeps,
     ReadImplicitKeeps, ReadExplicitKeeps, ReadOptionalKeeps, ReadExplicitOptionalKeeps,
     OpenExplicitKeeps, ReadTrailingKeeps, ReadChoiceKeeps, NextFieldKeeps,
     NextElementKeeps, AmpersandKeeps, CloseSequenceKeeps, CloseExplicitKeeps,
     KeepOptionalKeeps, CatchOptionalKeeps, UnwindKeeps, ReturnKeeps DEF Step
<1>2. CASE UNCHANGED vars
  BY <1>2, StutterKeeps
<1> QED BY <1>1, <1>2 DEF Next, Stopped

LEMMA InvTypes == Inv => TypeOK
<1> SUFFICES ASSUME Inv
             PROVE  TypeOK
  OBVIOUS
<1>1. Ends \subseteq Nat /\ Fitting \subseteq Frames
  BY DEF Ends, Fitting
<1>2. seq_pos \in Seq(Nat) /\ frames \in Seq(Frames)
  BY <1>1, StackFacts, SeqWider
<1>3. MarksBehind
  <2>1. \A i \in 1 .. Len(frames) : frames[i] \in Fitting
    BY StackFacts, ElementOfSeq
  <2> QED BY <2>1 DEF MarksBehind, Fitting, IsGuard, MarkOf
<1> QED BY <1>2, <1>3 DEF Inv, TypeOK

LEMMA InvScopes == Inv => ScopesOpen
<1> SUFFICES ASSUME Inv
             PROVE  ScopesOpen
  OBVIOUS
<1>1. Scoped(frames, Due)
  BY StackFacts DEF Stack
<1>2. 1 .. Due \subseteq 1 .. Len(seq_pos)
  BY StackFacts
<1>3. ASSUME NEW i \in 1 .. Len(frames), frames[i].call \in Closers
      PROVE  /\ frames[i].depth \in 1 .. Len(seq_pos)
             /\ \A j \in 1 .. Len(frames) :
                  i < j /\ frames[j].call \in Closers => frames[j].depth < frames[i].depth
  BY <1>1, <1>2, <1>3 DEF Scoped, Closes, DepthOf
<1>4. frames = <<>> => Len(seq_pos) = leaked
  <2>1. frames = <<>> => Due = 0
    BY StackFacts, NoneDue
  <2> QED BY <2>1, StackFacts
<1> QED BY <1>3, <1>4 DEF ScopesOpen

\* Whatever octets are decoded as whatever type, with whatever limits, the
\* state of the decoder keeps its type: in particular the position the guard of
\* an optional puts back (deserialiser.hpp:79-94) is one the stream has been
\* read to, and nothing is read beyond the end of the message.
THEOREM TypeInvariance == Spec => []TypeOK
<1>1. Init => Inv
  BY InitInv
<1>2. Inv /\ [Next]_vars => Inv'
  BY NextInv
<1>3. Inv => TypeOK
  BY InvTypes
<1> QED BY <1>1, <1>2, <1>3, PTL DEF Spec

\* However calls return and exceptions pass, every call that is still to close
\* a scope finds it open, a different one each: pop is never called with
\* seq_pos_ empty (asn_der_decoder.hpp:179).  In the end no scope is open but
\* those of explicit tags that exceptions have left behind.
THEOREM ScopesStayOpen == Spec => []ScopesOpen
<1>1. Init => Inv
  BY InitInv
<1>2. Inv /\ [Next]_vars => Inv'
  BY NextInv
<1>3. Inv => ScopesOpen
  BY InvScopes
<1> QED BY <1>1, <1>2, <1>3, PTL DEF Spec

\* No header is ever read out of the middle of a value, whatever the message
\* is read as, wherever it is cut off and whatever exceptions are swallowed on
\* the way: where a scope ends, and where the guard of an optional goes back
\* to, is between two values (asn_der_decoder.hpp:178-184,
\* deserialiser.hpp:79-94).
THEOREM HeadersStayAligned == Spec => []HeadersAligned
<1>1. Init => Inv
  BY InitInv
<1>2. Inv /\ [Next]_vars => Inv'
  BY NextInv
<1>3. Inv => HeadersAligned
  BY DEF Inv
<1> QED BY <1>1, <1>2, <1>3, PTL DEF Spec

-----------------------------------------------------------------------------

\* A sequence that is cut short, from before its header is read to when the
\* exception has reached the caller: the outermost scope ends behind the end
\* of the message, and its destructor is the last call but operator&, that
\* throws what the destructor has kept.
CutShort == input.type.kind \in {"sequence", "container"} /\ Overruns(input.message)

Untouched ==
  frames = <<Read(input.type), Amp>> /\ seq_pos = <<>> /\ cursor = 0 /\ status = "running"

InSequence(fs) ==
  Len(fs) >= 2 /\ fs[Len(fs)].call = "amp" /\ fs[Len(fs) - 1].call = "end sequence"

EndsLate(ends) == ends # <<>> /\ ends[Len(ends)] > Len(input.message)

Within == InSequence(frames) /\ EndsLate(seq_pos) /\ status \in {"running", "throwing"}

Noticed ==
  /\ Len(frames) = 1 /\ frames[1].call = "amp"
  /\ \/ status = "running" /\ ex
     \/ status = "throwing"

Thrown == frames = <<>> /\ status \in {"throwing", "failed"}

Doomed == Untouched \/ Within \/ Noticed \/ Thrown \/ status = "misaligned"

Late == CutShort /\ leaked = 0 => Doomed

\* What is done above the outermost sequence leaves it where it is.
LEMMA InSequenceParts ==
  ASSUME NEW S, NEW fs \in Seq(S), NEW n \in Nat, Len(fs) = n
  PROVE  InSequence(fs) <=> n >= 2 /\ fs[n].call = "amp" /\ fs[n - 1].call = "end sequence"
BY DEF InSequence

LEMMA AboveSequence ==
  ASSUME NEW R, NEW gs \in Seq(R), NEW S, NEW fs \in Seq(S), InSequence(fs)
  PROVE  InSequence(gs \o fs)
<1>1. gs \in Seq(R \cup S) /\ fs \in Seq(R \cup S)
  BY SeqWider
<1>2. PICK n \in Nat : Len(fs) = n
  BY LenProperties
<1>3. PICK m \in Nat : Len(gs) = m
  BY LenProperties
<1>4. n >= 2
  BY <1>2, InSequenceParts
<1>5. fs[n].call = "amp" /\ fs[n - 1].call = "end sequence"
  BY <1>2, InSequenceParts
<1> DEFINE hs == gs \o fs
<1>6. hs \in Seq(R \cup S) /\ Len(hs) = m + n
  BY <1>1, <1>2, <1>3, ConcatProperties
<1>7. \A i \in 1 .. n : hs[m + i] = fs[i]
  BY <1>1, <1>2, <1>3, ConcatProperties
<1> HIDE DEF hs
<1>8. PICK k \in Nat : k = m + n /\ k >= 2 /\ m + (n - 1) = k - 1
  BY <1>4
<1>9. n \in 1 .. n /\ n - 1 \in 1 .. n
  BY <1>4
<1>10. hs[k] = fs[n] /\ hs[k - 1] = fs[n - 1]
  <2>1. hs[m + n] = fs[n] /\ hs[m + (n - 1)] = fs[n - 1]
    BY <1>7, <1>9
  <2> QED BY <2>1, <1>8
<1>11. hs[k].call = "amp" /\ hs[k - 1].call = "end sequence"
  BY <1>5, <1>10
<1>12. InSequence(hs)
  BY <1>6, <1>8, <1>11, InSequenceParts
<1> QED BY <1>12 DEF hs

LEMMA BelowTop ==
  ASSUME NEW S, NEW fs \in Seq(S), NEW n \in Nat, Len(fs) = n, InSequence(fs)
  PROVE  /\ fs # <<>> /\ (n > 2 \/ n = 2)
         /\ n > 2 => InSequence(Tail(fs))
         /\ n = 2 => /\ Head(fs).call = "end sequence"
                     /\ Len(Tail(fs)) = 1 /\ Tail(fs)[1].call = "amp"
<1>1. fs[n].call = "amp" /\ fs[n - 1].call = "end sequence"
  BY InSequenceParts
<1>6. n >= 2
  BY InSequenceParts
<1>2. fs # <<>>
  BY <1>6
<1>3. /\ Head(fs) = fs[1] /\ Tail(fs) \in Seq(S) /\ Len(Tail(fs)) = n - 1
      /\ \A i \in 1 .. n - 1 : Tail(fs)[i] = fs[i + 1]
  BY <1>2, PopIndices
<1>4. ASSUME n > 2
      PROVE  InSequence(Tail(fs))
  <2>1. n - 1 \in 1 .. n - 1 /\ n - 2 \in 1 .. n - 1 /\ n - 1 \in Nat /\ n - 1 >= 2
        /\ n - 1 + 1 = n /\ n - 2 + 1 = n - 1 /\ n - 1 - 1 = n - 2
    BY <1>4
  <2>2. Tail(fs)[n - 1] = fs[n] /\ Tail(fs)[n - 2] = fs[n - 1]
    BY <2>1, <1>3
  <2> QED BY <2>1, <2>2, <1>1, <1>3, InSequenceParts
<1>5. ASSUME n = 2
      PROVE  /\ Head(fs).call = "end sequence"
             /\ Len(Tail(fs)) = 1 /\ Tail(fs)[1].call = "amp"
  <2>1. n - 1 = 1 /\ 1 \in 1 .. n - 1 /\ 1 + 1 = n
    BY <1>5
  <2>2. Tail(fs)[1] = fs[n]
    BY <2>1, <1>3
  <2> QED BY <2>1, <2>2, <1>1, <1>3
<1>7. n > 2 \/ n = 2
  BY <1>6
<1> QED BY <1>7, <1>2, <1>4, <1>5

\* Opening and closing scopes inside the outermost one leaves it open.
LEMMA EndsLateParts ==
  ASSUME NEW S, NEW ends \in Seq(S), NEW n \in Nat, Len(ends) = n
  PROVE  EndsLate(ends) <=> n >= 1 /\ ends[n] > Len(input.message)
<1>1. ends = <<>> <=> n = 0
  OBVIOUS
<1>2. n # 0 <=> n >= 1
  OBVIOUS
<1> QED BY <1>1, <1>2 DEF EndsLate

LEMMA OutermostStays ==
  ASSUME NEW S, NEW ends \in Seq(S), NEW n \in Nat, Len(ends) = n, EndsLate(ends)
  PROVE  /\ ends # <<>> /\ n >= 1
         /\ \A e : EndsLate(<<e>> \o ends)
         /\ n >= 2 => EndsLate(Tail(ends))
         /\ n = 1 => Head(ends) > Len(input.message)
<1>1. n >= 1 /\ ends[n] > Len(input.message)
  BY EndsLateParts
<1>2. ends # <<>>
  BY DEF EndsLate
<1>3. ASSUME NEW e
      PROVE  EndsLate(<<e>> \o ends)
  <2> DEFINE R == S \cup {e}
  <2>3. ends \in Seq(R) /\ e \in R
    BY SeqWider
  <2> HIDE DEF R
  <2>1. n + 1 \in 1 .. n + 1 /\ n + 1 # 1 /\ n + 1 - 1 = n /\ n + 1 \in Nat /\ n + 1 >= 1
    BY <1>1
  <2>2. /\ <<e>> \o ends \in Seq(R) /\ Len(<<e>> \o ends) = n + 1
        /\ (<<e>> \o ends)[n + 1] = ends[n + 1 - 1]
    BY <2>1, <2>3, PushIndices
  <2> QED BY <2>1, <2>2, <1>1, EndsLateParts
<1>4. ASSUME n >= 2
      PROVE  EndsLate(Tail(ends))
  <2>1. n - 1 \in 1 .. n - 1 /\ n - 1 + 1 = n /\ n - 1 \in Nat /\ n - 1 >= 1
    BY <1>4
  <2>2. Tail(ends) \in Seq(S) /\ Len(Tail(ends)) = n - 1 /\ Tail(ends)[n - 1] = ends[n - 1 + 1]
    BY <2>1, <1>2, PopIndices
  <2> QED BY <2>1, <2>2, <1>1, EndsLateParts
<1>5. n = 1 => Head(ends) > Len(input.message)
  BY <1>1, <1>2, PopIndices
<1> QED BY <1>1, <1>2, <1>3, <1>4, <1>5

\* While calls above the destructor of the outermost sequence close scopes,
\* there is more than its own open; it itself closes the last.
LEMMA OpenWithin ==
  ASSUME Inv, leaked = 0, NEW n \in Nat, Len(frames) = n, InSequence(frames), Closes(Top),
         NEW d \in Nat, Len(seq_pos) = d
  PROVE  (n > 2 => d >= 2) /\ (n = 2 => d = 1)
<1>1. frames[n].call = "amp" /\ frames[n - 1].call = "end sequence"
  BY StackFacts, InSequenceParts
<1>9. n >= 2
  BY StackFacts, InSequenceParts
<1>2. Due = d
  BY StackFacts
<1>3. Scoped(frames, d) /\ Closed(frames, d)
  BY <1>2, StackFacts DEF Stack
<1>4. Top = frames[1]
  <2>1. frames # <<>>
    BY <1>9
  <2> QED BY <2>1, StackFacts, PopIndices DEF Top
<1>5. Closes(frames[1]) /\ Closes(frames[n - 1]) /\ ~Closes(frames[n])
  BY <1>1, <1>4, Zenon DEF Closes, Closers
<1>6. DepthOf(frames[1]) \in 1 .. d /\ DepthOf(frames[n - 1]) \in 1 .. d
  <2>1. 1 \in 1 .. n /\ n - 1 \in 1 .. n
    BY <1>9
  <2> QED BY <2>1, <1>3, <1>5 DEF Scoped
<1>7. ASSUME n > 2
      PROVE  d >= 2
  <2>1. 1 \in 1 .. n /\ n - 1 \in 1 .. n /\ 1 < n - 1
    BY <1>7
  <2>2. DepthOf(frames[n - 1]) < DepthOf(frames[1])
    BY <2>1, <1>3, <1>5 DEF Scoped
  <2> QED BY <2>2, <1>6
<1>8. ASSUME n = 2
      PROVE  d = 1
  <2>1. n - 1 = 1
    BY <1>8
  <2>2. \A i \in 1 .. n : Closes(frames[i]) => i = 1
    <3>1. \A i \in 1 .. n : i = 1 \/ i = n
      BY <1>8
    <3> QED BY <3>1, <1>5
  <2>3. DepthOf(frames[1]) = d
    <3>1. d \in 1 .. d
      BY <1>6
    <3> QED BY <3>1, <2>2, <1>3 DEF Closed
  <2>4. DepthOf(frames[1]) = 1
    <3>1. 1 \in 1 .. d
      BY <1>6
    <3> QED BY <3>1, <2>2, <1>3 DEF Closed
  <2> QED BY <2>3, <2>4
<1> QED BY <1>7, <1>8

LEMMA Pushed ==
  ASSUME NEW S, NEW fs \in Seq(S), InSequence(fs)
  PROVE  /\ \A f : InSequence(<<f>> \o fs)
         /\ \A f, g : InSequence(<<f, g>> \o fs)
         /\ \A f, g, h : InSequence(<<f, g, h>> \o fs)
<1>1. ASSUME NEW f
      PROVE  InSequence(<<f>> \o fs)
  <2>1. <<f>> \in Seq({f})
    OBVIOUS
  <2> QED BY <2>1, AboveSequence
<1>2. ASSUME NEW f, NEW g
      PROVE  InSequence(<<f, g>> \o fs)
  <2>1. <<f, g>> \in Seq({f, g})
    OBVIOUS
  <2> QED BY <2>1, AboveSequence
<1>3. ASSUME NEW f, NEW g, NEW h
      PROVE  InSequence(<<f, g, h>> \o fs)
  <2>1. <<f, g, h>> \in Seq({f, g, h})
    OBVIOUS
  <2> QED BY <2>1, AboveSequence
<1> QED BY <1>1, <1>2, <1>3

LEMMA WithinTop ==
  ASSUME Inv, Within
  PROVE  /\ frames # <<>> /\ frames \in Seq(Fitting) /\ InSequence(frames)
         /\ Rest \in Seq(Fitting)
         /\ Top.call # "end sequence" => InSequence(Rest)
<1>1. frames \in Seq(Fitting) /\ InSequence(frames)
  BY StackFacts DEF Within
<1>2. PICK n \in Nat : Len(frames) = n
  BY <1>1, LenProperties
<1>3. /\ frames # <<>> /\ (n > 2 \/ n = 2)
      /\ n > 2 => InSequence(Rest)
      /\ n = 2 => Top.call = "end sequence"
  BY <1>1, <1>2, BelowTop DEF Rest, Top
<1> QED BY <1>1, <1>3, TopFacts

\* A step in the outermost sequence that opens and closes no scope.
LEMMA WithinStays ==
  ASSUME Within, input' = input, seq_pos' = seq_pos, InSequence(frames'),
         status' \in {"running", "throwing", "misaligned"}
  PROVE  Doomed'
BY DEF Within, Doomed, EndsLate, InSequence

LEMMA WithinReads ==
  ASSUME Inv, Within, ReadPrimitive \/ ReadTrailing \/ ReadChoice
  PROVE  Doomed'
<1>1. /\ Top.call = "read" /\ status = "running"
      /\ input' = input /\ seq_pos' = seq_pos
  BY DEF ReadPrimitive, ReadTrailing, ReadChoice, Reading, running
<1>2. InSequence(Rest) /\ Rest \in Seq(Fitting)
  BY <1>1, WithinTop
<1>3. \A f, g : InSequence(<<f, g>> \o Rest)
  BY <1>2, Pushed
<1>4. status' \in {"running", "throwing", "misaligned"} /\ InSequence(frames')
  <2>1. CASE ReadPrimitive
    BY <2>1, <1>1, <1>2 DEF ReadPrimitive, HeaderFails, Throw
  <2>2. CASE ReadTrailing
    BY <2>2, <1>1, <1>2 DEF ReadTrailing, Throw
  <2>3. CASE ReadChoice
    BY <2>3, <1>1, <1>2, <1>3 DEF ReadChoice
  <2> QED BY <2>1, <2>2, <2>3
<1> QED BY <1>1, <1>4, WithinStays

LEMMA WithinRestacks ==
  ASSUME Inv, Within,
         \/ ReadObject \/ ReadImplicit \/ ReadExplicit \/ ReadOptional
         \/ ReadExplicitOptional \/ NextField \/ NextElement
  PROVE  Doomed'
<1>1. /\ Top.call # "end sequence" /\ status' = "running"
      /\ input' = input /\ seq_pos' = seq_pos
  BY DEF ReadObject, ReadImplicit, ReadExplicit, ReadOptional, ReadExplicitOptional,
         NextField, NextElement, Reading, running
<1>2. /\ InSequence(Rest) /\ Rest \in Seq(Fitting)
      /\ InSequence(frames) /\ frames \in Seq(Fitting)
  BY <1>1, WithinTop
<1>3. /\ \A f : InSequence(<<f>> \o Rest)
      /\ \A f, g : InSequence(<<f, g>> \o Rest) /\ InSequence(<<f, g>> \o frames)
      /\ \A f, g, h : InSequence(<<f, g, h>> \o Rest)
  BY <1>2, Pushed
<1>4. InSequence(frames')
  <2>1. CASE ReadObject
    BY <2>1, <1>3 DEF ReadObject
  <2>2. CASE ReadImplicit
    BY <2>2, <1>3 DEF ReadImplicit
  <2>3. CASE ReadExplicit
    BY <2>3, <1>3 DEF ReadExplicit
  <2>4. CASE ReadOptional
    BY <2>4, <1>3 DEF ReadOptional
  <2>5. CASE ReadExplicitOptional
    BY <2>5, <1>3 DEF ReadExplicitOptional
  <2>6. CASE NextField
    <3>1. CASE Top.types = <<>>
      <4>1. frames' = <<>> \o Rest
        BY <2>6, <3>1 DEF NextField
      <4>2. <<>> \o Rest = Rest
        BY <1>2
      <4> QED BY <4>1, <4>2, <1>2
    <3>2. CASE Top.types # <<>>
      BY <2>6, <3>2, <1>3 DEF NextField
    <3> QED BY <3>1, <3>2
  <2>7. CASE NextElement
    BY <2>7, <1>2, <1>3 DEF NextElement
  <2> QED BY <2>1, <2>2, <2>3, <2>4, <2>5, <2>6, <2>7
<1> QED BY <1>1, <1>4, WithinStays

LEMMA WithinPasses ==
  ASSUME Inv, Within, Ampersand \/ KeepOptional \/ CatchOptional \/ Unwind
  PROVE  Doomed'
<1>1. /\ Top.call # "end sequence" /\ status' \in {"running", "throwing"}
      /\ input' = input /\ seq_pos' = seq_pos /\ frames' = Rest
  BY DEF Ampersand, KeepOptional, CatchOptional, Unwind, running
<1>2. InSequence(Rest)
  BY <1>1, WithinTop
<1> QED BY <1>1, <1>2, WithinStays

\* The scopes opened in the outermost one leave it the last to be closed.
LEMMA WithinOpens ==
  ASSUME Inv, Within, NEW t, NEW inside, OpenScope(t, inside), input' = input,
         status = "running", InSequence(Rest), InSequence(inside \o Rest)
  PROVE  Doomed'
<1>1. seq_pos \in Seq(Ends) /\ EndsLate(seq_pos)
  BY StackFacts DEF Within
<1>2. CASE \E e : /\ seq_pos' = <<e>> \o seq_pos
                  /\ frames' = inside \o Rest /\ status' = status
  <2>1. PICK e : /\ seq_pos' = <<e>> \o seq_pos
                 /\ frames' = inside \o Rest /\ status' = status
    BY <1>2
  <2>2. PICK n \in Nat : Len(seq_pos) = n
    BY <1>1, LenProperties
  <2>3. EndsLate(<<e>> \o seq_pos)
    BY <1>1, <2>2, OutermostStays
  <2>4. EndsLate(seq_pos)'
    BY <2>1, <2>3 DEF EndsLate
  <2>5. InSequence(frames)' /\ status' = "running"
    BY <2>1 DEF InSequence
  <2> QED BY <2>4, <2>5 DEF Doomed, Within
<1>3. CASE /\ seq_pos' = seq_pos /\ frames' = Rest
           /\ status' \in {"throwing", "misaligned"}
  BY <1>3, WithinStays
<1> QED BY <1>2, <1>3 DEF OpenScope, HeaderFails, Throw

LEMMA WithinEnters ==
  ASSUME Inv, Within, ReadSequence \/ ReadContainer \/ OpenExplicit
  PROVE  Doomed'
<1>1. Top.call # "end sequence" /\ status = "running" /\ input' = input
  BY DEF ReadSequence, ReadContainer, OpenExplicit, Reading, running
<1>2. InSequence(Rest) /\ Rest \in Seq(Fitting)
  BY <1>1, WithinTop
<1>3. /\ \A f, g : InSequence(<<f, g>> \o Rest)
      /\ \A f, g, h : InSequence(<<f, g, h>> \o Rest)
  BY <1>2, Pushed
<1>4. CASE ReadSequence
  BY <1>1, <1>2, <1>3, <1>4, WithinOpens DEF ReadSequence
<1>5. CASE ReadContainer
  BY <1>1, <1>2, <1>3, <1>5, WithinOpens DEF ReadContainer
<1>6. CASE OpenExplicit
  BY <1>1, <1>2, <1>3, <1>6, WithinOpens DEF OpenExplicit
<1> QED BY <1>4, <1>5, <1>6

\* Closing a scope within the outermost one leaves it open; closing it itself
\* keeps the exception.
LEMMA WithinCloses ==
  ASSUME Inv, leaked = 0, Within, CloseSequence \/ CloseExplicit
  PROVE  Doomed'
<1>1. /\ frames # <<>> /\ Closes(Top) /\ frames' = Rest /\ input' = input
      /\ seq_pos # <<>> /\ seq_pos' = Tail(seq_pos)
      /\ status' \in {"running", "throwing"}
  BY DEF CloseSequence, CloseExplicit, Pop, Closes, Closers, running
<1>2. /\ frames \in Seq(Fitting) /\ InSequence(frames)
      /\ seq_pos \in Seq(Ends) /\ EndsLate(seq_pos)
  BY StackFacts DEF Within
<1>3. PICK n \in Nat : Len(frames) = n
  BY <1>2, LenProperties
<1>4. PICK d \in Nat : Len(seq_pos) = d
  BY <1>2, LenProperties
<1>5. (n > 2 => d >= 2) /\ (n = 2 => d = 1)
  BY <1>1, <1>2, <1>3, <1>4, OpenWithin
<1>6. CASE n > 2
  <2>1. InSequence(Tail(frames)) /\ EndsLate(Tail(seq_pos))
    BY <1>2, <1>3, <1>4, <1>5, <1>6, BelowTop, OutermostStays
  <2>2. InSequence(frames)' /\ EndsLate(seq_pos)'
    BY <1>1, <2>1 DEF InSequence, EndsLate, Rest
  <2> QED BY <1>1, <2>2 DEF Doomed, Within
<1>7. CASE n = 2
  <2>1. Top.call = "end sequence" /\ Len(Rest) = 1 /\ Rest[1].call = "amp"
    BY <1>2, <1>3, <1>7, BelowTop DEF Top, Rest
  <2>2. CloseSequence
    BY <2>1 DEF CloseExplicit
  <2>3. Head(seq_pos) > Len(input.message)
    BY <1>2, <1>4, <1>5, <1>7, OutermostStays
  <2>4. PopFails
    <3>1. Head(seq_pos) \in Ends
      BY <1>1, <1>2, PopIndices
    <3>2. Head(seq_pos) \in Nat
      BY <3>1 DEF Ends
    <3> QED BY <2>3, <3>2, StreamFacts, MessageFacts DEF PopFails
  <2>5. ex' = TRUE
    BY <2>2, <2>4, Zenon DEF CloseSequence
  <2> QED BY <1>1, <2>1, <2>5 DEF Doomed, Noticed
<1>8. n > 2 \/ n = 2
  BY <1>2, <1>3, BelowTop
<1> QED BY <1>6, <1>7, <1>8

-----------------------------------------------------------------------------

LEMMA Outermost ==
  ASSUME NEW f, NEW e, NEW g
  PROVE  /\ <<f, e>> \o <<g>> \in Seq({f, e, g})
         /\ Len(<<f, e>> \o <<g>>) = 3
         /\ (<<f, e>> \o <<g>>)[2] = e
         /\ (<<f, e>> \o <<g>>)[3] = g
<1>1. <<f, e>> \in Seq({f, e, g}) /\ <<g>> \in Seq({f, e, g})
  OBVIOUS
<1> QED BY <1>1, ConcatProperties

\* The header of the outermost value is read.
LEMMA UntouchedStep ==
  ASSUME Inv, CutShort, Untouched, Step
  PROVE  Doomed'
<1>1. /\ frames = <<Read(input.type), Amp>> /\ seq_pos = <<>> /\ cursor = 0
      /\ status = "running" /\ Overruns(input.message)
  BY DEF Untouched, CutShort
<1>2. frames # <<>> /\ Top = Read(input.type) /\ Rest = <<Amp>>
  BY <1>1 DEF Top, Rest
<1>3. Top.call = "read" /\ Top.type.kind \in {"sequence", "container"}
  BY <1>2 DEF Read, CutShort
<1>4. ReadSequence \/ ReadContainer
  BY <1>1, <1>2, <1>3
     DEF Step, ReadPrimitive, ReadObject, ReadImplicit, ReadExplicit, ReadOptional,
         ReadExplicitOptional, OpenExplicit, ReadTrailing, ReadChoice, NextField,
         NextElement, Ampersand, CloseSequence, CloseExplicit, KeepOptional,
         CatchOptional, Unwind, Return, Reading, running
<1>5. PICK t, f, e : OpenScope(t, <<f, e>>) /\ e.call = "end sequence" /\ input' = input
  <2>1. EndSequence(Depth).call = "end sequence"
    BY DEF EndSequence
  <2>2. CASE ReadSequence
    <3>1. /\ OpenScope(TagOr(Top.type.tag), <<Fields(Top.type.fields), EndSequence(Depth)>>)
          /\ input' = input
      BY <2>2 DEF ReadSequence
    <3> QED BY <2>1, <3>1
  <2>3. CASE ReadContainer
    <3>1. /\ OpenScope(TagOr(SequenceTag), <<Loop(Top.type.of), EndSequence(Depth)>>)
          /\ input' = input
      BY <2>3 DEF ReadContainer
    <3> QED BY <2>1, <3>1
  <2> QED BY <1>4, <2>2, <2>3
<1>6. CASE /\ seq_pos' = <<cursor + 1 + Cell.len>> \o seq_pos
           /\ frames' = <<f, e>> \o Rest /\ status' = status
  <2>1. /\ Cell = input.message[1]
        /\ 1 + Cell.len > Len(input.message)
    BY <1>1 DEF Cell, Overruns
  <2>2. seq_pos' = <<0 + 1 + Cell.len>> \o <<>>
    BY <1>1, <1>6
  <2> DEFINE p == 0 + 1 + Cell.len
  <2>3. p = 1 + Cell.len
    OBVIOUS
  <2>4. seq_pos' = <<p>> \o <<>>
    BY <2>2
  <2> HIDE DEF p
  <2>5. seq_pos' = <<p>>
    BY <2>4
  <2>6. EndsLate(seq_pos)'
    BY <2>1, <2>3, <2>5, <1>5 DEF EndsLate
  <2>7. frames' = <<f, e>> \o <<Amp>> /\ Amp.call = "amp"
    BY <1>2, <1>6 DEF Amp
  <2>8. InSequence(frames)'
    <3>1. /\ frames' \in Seq({f, e, Amp}) /\ Len(frames') = 3
          /\ frames'[2] = e /\ frames'[3] = Amp
      BY <2>7, Outermost
    <3>2. frames'[3].call = "amp" /\ frames'[2].call = "end sequence"
      BY <3>1, <2>7, <1>5
    <3>3. 3 \in Nat /\ 3 >= 2 /\ 3 - 1 = 2
      OBVIOUS
    <3>4. InSequence(frames')
      BY <3>1, <3>2, <3>3, InSequenceParts
    <3> QED BY <3>4 DEF InSequence
  <2> QED BY <2>6, <2>8, <1>1, <1>6 DEF Doomed, Within
<1>7. CASE frames' = Rest /\ status' \in {"throwing", "misaligned"}
  <2>1. Len(frames') = 1 /\ frames'[1].call = "amp"
    BY <1>2, <1>7 DEF Amp
  <2> QED BY <2>1, <1>7 DEF Doomed, Noticed
<1> QED BY <1>5, <1>6, <1>7 DEF OpenScope, HeaderFails, Throw

LEMMA WithinStep ==
  ASSUME Inv, leaked = 0, Within, Step
  PROVE  Doomed'
<1>1. ~Return
  BY WithinTop DEF Return
<1> QED BY <1>1, WithinReads, WithinRestacks, WithinPasses, WithinEnters, WithinCloses DEF Step

\* operator& throws what the destructor has kept.
LEMMA NoticedStep ==
  ASSUME Inv, Noticed, Step
  PROVE  Doomed'
<1>1. Len(frames) = 1 /\ frames \in Seq(Fitting)
  BY StackFacts DEF Noticed
<1>2. frames # <<>>
  BY <1>1
<1>3. Top.call = "amp" /\ Rest = <<>>
  <2>1. Top = frames[1] /\ Rest \in Seq(Fitting) /\ Len(Rest) = 0
    BY <1>1, <1>2, PopIndices DEF Top, Rest
  <2>2. Rest = <<>>
    BY <2>1
  <2> QED BY <2>1, <2>2 DEF Noticed
<1>4. Ampersand \/ Unwind
  BY <1>2, <1>3
     DEF Step, ReadPrimitive, ReadSequence, ReadContainer, ReadObject, ReadImplicit,
         ReadExplicit, ReadOptional, ReadExplicitOptional, OpenExplicit, ReadTrailing,
         ReadChoice, NextField, NextElement, CloseSequence, CloseExplicit, KeepOptional,
         CatchOptional, Return, Reading, running
<1>5. frames' = <<>> /\ status' = "throwing"
  BY <1>3, <1>4 DEF Ampersand, Unwind, Noticed, running
<1> QED BY <1>5 DEF Doomed, Thrown

LEMMA ThrownStep ==
  ASSUME Thrown, Step
  PROVE  Doomed'
<1>1. Return
  BY DEF Thrown, Step, ReadPrimitive, ReadSequence, ReadContainer, ReadObject,
         ReadImplicit, ReadExplicit, ReadOptional, ReadExplicitOptional, OpenExplicit,
         ReadTrailing, ReadChoice, NextField, NextElement, Ampersand, CloseSequence,
         CloseExplicit, KeepOptional, CatchOptional, Unwind, Reading, running
<1> QED BY <1>1 DEF Return, Thrown, Doomed

LEMMA LateStays ==
  ASSUME Inv, Late, [Next]_vars
  PROVE  Late'
<1>1. CASE UNCHANGED vars
  BY <1>1 DEF vars, Late, CutShort, Doomed, Untouched, Within, InSequence, EndsLate, Noticed,
              Thrown
<1>2. CASE Step
  <2> SUFFICES ASSUME CutShort', leaked' = 0
               PROVE  Doomed'
    BY DEF Late
  <2>1. input' = input /\ (leaked' = leaked \/ leaked' = leaked + 1) /\ status # "misaligned"
    BY <1>2 DEF Step, ReadPrimitive, ReadSequence, ReadContainer, ReadObject, ReadImplicit,
         ReadExplicit, ReadOptional, ReadExplicitOptional, OpenExplicit, ReadTrailing,
         ReadChoice, NextField, NextElement, Ampersand, CloseSequence, CloseExplicit,
         KeepOptional, CatchOptional, Unwind, Return, Reading, running
  <2>2. leaked = 0
    BY <2>1, StackFacts
  <2>3. CutShort
    BY <2>1 DEF CutShort
  <2> QED BY <1>2, <2>1, <2>2, <2>3, UntouchedStep, WithinStep, NoticedStep, ThrownStep
          DEF Late, Doomed
<1> QED BY <1>1, <1>2 DEF Next, Stopped

\* However much of a sequence is missing at its end, whatever is in it and
\* whatever it is read as, the caller learns of it: its destructor keeps what
\* pop throws even when all that is missing is optional, and operator& throws
\* it on (deserialiser.hpp:108-114, asn_der_decoder.hpp:178-184).  No scope may
\* have been left behind: the destructor would close that one in its place.
THEOREM OverrunIsReported == Spec => []OverrunReported
<1>1. Init => Inv /\ Late
  BY InitInv DEF Init, Late, Doomed, Untouched
<1>2. Inv /\ Late /\ [Next]_vars => (Inv /\ Late)'
  BY NextInv, LateStays
<1>3. Inv /\ Late => OverrunReported
  BY DEF Late, Doomed, Untouched, Within, Noticed, Thrown, CutShort, OverrunReported
<1> QED BY <1>1, <1>2, <1>3, PTL DEF Spec

-----------------------------------------------------------------------------

\* The calls above a guard are to close the scopes opened since it was built,
\* those below it the ones that were open before.
Guarded(fs, n) ==
  \A i \in 1 .. Len(fs) :
    IsGuard(fs[i]) =>
      /\ DepthOf(fs[i]) <= n
      /\ \A j \in 1 .. Len(fs) : Closes(fs[j]) => (j < i <=> DepthOf(fs[j]) > DepthOf(fs[i]))

Plain(f) == ~Closes(f) /\ ~IsGuard(f)

\* Where no scope has been left behind.
Kept == leaked = 0 => Guarded(frames, Len(seq_pos))

LEMMA PlainFrames ==
  /\ \A T : Plain(Read(T)) /\ Plain(Loop(T))
  /\ \A ts : Plain(Fields(ts))
  /\ \A n, T : Plain(StartExplicit(n, T))
  /\ Plain(Amp)
BY DEF Plain, Read, Loop, Fields, StartExplicit, Amp, Closes, Closers, IsGuard

LEMMA DepthNat ==
  ASSUME NEW f \in Fitting, Closes(f) \/ IsGuard(f)
  PROVE  DepthOf(f) \in Nat
BY DEF Fitting, Frames, Closes, Closers, IsGuard, DepthOf

LEMMA GuardedPlain ==
  ASSUME NEW S, NEW fs \in Seq(S), NEW n, Guarded(fs, n), NEW f, Plain(f)
  PROVE  Guarded(<<f>> \o fs, n)
<1> DEFINE gs == <<f>> \o fs
           R == S \cup {f}
<1>1. fs \in Seq(R) /\ f \in R
  BY SeqWider
<1> HIDE DEF R
<1>2. PICK m \in Nat : Len(fs) = m
  BY LenProperties
<1>3. /\ Len(gs) = m + 1 /\ gs[1] = f
      /\ \A i \in 1 .. m + 1 : i # 1 => i - 1 \in 1 .. m /\ gs[i] = fs[i - 1]
  BY <1>1, <1>2, PushIndices
<1> HIDE DEF gs
<1> SUFFICES ASSUME NEW i \in 1 .. m + 1, IsGuard(gs[i])
             PROVE  /\ DepthOf(gs[i]) <= n
                    /\ \A j \in 1 .. m + 1 :
                         Closes(gs[j]) => (j < i <=> DepthOf(gs[j]) > DepthOf(gs[i]))
  BY <1>3 DEF Guarded, gs
<1>4. i # 1 /\ i - 1 \in 1 .. m /\ gs[i] = fs[i - 1]
  BY <1>3 DEF Plain
<1>5. DepthOf(gs[i]) <= n
  BY <1>2, <1>4 DEF Guarded
<1>6. ASSUME NEW j \in 1 .. m + 1, Closes(gs[j])
      PROVE  j < i <=> DepthOf(gs[j]) > DepthOf(gs[i])
  <2>1. j # 1 /\ j - 1 \in 1 .. m /\ gs[j] = fs[j - 1]
    BY <1>3, <1>6 DEF Plain
  <2>2. j - 1 < i - 1 <=> DepthOf(gs[j]) > DepthOf(gs[i])
    BY <1>2, <1>4, <1>6, <2>1 DEF Guarded
  <2>3. j < i <=> j - 1 < i - 1
    OBVIOUS
  <2> QED BY <2>2, <2>3
<1> QED BY <1>5, <1>6

\* The guard is built where all scopes open are closed by calls below it.
LEMMA GuardedGuard ==
  ASSUME NEW fs \in Seq(Fitting), NEW n \in Nat, Scoped(fs, n), Guarded(fs, n),
         NEW f, IsGuard(f), ~Closes(f), DepthOf(f) = n
  PROVE  Guarded(<<f>> \o fs, n)
<1> DEFINE gs == <<f>> \o fs
           R == Fitting \cup {f}
<1>1. fs \in Seq(R) /\ f \in R
  BY SeqWider
<1> HIDE DEF R
<1>2. PICK m \in Nat : Len(fs) = m
  BY LenProperties
<1>3. /\ Len(gs) = m + 1 /\ gs[1] = f
      /\ \A i \in 1 .. m + 1 : i # 1 => i - 1 \in 1 .. m /\ gs[i] = fs[i - 1]
  BY <1>1, <1>2, PushIndices
<1> HIDE DEF gs
<1> SUFFICES ASSUME NEW i \in 1 .. m + 1, IsGuard(gs[i])
             PROVE  /\ DepthOf(gs[i]) <= n
                    /\ \A j \in 1 .. m + 1 :
                         Closes(gs[j]) => (j < i <=> DepthOf(gs[j]) > DepthOf(gs[i]))
  BY <1>3 DEF Guarded, gs
<1>4. ASSUME NEW j \in 1 .. m + 1, Closes(gs[j])
      PROVE  j # 1 /\ j - 1 \in 1 .. m /\ gs[j] = fs[j - 1] /\ DepthOf(gs[j]) \in 1 .. n
  <2>1. j # 1 /\ j - 1 \in 1 .. m /\ gs[j] = fs[j - 1]
    BY <1>3, <1>4
  <2> QED BY <2>1, <1>2, <1>4 DEF Scoped
<1>5. CASE i = 1
  <2>1. DepthOf(gs[i]) = n
    BY <1>3, <1>5
  <2>2. ASSUME NEW j \in 1 .. m + 1, Closes(gs[j])
        PROVE  j < i <=> DepthOf(gs[j]) > DepthOf(gs[i])
    <3>1. ~(j < i)
      BY <1>5
    <3>2. DepthOf(gs[j]) \in 1 .. n
      BY <1>4, <2>2
    <3> QED BY <3>1, <3>2, <2>1
  <2> QED BY <2>1, <2>2
<1>6. CASE i # 1
  <2>1. i - 1 \in 1 .. m /\ gs[i] = fs[i - 1]
    BY <1>3, <1>6
  <2>2. DepthOf(gs[i]) <= n
    BY <1>2, <2>1 DEF Guarded
  <2>3. ASSUME NEW j \in 1 .. m + 1, Closes(gs[j])
        PROVE  j < i <=> DepthOf(gs[j]) > DepthOf(gs[i])
    <3>1. j - 1 \in 1 .. m /\ gs[j] = fs[j - 1]
      BY <1>4, <2>3
    <3>2. j - 1 < i - 1 <=> DepthOf(gs[j]) > DepthOf(gs[i])
      BY <1>2, <2>1, <2>3, <3>1 DEF Guarded
    <3>3. j < i <=> j - 1 < i - 1
      OBVIOUS
    <3> QED BY <3>2, <3>3
  <2> QED BY <2>2, <2>3
<1> QED BY <1>5, <1>6

LEMMA GuardedCloser ==
  ASSUME NEW fs \in Seq(Fitting), NEW n \in Nat, Guarded(fs, n),
         NEW f, ~IsGuard(f), Closes(f), DepthOf(f) = n + 1
  PROVE  Guarded(<<f>> \o fs, n + 1)
<1> DEFINE gs == <<f>> \o fs
           R == Fitting \cup {f}
<1>1. fs \in Seq(R) /\ f \in R
  BY SeqWider
<1> HIDE DEF R
<1>2. PICK m \in Nat : Len(fs) = m
  BY LenProperties
<1>3. /\ Len(gs) = m + 1 /\ gs[1] = f
      /\ \A i \in 1 .. m + 1 : i # 1 => i - 1 \in 1 .. m /\ gs[i] = fs[i - 1]
  BY <1>1, <1>2, PushIndices
<1> HIDE DEF gs
<1> SUFFICES ASSUME NEW i \in 1 .. m + 1, IsGuard(gs[i])
             PROVE  /\ DepthOf(gs[i]) <= n + 1
                    /\ \A j \in 1 .. m + 1 :
                         Closes(gs[j]) => (j < i <=> DepthOf(gs[j]) > DepthOf(gs[i]))
  BY <1>3 DEF Guarded, gs
<1>4. i # 1 /\ i - 1 \in 1 .. m /\ gs[i] = fs[i - 1]
  BY <1>3
<1>5. DepthOf(gs[i]) <= n /\ DepthOf(gs[i]) \in Nat
  <2>1. fs[i - 1] \in Fitting
    BY <1>2, <1>4, ElementOfSeq
  <2> QED BY <2>1, <1>2, <1>4, DepthNat DEF Guarded
<1>6. ASSUME NEW j \in 1 .. m + 1, Closes(gs[j])
      PROVE  j < i <=> DepthOf(gs[j]) > DepthOf(gs[i])
  <2>1. CASE j = 1
    <3>1. j < i
      BY <2>1, <1>4
    <3>2. DepthOf(gs[j]) = n + 1
      BY <2>1, <1>3
    <3> QED BY <3>1, <3>2, <1>5
  <2>2. CASE j # 1
    <3>1. j - 1 \in 1 .. m /\ gs[j] = fs[j - 1]
      BY <1>3, <2>2
    <3>2. j - 1 < i - 1 <=> DepthOf(gs[j]) > DepthOf(gs[i])
      BY <1>2, <1>4, <1>6, <3>1 DEF Guarded
    <3>3. j < i <=> j - 1 < i - 1
      OBVIOUS
    <3> QED BY <3>2, <3>3
  <2> QED BY <2>1, <2>2
<1> QED BY <1>5, <1>6

\* The call on top that closes a scope closes the innermost.
LEMMA TopDepth ==
  ASSUME NEW fs \in Seq(Fitting), NEW n \in Nat, Stack(Fitting, fs, n), fs # <<>>,
         Closes(Head(fs))
  PROVE  DepthOf(fs[1]) = n /\ n >= 1
<1>1. PICK m \in Nat : Len(fs) = m
  BY LenProperties
<1>2. m >= 1 /\ Head(fs) = fs[1]
  BY <1>1, PopIndices
<1>3. 1 \in 1 .. m
  BY <1>2
<1>4. DepthOf(fs[1]) \in 1 .. n
  BY <1>1, <1>2, <1>3 DEF Stack, Scoped
<1>5. PICK j \in 1 .. m : Closes(fs[j]) /\ DepthOf(fs[j]) = n
  <2>1. n \in 1 .. n
    BY <1>4
  <2> QED BY <2>1, <1>1 DEF Stack, Closed
<1>6. CASE j = 1
  BY <1>4, <1>5, <1>6
<1>7. CASE j # 1
  <2>1. 1 < j
    BY <1>7
  <2>2. DepthOf(fs[j]) < DepthOf(fs[1])
    BY <2>1, <1>1, <1>2, <1>3, <1>5 DEF Stack, Scoped
  <2> QED BY <2>2, <1>4, <1>5
<1> QED BY <1>6, <1>7

LEMMA GuardedPop ==
  ASSUME NEW fs \in Seq(Fitting), NEW n \in Nat, Stack(Fitting, fs, n), Guarded(fs, n),
         fs # <<>>
  PROVE  /\ Guarded(Tail(fs), n)
         /\ Closes(Head(fs)) => Guarded(Tail(fs), n - 1)
<1> DEFINE gs == Tail(fs)
<1>1. PICK m \in Nat : Len(fs) = m
  BY LenProperties
<1>2. /\ m >= 1 /\ Head(fs) = fs[1] /\ Len(gs) = m - 1
      /\ \A i \in 1 .. m - 1 : gs[i] = fs[i + 1]
  BY <1>1, PopIndices
<1> HIDE DEF gs
<1>3. ASSUME NEW i \in 1 .. m - 1, IsGuard(gs[i])
      PROVE  /\ DepthOf(gs[i]) <= n
             /\ Closes(Head(fs)) => DepthOf(gs[i]) <= n - 1
             /\ \A j \in 1 .. m - 1 :
                  Closes(gs[j]) => (j < i <=> DepthOf(gs[j]) > DepthOf(gs[i]))
  <2>1. i + 1 \in 1 .. m /\ gs[i] = fs[i + 1] /\ 1 \in 1 .. m /\ 1 < i + 1
    BY <1>2
  <2>2. DepthOf(gs[i]) <= n
    BY <2>1, <1>1, <1>3 DEF Guarded
  <2>3. ASSUME Closes(Head(fs))
        PROVE  DepthOf(gs[i]) <= n - 1
    <3>1. DepthOf(fs[1]) = n
      BY <2>3, TopDepth
    <3>2. DepthOf(fs[1]) > DepthOf(gs[i])
      BY <2>1, <2>3, <1>1, <1>2, <1>3 DEF Guarded
    <3>3. DepthOf(gs[i]) \in Nat
      <4>1. gs[i] \in Fitting
        BY <2>1, <1>1, ElementOfSeq
      <4> QED BY <4>1, <1>3, DepthNat
    <3> QED BY <3>1, <3>2, <3>3
  <2>4. ASSUME NEW j \in 1 .. m - 1, Closes(gs[j])
        PROVE  j < i <=> DepthOf(gs[j]) > DepthOf(gs[i])
    <3>1. j + 1 \in 1 .. m /\ gs[j] = fs[j + 1]
      BY <1>2
    <3>2. j + 1 < i + 1 <=> DepthOf(gs[j]) > DepthOf(gs[i])
      BY <2>1, <2>4, <3>1, <1>1, <1>3 DEF Guarded
    <3>3. j < i <=> j + 1 < i + 1
      OBVIOUS
    <3> QED BY <3>2, <3>3
  <2> QED BY <2>2, <2>3, <2>4
<1>4. Guarded(gs, n) /\ (Closes(Head(fs)) => Guarded(gs, n - 1))
  BY <1>2, <1>3 DEF Guarded
<1> QED BY <1>4 DEF gs

LEMMA GuardedOver ==
  ASSUME NEW S, NEW fs \in Seq(S), NEW n, NEW h, Guarded(<<h>> \o fs, n)
  PROVE  /\ \A f : Plain(f) => Guarded(<<f, h>> \o fs, n)
         /\ \A f, g : Plain(f) /\ Plain(g) => Guarded(<<f, g, h>> \o fs, n)
<1>1. ASSUME NEW f, Plain(f)
      PROVE  Guarded(<<f, h>> \o fs, n)
  <2> DEFINE R == S \cup {f, h}
  <2>1. fs \in Seq(R) /\ f \in R /\ h \in R
    BY SeqWider
  <2> HIDE DEF R
  <2>2. <<h>> \o fs \in Seq(R) /\ <<f, h>> \o fs = <<f>> \o (<<h>> \o fs)
    BY <2>1, TwoFrames
  <2> QED BY <2>2, <1>1, GuardedPlain
<1>2. ASSUME NEW f, NEW g, Plain(f), Plain(g)
      PROVE  Guarded(<<f, g, h>> \o fs, n)
  <2> DEFINE R == S \cup {f, g, h}
  <2>1. fs \in Seq(R) /\ f \in R /\ g \in R /\ h \in R
    BY SeqWider
  <2> HIDE DEF R
  <2>2. <<g, h>> \o fs \in Seq(R)
    BY <2>1, ThreeFrames
  <2>4. <<f, g, h>> \o fs = <<f>> \o (<<g, h>> \o fs)
    <3>1. <<f>> \in Seq(R) /\ <<g, h>> \in Seq(R)
      BY <2>1
    <3>2. <<f, g, h>> = <<f>> \o <<g, h>>
      BY <2>1
    <3> QED BY <2>1, <3>1, <3>2, ConcatAssociative
  <2>3. Guarded(<<g, h>> \o fs, n)
    BY <1>1, <1>2
  <2> QED BY <2>2, <2>3, <2>4, <1>2, GuardedPlain
<1> QED BY <1>1, <1>2

LEMMA GuardedFrames ==
  ASSUME NEW S, NEW fs \in Seq(S), NEW n, Guarded(fs, n)
  PROVE  /\ \A f : Plain(f) => Guarded(<<f>> \o fs, n)
         /\ \A f, g : Plain(f) /\ Plain(g) => Guarded(<<f, g>> \o fs, n)
         /\ \A f, g, h : Plain(f) /\ Plain(g) /\ Plain(h) => Guarded(<<f, g, h>> \o fs, n)
<1>1. \A f : Plain(f) => Guarded(<<f>> \o fs, n)
  BY GuardedPlain
<1> QED BY <1>1, GuardedOver

\* What a step finds where no scope has been left behind.
LEMMA KeptFacts ==
  ASSUME Inv, Kept, leaked = 0
  PROVE  /\ Len(seq_pos) \in Nat /\ Due = Len(seq_pos)
         /\ Stack(Fitting, frames, Len(seq_pos)) /\ frames \in Seq(Fitting)
         /\ Guarded(frames, Len(seq_pos))
         /\ frames # <<>> => /\ Rest \in Seq(Fitting)
                             /\ Guarded(Rest, Len(seq_pos))
                             /\ Closes(Top) => Guarded(Rest, Len(seq_pos) - 1)
<1>1. /\ Len(seq_pos) \in Nat /\ Due = Len(seq_pos)
      /\ Stack(Fitting, frames, Len(seq_pos)) /\ frames \in Seq(Fitting)
  BY StackFacts
<1>2. Guarded(frames, Len(seq_pos))
  BY DEF Kept
<1> QED BY <1>1, <1>2, TopFacts, GuardedPop DEF Rest, Top

LEMMA GuardKept ==
  ASSUME Inv, Kept, leaked = 0, frames # <<>>, ~Closes(Top), status = "running"
  PROVE  Guarded(<<Guard>> \o Rest, Len(seq_pos))
<1>1. IsGuard(Guard) /\ ~Closes(Guard) /\ DepthOf(Guard) = Len(seq_pos)
  BY DEF Guard, EndOptional, IsGuard, Closes, Closers, DepthOf
<1>2. Scoped(Rest, Len(seq_pos))
  BY KeptFacts, TopFacts DEF Stack
<1> QED BY <1>1, <1>2, KeptFacts, GuardedGuard

\* Opening a scope within optionals.
LEMMA OpenKept ==
  ASSUME Inv, Kept, leaked = 0, frames # <<>>, ~Closes(Top), NEW t, NEW inside,
         OpenScope(t, inside), Guarded(inside \o Rest, Len(seq_pos) + 1)
  PROVE  Guarded(frames', Len(seq_pos'))
<1>1. CASE seq_pos' = seq_pos /\ frames' = Rest
  BY <1>1, KeptFacts
<1>2. CASE Matches(t) /\ seq_pos' = <<cursor + 1 + Cell.len>> \o seq_pos /\ frames' = inside \o Rest
  <2> DEFINE e == cursor + 1 + Cell.len
  <2>1. e \in Nat
    BY <1>2, CellHere, StreamFacts DEF Matches
  <2>2. seq_pos' = <<e>> \o seq_pos
    BY <1>2
  <2> HIDE DEF e
  <2>3. Ends \subseteq Nat
    BY DEF Ends
  <2>4. seq_pos \in Seq(Nat)
    BY <2>3, StackFacts, SeqWider
  <2>5. Len(seq_pos') = Len(seq_pos) + 1
    BY <2>1, <2>2, <2>4, PushIndices
  <2> QED BY <2>5, <1>2
<1> QED BY <1>1, <1>2 DEF OpenScope, HeaderFails, Throw

\* The frames of a scope that is opened.
LEMMA ScopeKept ==
  ASSUME Inv, Kept, leaked = 0, frames # <<>>,
         NEW e, Closes(e), ~IsGuard(e), DepthOf(e) = Depth
  PROVE  /\ \A f : Plain(f) => Guarded(<<f, e>> \o Rest, Len(seq_pos) + 1)
         /\ \A f, g : Plain(f) /\ Plain(g) => Guarded(<<f, g, e>> \o Rest, Len(seq_pos) + 1)
<1>1. DepthOf(e) = Len(seq_pos) + 1
  BY KeptFacts, DepthFacts
<1>2. Guarded(<<e>> \o Rest, Len(seq_pos) + 1)
  BY <1>1, KeptFacts, GuardedCloser
<1> QED BY <1>2, KeptFacts, GuardedOver

LEMMA KeptStays ==
  ASSUME Inv, Kept, [Next]_vars
  PROVE  Kept'
<1>1. CASE UNCHANGED vars
  BY <1>1 DEF vars, Kept, Guarded, IsGuard, Closes, DepthOf
<1>2. CASE Step
  <2> DEFINE n == Len(seq_pos)
  <2>1. leaked' = leaked \/ (leaked' = leaked + 1)
    BY <1>2 DEF Step, ReadPrimitive, ReadSequence, ReadContainer, ReadObject, ReadImplicit,
         ReadExplicit, ReadOptional, ReadExplicitOptional, OpenExplicit, ReadTrailing,
         ReadChoice, NextField, NextElement, Ampersand, CloseSequence, CloseExplicit,
         KeepOptional, CatchOptional, Unwind, Return
  <2> SUFFICES ASSUME leaked' = 0
               PROVE  Guarded(frames', Len(seq_pos'))
    BY DEF Kept, Guarded, IsGuard, Closes, DepthOf
  <2>2. leaked = 0
    BY <2>1, StackFacts
  <2>3. /\ n \in Nat /\ frames \in Seq(Fitting) /\ Guarded(frames, n)
        /\ frames # <<>> => Rest \in Seq(Fitting) /\ Guarded(Rest, n)
    BY <2>2, KeptFacts
  <2>4. ASSUME frames # <<>>
        PROVE  /\ \A f : Plain(f) => Guarded(<<f>> \o Rest, n)
               /\ \A f, g : Plain(f) /\ Plain(g) => Guarded(<<f, g>> \o Rest, n)
               /\ \A f, g, h : Plain(f) /\ Plain(g) /\ Plain(h) => Guarded(<<f, g, h>> \o Rest, n)
    BY <2>3, <2>4, GuardedFrames
  <2> HIDE DEF n
  <2>5. CASE ReadPrimitive \/ ReadTrailing \/ Ampersand \/ KeepOptional \/ CatchOptional \/ Unwind
    <3>1. frames # <<>> /\ frames' = Rest /\ seq_pos' = seq_pos
      BY <2>5 DEF ReadPrimitive, HeaderFails, Throw, ReadTrailing, Ampersand, KeepOptional,
                  CatchOptional, Unwind, Reading, running
    <3> QED BY <3>1, <2>3 DEF n
  <2>6. CASE ReadObject \/ ReadImplicit \/ ReadExplicit
    <3>1. frames # <<>> /\ seq_pos' = seq_pos
      BY <2>6 DEF ReadObject, ReadImplicit, ReadExplicit, Reading, running
    <3>2. Guarded(frames', n)
      BY <2>6, <3>1, <2>4, PlainFrames DEF ReadObject, ReadImplicit, ReadExplicit
    <3> QED BY <3>1, <3>2 DEF n
  <2>7. CASE ReadOptional \/ ReadExplicitOptional
    <3>1. frames # <<>> /\ seq_pos' = seq_pos /\ status = "running" /\ ~Closes(Top)
      BY <2>7 DEF ReadOptional, ReadExplicitOptional, Reading, running, Closes, Closers
    <3>2. Guarded(<<Guard>> \o Rest, n)
      BY <2>2, <3>1, GuardKept DEF n
    <3>3. /\ \A f, g : Plain(f) /\ Plain(g) => Guarded(<<f, g, Guard>> \o Rest, n)
          /\ \A f : Plain(f) => Guarded(<<f, Guard>> \o Rest, n)
      BY <3>1, <3>2, <2>3, GuardedOver
    <3>4. Guarded(frames', n)
      BY <2>7, <3>3, PlainFrames DEF ReadOptional, ReadExplicitOptional
    <3> QED BY <3>1, <3>4 DEF n
  <2>8. CASE ReadSequence
    <3>1. frames # <<>> /\ ~Closes(Top)
      BY <2>8 DEF ReadSequence, Reading, running, Closes, Closers
    <3> DEFINE f == Fields(Top.type.fields)
               e == EndSequence(Depth)
    <3>2. Closes(e) /\ ~IsGuard(e) /\ DepthOf(e) = Depth /\ Plain(f)
      BY PlainFrames DEF EndSequence, Closes, Closers, IsGuard, DepthOf
    <3>3. OpenScope(TagOr(Top.type.tag), <<f, e>>)
      BY <2>8 DEF ReadSequence
    <3> HIDE DEF f, e
    <3> QED BY <2>2, <3>1, <3>2, <3>3, ScopeKept, OpenKept
  <2>9. CASE ReadContainer
    <3>1. frames # <<>> /\ ~Closes(Top)
      BY <2>9 DEF ReadContainer, Reading, running, Closes, Closers
    <3> DEFINE f == Loop(Top.type.of)
               e == EndSequence(Depth)
    <3>2. Closes(e) /\ ~IsGuard(e) /\ DepthOf(e) = Depth /\ Plain(f)
      BY PlainFrames DEF EndSequence, Closes, Closers, IsGuard, DepthOf
    <3>3. OpenScope(TagOr(SequenceTag), <<f, e>>)
      BY <2>9 DEF ReadContainer
    <3> HIDE DEF f, e
    <3> QED BY <2>2, <3>1, <3>2, <3>3, ScopeKept, OpenKept
  <2>10. CASE OpenExplicit
    <3>1. frames # <<>> /\ ~Closes(Top)
      BY <2>10 DEF OpenExplicit, running, Closes, Closers
    <3> DEFINE f == Read(Top.type)
               e == EndExplicit(Depth)
    <3>2. Closes(e) /\ ~IsGuard(e) /\ DepthOf(e) = Depth /\ Plain(f) /\ Plain(Amp)
      BY PlainFrames DEF EndExplicit, Closes, Closers, IsGuard, DepthOf
    <3>3. OpenScope(Context(Top.tag), <<f, Amp, e>>)
      BY <2>10 DEF OpenExplicit
    <3> HIDE DEF f, e
    <3> QED BY <2>2, <3>1, <3>2, <3>3, ScopeKept, OpenKept
  <2>11. CASE ReadChoice
    <3>1. /\ frames # <<>> /\ seq_pos' = seq_pos
          /\ \/ frames' = Rest
             \/ \E T : frames' = <<Read(T), Amp>> \o Rest
      BY <2>11 DEF ReadChoice, Reading, running
    <3> QED BY <3>1, <2>3, <2>4, PlainFrames DEF n
  <2>12. CASE NextField
    <3>1. frames # <<>> /\ seq_pos' = seq_pos
      BY <2>12 DEF NextField, running
    <3>2. CASE Top.types = <<>>
      <4>1. frames' = <<>> \o Rest
        BY <2>12, <3>2 DEF NextField
      <4>2. <<>> \o Rest = Rest
        BY <2>3, <3>1
      <4> QED BY <4>1, <4>2, <3>1, <2>3 DEF n
    <3>3. CASE Top.types # <<>>
      <4>1. frames' = <<Read(Head(Top.types)), Amp, Fields(Tail(Top.types))>> \o Rest
        BY <2>12, <3>3 DEF NextField
      <4>2. Guarded(frames', n)
        BY <4>1, <3>1, <2>4, PlainFrames
      <4> QED BY <4>2, <3>1 DEF n
    <3> QED BY <3>2, <3>3
  <2>13. CASE NextElement
    <3>1. frames # <<>> /\ seq_pos' = seq_pos
      BY <2>13 DEF NextElement, running
    <3>2. \A f, g : Plain(f) /\ Plain(g) => Guarded(<<f, g>> \o frames, n)
      BY <2>3, GuardedFrames
    <3>3. Guarded(frames', n)
      BY <2>13, <3>1, <3>2, <2>3, PlainFrames DEF NextElement
    <3> QED BY <3>1, <3>3 DEF n
  <2>14. CASE CloseSequence \/ CloseExplicit
    <3>1. /\ frames # <<>> /\ frames' = Rest /\ Closes(Top)
          /\ seq_pos # <<>> /\ seq_pos' = Tail(seq_pos)
      BY <2>14 DEF CloseSequence, CloseExplicit, Pop, running, Closes, Closers
    <3>2. Len(seq_pos') = n - 1
      BY <3>1, StackFacts, PopIndices DEF n
    <3> QED BY <3>1, <3>2, <2>2, KeptFacts DEF n
  <2>15. CASE Return
    BY <2>15, <2>3 DEF Return, n
  <2> QED BY <1>2, <2>5, <2>6, <2>7, <2>8, <2>9, <2>10, <2>11, <2>12, <2>13, <2>14, <2>15
          DEF Step
<1> QED BY <1>1, <1>2 DEF Next, Stopped

\* An optional that was not there leaves the stream where it was and no scope
\* open that was not open before it was tried, whatever was opened in it and
\* whatever has made it fail (deserialiser.hpp:79-94) - unless an exception has
\* passed the end of an explicit tag, that leaves its scope behind.
THEOREM OptionalClosesItsScopes ==
  Spec => [][CatchOptional /\ leaked = 0 => cursor' = Top.mark /\ Len(seq_pos') = Top.depth]_vars
<1>1. Init => Inv /\ Kept
  <2> SUFFICES ASSUME Init
               PROVE  Kept
    BY InitInv
  <2>1. frames = <<Read(input.type), Amp>>
    BY DEF Init
  <2>2. Len(frames) = 2 /\ \A i \in 1 .. 2 : Plain(frames[i])
    BY <2>1, PlainFrames
  <2> QED BY <2>2 DEF Kept, Guarded, Plain
<1>2. Inv /\ Kept /\ [Next]_vars => (Inv /\ Kept)'
  BY NextInv, KeptStays
<1>3. Inv /\ Kept /\ [Next]_vars =>
        [CatchOptional /\ leaked = 0 => cursor' = Top.mark /\ Len(seq_pos') = Top.depth]_vars
  <2> SUFFICES ASSUME Inv, Kept, CatchOptional, leaked = 0
               PROVE  cursor' = Top.mark /\ Len(seq_pos') = Top.depth
    OBVIOUS
  <2>1. frames # <<>> /\ IsGuard(Top) /\ ~Closes(Top) /\ cursor' = Top.mark /\ seq_pos' = seq_pos
    BY DEF CatchOptional, IsGuard, Closes, Closers
  <2>2. PICK d \in Nat : Len(seq_pos) = d
    BY StackFacts
  <2>3. PICK m \in Nat : Len(frames) = m
    BY StackFacts, LenProperties
  <2>4. m >= 1 /\ Top = frames[1] /\ Top \in Fitting
    BY <2>1, <2>3, StackFacts, PopIndices DEF Top
  <2>5. Guarded(frames, d) /\ Stack(Fitting, frames, d)
    BY <2>2, KeptFacts
  <2>6. 1 \in 1 .. m
    BY <2>4
  <2>7. DepthOf(Top) <= d /\ DepthOf(Top) \in Nat
    BY <2>1, <2>3, <2>4, <2>5, <2>6, DepthNat DEF Guarded
  <2>8. CASE d = 0
    BY <2>1, <2>2, <2>7, <2>8 DEF DepthOf
  <2>9. CASE d # 0
    <3>1. d \in 1 .. d
      BY <2>9
    <3>2. PICK j \in 1 .. m : Closes(frames[j]) /\ DepthOf(frames[j]) = d
      BY <3>1, <2>3, <2>5 DEF Stack, Closed
    <3>3. ~(j < 1)
      BY <3>2
    <3>4. ~(d > DepthOf(Top))
      BY <2>1, <2>3, <2>4, <2>5, <2>6, <3>2, <3>3 DEF Guarded
    <3>5. DepthOf(Top) = d
      BY <2>7, <3>4
    <3> QED BY <2>1, <2>2, <3>5 DEF DepthOf
  <2> QED BY <2>8, <2>9
<1> QED BY <1>1, <1>2, <1>3, PTL DEF Spec


-----------------------------------------------------------------------------
(***************************************************************************)
(* What can be read is read: at any time the calls that are left to run    *)
(* lead to what should come of the whole message.                          *)
(***************************************************************************)

\* Where the decoder is between two calls, and while an exception passes: then
\* only the open scopes matter.
Running(at, ends, tag, rec) ==
  [thrown |-> FALSE, at |-> at, ends |-> ends, tag |-> tag, items |-> rec]
Unwound(ends) == [thrown |-> TRUE, at |-> 0, ends |-> ends, tag |-> NoTag, items |-> <<>>]

\* As much as is recorded of more items.
Room(sofar) == MaxItems - Len(sofar)
Joined(sofar, rec) ==
  IF Len(rec) <= Room(sofar) THEN sofar \o rec ELSE sofar \o SubSeq(rec, 1, Room(sofar))

EndOf(ends) == IF ends = <<>> THEN <<>> ELSE <<ends[1]>>
GoalOf(f, st) == Goal(f, st.at, EndOf(st.ends), st.tag)

\* A table by which c can be read.
TableOf(c) == CHOOSE table : Reads(table, c)

\* Reading that comes to r leads from st to goal.
Becomes(r, st, goal) ==
  \/ r.is = "got" /\ goal = Running(r.at, st.ends, r.tag, Joined(st.items, r.items))
  \/ r.is = "refused" /\ goal = Unwound(st.ends)

\* The call f, entered in st, is left in goal: it reads what the table of c says, it
\* closes the scope it has to, or it passes on what has been thrown.
Passes(c, f, st, goal) ==
  CASE f.call \in {"read", "fields", "loop", "start explicit"} ->
         IF st.thrown THEN goal = st ELSE Becomes(Said(TableOf(c), GoalOf(f, st)), st, goal)
    [] f.call = "amp" -> goal = st
    [] f.call = "end sequence" ->
         /\ st.ends # <<>> /\ st.ends[1] <= Len(c.message)
         /\ goal = IF st.thrown THEN Unwound(Tail(st.ends))
                   ELSE Running(Larger(st.at, st.ends[1]), Tail(st.ends), st.tag, st.items)
    [] f.call = "end explicit" ->
         /\ st.ends # <<>> /\ st.ends[1] <= Len(c.message)
         /\ ~st.thrown
         /\ goal = Running(Larger(st.at, st.ends[1]), Tail(st.ends), st.tag, st.items)
    [] f.call = "end optional" ->
         IF st.thrown
         THEN /\ Len(st.ends) = f.depth
              /\ goal = Running(f.mark, st.ends, NoTag, Noted(f.items, Absent))
         ELSE goal = st

\* The calls fs, one left after the other, lead from st to goal.
Leads(trace, c, fs, st, goal) ==
  /\ trace[1] = st
  /\ trace[Len(fs) + 1] = goal
  /\ \A i \in 1 .. Len(fs) : Passes(c, fs[i], trace[i], trace[i + 1])

Reaches(c, fs, st, goal) == \E trace : Leads(trace, c, fs, st, goal)

LEMMA ReachesNone ==
  ASSUME NEW c, NEW st, NEW goal, NEW fs, fs = <<>>, Reaches(c, fs, st, goal)
  PROVE  st = goal
<1>1. Len(fs) = 0
  OBVIOUS
<1> QED BY <1>1 DEF Reaches, Leads

LEMMA ReachesItself ==
  ASSUME NEW c, NEW st
  PROVE  Reaches(c, <<>>, st, st)
<1> DEFINE trace == [i \in 1 .. 1 |-> st]
           none == <<>>
<1>1. Len(none) = 0
  OBVIOUS
<1>2. trace[1] = st
  OBVIOUS
<1> HIDE DEF trace, none
<1>3. Leads(trace, c, none, st, st)
  BY <1>1, <1>2 DEF Leads
<1> QED BY <1>3 DEF Reaches, none

\* The call on top is left.
LEMMA ReachesRest ==
  ASSUME NEW c, NEW S, NEW fs \in Seq(S), fs # <<>>, NEW st, NEW goal,
         Reaches(c, fs, st, goal)
  PROVE  \E next : Passes(c, Head(fs), st, next) /\ Reaches(c, Tail(fs), next, goal)
<1>1. PICK trace : Leads(trace, c, fs, st, goal)
  BY DEF Reaches
<1> DEFINE rest == Tail(fs)
<1>2. /\ Head(fs) = fs[1] /\ Len(fs) \in Nat /\ Len(fs) >= 1
      /\ Len(rest) = Len(fs) - 1
      /\ \A i \in 1 .. Len(fs) - 1 : rest[i] = fs[i + 1]
  BY PopIndices
<1> HIDE DEF rest
<1> DEFINE n == Len(fs)
<1>3. /\ trace[1] = st /\ trace[n + 1] = goal
      /\ \A i \in 1 .. n : Passes(c, fs[i], trace[i], trace[i + 1])
  BY <1>1 DEF Leads
<1>4. n \in Nat /\ n >= 1 /\ Len(rest) = n - 1
  BY <1>2
<1> HIDE DEF n
<1> DEFINE later == [i \in 1 .. n |-> trace[i + 1]]
<1>5. Passes(c, Head(fs), st, later[1])
  <2>1. 1 \in 1 .. n /\ Passes(c, fs[1], trace[1], trace[1 + 1])
    BY <1>3, <1>4
  <2>2. later[1] = trace[1 + 1]
    BY <2>1
  <2> HIDE DEF later
  <2> QED BY <2>1, <2>2, <1>2, <1>3
<1>6. later[n] = goal
  BY <1>3, <1>4
<1>7. ASSUME NEW i \in 1 .. n - 1
      PROVE  Passes(c, rest[i], later[i], later[i + 1])
  <2>1. i \in 1 .. n /\ i + 1 \in 1 .. n
    BY <1>4
  <2>2. Passes(c, fs[i + 1], trace[i + 1], trace[(i + 1) + 1])
    BY <2>1, <1>3
  <2>3. rest[i] = fs[i + 1]
    BY <1>2 DEF n
  <2>4. later[i + 1] = trace[(i + 1) + 1] /\ later[i] = trace[i + 1]
    BY <2>1
  <2> HIDE DEF later
  <2> QED BY <2>2, <2>3, <2>4
<1> HIDE DEF later
<1>8. Len(rest) + 1 = n
  BY <1>4
<1>9. Leads(later, c, rest, later[1], goal)
  BY <1>4, <1>6, <1>7, <1>8 DEF Leads
<1> QED BY <1>5, <1>9 DEF Reaches, rest

\* A call is put on top.
LEMMA ReachesOn ==
  ASSUME NEW c, NEW S, NEW f \in S, NEW fs \in Seq(S), NEW st, NEW next, NEW goal,
         Passes(c, f, st, next), Reaches(c, fs, next, goal)
  PROVE  Reaches(c, <<f>> \o fs, st, goal)
<1>1. PICK trace : Leads(trace, c, fs, next, goal)
  BY DEF Reaches
<1> DEFINE all == <<f>> \o fs
           n == Len(fs)
<1>2. /\ Len(all) = n + 1 /\ n \in Nat /\ all[1] = f
      /\ \A i \in 1 .. n + 1 : i # 1 => i - 1 \in 1 .. n /\ all[i] = fs[i - 1]
  BY PushIndices
<1>3. /\ trace[1] = next /\ trace[n + 1] = goal
      /\ \A i \in 1 .. n : Passes(c, fs[i], trace[i], trace[i + 1])
  BY <1>1 DEF Leads
<1> HIDE DEF all, n
<1> DEFINE whole == [i \in 1 .. n + 2 |-> IF i = 1 THEN st ELSE trace[i - 1]]
<1>4. whole[1] = st /\ whole[n + 2] = goal
  BY <1>2, <1>3
<1>5. ASSUME NEW i \in 1 .. n + 1
      PROVE  Passes(c, all[i], whole[i], whole[i + 1])
  <2>1. i + 1 \in 1 .. n + 2 /\ i \in 1 .. n + 2 /\ i + 1 # 1 /\ (i + 1) - 1 = i
    BY <1>2
  <2>2. whole[i + 1] = trace[i]
    BY <2>1
  <2>3. CASE i = 1
    <3>1. whole[i] = st
      BY <2>1, <2>3
    <3> HIDE DEF whole
    <3> QED BY <2>2, <2>3, <3>1, <1>2, <1>3
  <2>4. CASE i # 1
    <3>1. i - 1 \in 1 .. n /\ all[i] = fs[i - 1] /\ (i - 1) + 1 = i
      BY <2>4, <1>2
    <3>2. Passes(c, fs[i - 1], trace[i - 1], trace[(i - 1) + 1])
      BY <3>1, <1>3
    <3>3. whole[i] = trace[i - 1]
      BY <2>1, <2>4
    <3> HIDE DEF whole
    <3> QED BY <2>2, <3>1, <3>2, <3>3
  <2> QED BY <2>3, <2>4
<1> HIDE DEF whole
<1>6. Len(all) + 1 = n + 2
  BY <1>2
<1>7. Leads(whole, c, all, st, goal)
  BY <1>2, <1>4, <1>5, <1>6 DEF Leads
<1> QED BY <1>7 DEF Reaches, all

-----------------------------------------------------------------------------

\* What is recorded of items.
LEMMA SameSequence ==
  ASSUME NEW S, NEW a \in Seq(S), NEW b \in Seq(S), Len(a) = Len(b),
         \A i \in 1 .. Len(a) : a[i] = b[i]
  PROVE  a = b
<1>1. DOMAIN a = 1 .. Len(a) /\ DOMAIN b = 1 .. Len(b)
  BY LenProperties
<1>2. a = [i \in DOMAIN a |-> a[i]] /\ b = [i \in DOMAIN b |-> b[i]]
  OBVIOUS
<1> QED BY <1>1, <1>2

LEMMA FirstPart ==
  ASSUME NEW S, NEW s \in Seq(S), NEW n \in Int, n < Len(s)
  PROVE  /\ SubSeq(s, 1, n) \in Seq(S)
         /\ Len(SubSeq(s, 1, n)) = IF n > 0 THEN n ELSE 0
         /\ \A i \in 1 .. n : SubSeq(s, 1, n)[i] = s[i]
OBVIOUS

LEMMA JoinedFacts ==
  ASSUME NEW S, NEW s \in Seq(S), NEW a \in Seq(S)
  PROVE  /\ Joined(s, a) \in Seq(S)
         /\ Len(Joined(s, a)) = IF Len(a) <= MaxItems - Len(s) THEN Len(s) + Len(a)
                                ELSE IF MaxItems - Len(s) > 0 THEN MaxItems ELSE Len(s)
         /\ \A i \in 1 .. Len(Joined(s, a)) :
              /\ i <= Len(s) => Joined(s, a)[i] = s[i]
              /\ i > Len(s) => i - Len(s) \in 1 .. Len(a) /\ Joined(s, a)[i] = a[i - Len(s)]
<1>1. MaxItems \in Nat /\ Len(s) \in Nat /\ Len(a) \in Nat
  BY DeserialiserAssumption, LenProperties DEF DeserialiserAssumption
<1> DEFINE n == MaxItems - Len(s)
           p == IF Len(a) <= n THEN a ELSE SubSeq(a, 1, n)
<1>2. n \in Int
  BY <1>1
<1>3. /\ p \in Seq(S)
      /\ Len(p) = IF Len(a) <= n THEN Len(a) ELSE IF n > 0 THEN n ELSE 0
      /\ \A i \in 1 .. Len(p) : i \in 1 .. Len(a) /\ p[i] = a[i]
  <2>1. CASE Len(a) <= n
    BY <2>1
  <2>2. CASE ~(Len(a) <= n)
    <3>1. n < Len(a) /\ p = SubSeq(a, 1, n)
      BY <1>1, <1>2, <2>2
    <3>2. /\ p \in Seq(S) /\ Len(p) = IF n > 0 THEN n ELSE 0
          /\ \A i \in 1 .. n : p[i] = a[i]
      <4> HIDE DEF n, p
      <4> QED BY <1>2, <3>1, FirstPart
    <3> HIDE DEF n, p
    <3> QED BY <1>1, <1>2, <2>2, <3>1, <3>2
  <2> QED BY <2>1, <2>2
<1>4. Joined(s, a) = s \o p
  BY DEF Joined, Room
<1> HIDE DEF p
<1>5. /\ s \o p \in Seq(S) /\ Len(s \o p) = Len(s) + Len(p)
      /\ \A i \in 1 .. Len(s) + Len(p) : (s \o p)[i] = IF i <= Len(s) THEN s[i] ELSE p[i - Len(s)]
  BY <1>3, ConcatProperties
<1>6. Len(p) \in Nat
  BY <1>3, LenProperties
<1> DEFINE j == Joined(s, a)
<1>7. j \in Seq(S) /\ Len(j) = Len(s) + Len(p)
  BY <1>4, <1>5
<1>8. ASSUME NEW i \in 1 .. Len(j)
      PROVE  /\ i <= Len(s) => j[i] = s[i]
             /\ i > Len(s) => i - Len(s) \in 1 .. Len(a) /\ j[i] = a[i - Len(s)]
  <2>1. i \in 1 .. Len(s) + Len(p) /\ j[i] = IF i <= Len(s) THEN s[i] ELSE p[i - Len(s)]
    BY <1>4, <1>5, <1>7
  <2>2. CASE i <= Len(s)
    BY <1>1, <2>1, <2>2
  <2>3. CASE i > Len(s)
    <3>1. i - Len(s) \in 1 .. Len(p)
      BY <1>1, <1>6, <2>1, <2>3
    <3> HIDE DEF j
    <3> QED BY <1>1, <1>3, <2>1, <2>3, <3>1
  <2> HIDE DEF j
  <2> QED BY <1>1, <2>2, <2>3
<1>9. Len(j) = IF Len(a) <= MaxItems - Len(s) THEN Len(s) + Len(a)
               ELSE IF MaxItems - Len(s) > 0 THEN MaxItems ELSE Len(s)
  <2> HIDE DEF j
  <2> QED BY <1>1, <1>3, <1>7 DEF n
<1> QED BY <1>7, <1>8, <1>9 DEF j

LEMMA JoinedNone ==
  ASSUME NEW S, NEW s \in Seq(S)
  PROVE  Joined(s, <<>>) = s
<1> DEFINE none == <<>>
           n == Room(s)
<1>1. none \in Seq(S) /\ Len(none) = 0 /\ s \o none = s
  OBVIOUS
<1>2. n \in Int
  BY DeserialiserAssumption, LenProperties DEF DeserialiserAssumption, Room
<1>3. Joined(s, none) = IF Len(none) <= n THEN s \o none ELSE s \o SubSeq(none, 1, n)
  BY DEF Joined
<1> HIDE DEF none, n
<1>4. CASE Len(none) <= n
  BY <1>1, <1>3, <1>4 DEF none
<1>5. CASE ~(Len(none) <= n)
  <2> DEFINE p == SubSeq(none, 1, n)
  <2>1. n < Len(none)
    BY <1>1, <1>2, <1>5
  <2>2. p \in Seq(S) /\ Len(p) = 0
    BY <1>1, <1>2, <2>1, FirstPart
  <2> HIDE DEF p
  <2>3. p = none
    BY <1>1, <2>2
  <2> QED BY <1>1, <1>3, <1>5, <2>3 DEF p, none
<1> QED BY <1>4, <1>5

LEMMA JoinedFits ==
  ASSUME NEW S, NEW a \in Seq(S), Len(a) <= MaxItems
  PROVE  Joined(<<>>, a) = a
<1> DEFINE none == <<>>
<1>1. none \in Seq(S) /\ Len(none) = 0
  OBVIOUS
<1>2. MaxItems \in Nat /\ Len(a) \in Nat
  BY DeserialiserAssumption, LenProperties DEF DeserialiserAssumption
<1>3. none \o a = a
  OBVIOUS
<1> HIDE DEF none
<1>4. Len(a) <= MaxItems - Len(none)
  BY <1>1, <1>2
<1>5. Joined(none, a) = a
  BY <1>3, <1>4 DEF Joined, Room
<1> QED BY <1>5 DEF none

LEMMA JoinedOne ==
  ASSUME NEW S, NEW s \in Seq(S), NEW x \in S
  PROVE  Joined(s, <<x>>) = Noted(s, x)
<1> DEFINE one == <<x>>
<1>1. one \in Seq(S) /\ Len(one) = 1 /\ one[1] = x
  OBVIOUS
<1>2. s \o one = Append(s, x)
  OBVIOUS
<1> HIDE DEF one
<1>3. MaxItems \in Nat /\ Len(s) \in Nat
  BY DeserialiserAssumption, LenProperties DEF DeserialiserAssumption
<1>4. CASE Len(s) < MaxItems
  <2>1. Len(one) <= MaxItems - Len(s)
    BY <1>1, <1>3, <1>4
  <2> QED BY <1>2, <1>4, <2>1 DEF Joined, Room, Noted, one
<1>5. CASE ~(Len(s) < MaxItems)
  <2> DEFINE j == Joined(s, one)
  <2>1. /\ j \in Seq(S)
        /\ Len(j) = IF Len(one) <= MaxItems - Len(s) THEN Len(s) + Len(one)
                    ELSE IF MaxItems - Len(s) > 0 THEN MaxItems ELSE Len(s)
        /\ \A i \in 1 .. Len(j) : i <= Len(s) => j[i] = s[i]
    BY <1>1, JoinedFacts
  <2> HIDE DEF j
  <2>2. Len(j) = Len(s)
    BY <1>1, <1>3, <1>5, <2>1
  <2>3. j = s
    BY <1>3, <2>1, <2>2, SameSequence
  <2> QED BY <1>5, <2>3 DEF j, Noted, one
<1> QED BY <1>4, <1>5

LEMMA JoinedLength ==
  ASSUME NEW m \in Nat, NEW s \in Nat, NEW a \in Nat, NEW b \in Nat,
         NEW ab, ab = a + b,
         NEW j, j = IF a <= m - s THEN s + a ELSE IF m - s > 0 THEN m ELSE s,
         NEW l, l = IF b <= m - j THEN j + b ELSE IF m - j > 0 THEN m ELSE j,
         NEW r, r = IF ab <= m - s THEN s + ab ELSE IF m - s > 0 THEN m ELSE s
  PROVE  l = r
OBVIOUS

LEMMA JoinedTwice ==
  ASSUME NEW S, NEW s \in Seq(S), NEW a \in Seq(S), NEW b \in Seq(S)
  PROVE  Joined(Joined(s, a), b) = Joined(s, a \o b)
<1> DEFINE j == Joined(s, a)
           ab == a \o b
           m == MaxItems
<1>1. m \in Nat /\ Len(s) \in Nat /\ Len(a) \in Nat /\ Len(b) \in Nat
  BY DeserialiserAssumption, LenProperties DEF DeserialiserAssumption
<1>2. /\ ab \in Seq(S) /\ Len(ab) = Len(a) + Len(b)
      /\ \A i \in 1 .. Len(a) + Len(b) : ab[i] = IF i <= Len(a) THEN a[i] ELSE b[i - Len(a)]
  BY ConcatProperties
<1> HIDE DEF ab
<1>3. /\ j \in Seq(S)
      /\ Len(j) = IF Len(a) <= m - Len(s) THEN Len(s) + Len(a)
                  ELSE IF m - Len(s) > 0 THEN m ELSE Len(s)
      /\ \A i \in 1 .. Len(j) :
           /\ i <= Len(s) => j[i] = s[i]
           /\ i > Len(s) => i - Len(s) \in 1 .. Len(a) /\ j[i] = a[i - Len(s)]
  BY JoinedFacts
<1> HIDE DEF j
<1> DEFINE l == Joined(j, b)
           r == Joined(s, ab)
<1>4. /\ l \in Seq(S)
      /\ Len(l) = IF Len(b) <= m - Len(j) THEN Len(j) + Len(b)
                  ELSE IF m - Len(j) > 0 THEN m ELSE Len(j)
      /\ \A i \in 1 .. Len(l) :
           /\ i <= Len(j) => l[i] = j[i]
           /\ i > Len(j) => i - Len(j) \in 1 .. Len(b) /\ l[i] = b[i - Len(j)]
  <2>1. j \in Seq(S)
    BY <1>3
  <2> HIDE DEF m
  <2> QED BY <2>1, JoinedFacts DEF m
<1>5. /\ r \in Seq(S)
      /\ Len(r) = IF Len(ab) <= m - Len(s) THEN Len(s) + Len(ab)
                  ELSE IF m - Len(s) > 0 THEN m ELSE Len(s)
      /\ \A i \in 1 .. Len(r) :
           /\ i <= Len(s) => r[i] = s[i]
           /\ i > Len(s) => i - Len(s) \in 1 .. Len(ab) /\ r[i] = ab[i - Len(s)]
  <2>1. ab \in Seq(S)
    BY <1>2
  <2> HIDE DEF m
  <2> QED BY <2>1, JoinedFacts DEF m
<1> HIDE DEF l, r, m
<1>6. Len(j) \in Nat /\ Len(l) \in Nat /\ Len(r) \in Nat
  BY <1>3, <1>4, <1>5, LenProperties
<1>7. Len(l) = Len(r)
  <2>1. Len(ab) = Len(a) + Len(b)
    BY <1>2
  <2>2. Len(j) = IF Len(a) <= m - Len(s) THEN Len(s) + Len(a)
                 ELSE IF m - Len(s) > 0 THEN m ELSE Len(s)
    BY <1>3
  <2>3. Len(l) = IF Len(b) <= m - Len(j) THEN Len(j) + Len(b)
                 ELSE IF m - Len(j) > 0 THEN m ELSE Len(j)
    BY <1>4
  <2>4. Len(r) = IF Len(ab) <= m - Len(s) THEN Len(s) + Len(ab)
                 ELSE IF m - Len(s) > 0 THEN m ELSE Len(s)
    BY <1>5
  <2>5. ASSUME NEW ns, ns = Len(s), NEW na, na = Len(a), NEW nb, nb = Len(b),
               NEW nab, nab = Len(ab), NEW nj, nj = Len(j), NEW nl, nl = Len(l),
               NEW nr, nr = Len(r)
        PROVE  nl = nr
    <3>1. ns \in Nat /\ na \in Nat /\ nb \in Nat /\ nab = na + nb /\ m \in Nat
      BY <1>1, <2>1, <2>5
    <3>2. /\ nj = IF na <= m - ns THEN ns + na ELSE IF m - ns > 0 THEN m ELSE ns
          /\ nl = IF nb <= m - nj THEN nj + nb ELSE IF m - nj > 0 THEN m ELSE nj
          /\ nr = IF nab <= m - ns THEN ns + nab ELSE IF m - ns > 0 THEN m ELSE ns
      BY <2>2, <2>3, <2>4, <2>5
    <3> QED BY ONLY <3>1, <3>2, JoinedLength
  <2> QED BY <2>5
<1>8. ASSUME NEW i \in 1 .. Len(l)
      PROVE  l[i] = r[i]
  <2>1. i \in 1 .. Len(r) /\ i \in Nat
    BY <1>7
  <2>2. CASE i <= Len(s)
    <3>1. i <= Len(j)
      BY <1>1, <1>3, <2>2
    <3>2. i \in 1 .. Len(j)
      BY <1>6, <3>1
    <3> QED BY <1>3, <1>4, <1>5, <2>1, <2>2, <3>1, <3>2
  <2>3. CASE i > Len(s) /\ i <= Len(j)
    <3>1. i \in 1 .. Len(j)
      BY <1>6, <2>3
    <3>2. i - Len(s) \in 1 .. Len(a) /\ l[i] = a[i - Len(s)]
      BY <1>3, <1>4, <2>3, <3>1
    <3>3. r[i] = ab[i - Len(s)]
      BY <1>5, <2>1, <2>3
    <3>4. i - Len(s) \in 1 .. Len(a) + Len(b) /\ i - Len(s) <= Len(a)
      BY <1>1, <3>2
    <3> QED BY <1>2, <3>2, <3>3, <3>4
  <2>4. CASE i > Len(j)
    <3>1. i - Len(j) \in 1 .. Len(b) /\ l[i] = b[i - Len(j)]
      BY <1>4, <2>4
    <3>2. Len(j) = Len(s) + Len(a)
      BY <1>1, <1>3, <1>4, <1>6, <2>4
    <3>3. i > Len(s) /\ (i - Len(s)) - Len(a) = i - Len(j)
      BY <1>1, <2>1, <2>4, <3>2
    <3>4. i - Len(s) \in 1 .. Len(a) + Len(b) /\ ~(i - Len(s) <= Len(a))
      BY <1>1, <2>1, <3>1, <3>2, <3>3
    <3>5. r[i] = ab[i - Len(s)]
      BY <1>5, <2>1, <3>3
    <3> QED BY <1>2, <3>1, <3>3, <3>4, <3>5
  <2> QED BY <1>1, <1>6, <2>1, <2>2, <2>3, <2>4
<1>9. l = r
  BY <1>4, <1>5, <1>7, <1>8, SameSequence
<1> QED BY <1>9 DEF l, r, j, ab

-----------------------------------------------------------------------------

Now ==
  IF status = "throwing" THEN Unwound(seq_pos) ELSE Running(cursor, seq_pos, current_tag, items)

\* What is left to run leads to what is expected.
OnWay ==
  \E goal :
    ~goal.thrown /\ goal.items = input.expected /\ Reaches(input, frames, Now, goal)

\* All of the input is there to the end, no destructor has an exception to
\* keep, and none passes with a tag pending.
ReadingInv ==
  /\ limit = Len(input.message) /\ ~ex
  /\ status = "throwing" => current_tag = NoTag
  /\ status \in {"running", "throwing"} => OnWay
  /\ status = "done" => items = input.expected
  /\ status # "failed"

LEMMA NowFacts ==
  /\ status = "running" => Now = Running(cursor, seq_pos, current_tag, items)
  /\ status = "throwing" => Now = Unwound(seq_pos)
  /\ status' = "running" => Now' = Running(cursor', seq_pos', current_tag', items')
  /\ status' = "throwing" => Now' = Unwound(seq_pos')
<1>1. /\ status = "running" => Now = Running(cursor, seq_pos, current_tag, items)
      /\ status = "throwing" => Now = Unwound(seq_pos)
  BY DEF Now
<1>2. Now' = IF status' = "throwing" THEN Unwound(seq_pos')
             ELSE Running(cursor', seq_pos', current_tag', items')
  BY DEF Now, Unwound, Running
<1> QED BY <1>1, <1>2

LEMMA PlaceFields ==
  /\ \A at, ends, tag, rec :
       LET st == Running(at, ends, tag, rec)
       IN ~st.thrown /\ st.at = at /\ st.ends = ends /\ st.tag = tag /\ st.items = rec
  /\ \A ends :
       LET st == Unwound(ends)
       IN st.thrown /\ st.ends = ends
BY DEF Running, Unwound

\* A step of a call.
LEMMA StepOn ==
  ASSUME Inv, ReadingInv, status \in {"running", "throwing"}, frames # <<>>,
         UNCHANGED <<input, limit, ex>>, status' \in {"running", "throwing"},
         status' = "throwing" => current_tag' = NoTag,
         \A next, goal : Passes(input, Top, Now, next) /\ Reaches(input, Rest, next, goal)
                           => Reaches(input, frames', Now', goal)
  PROVE  ReadingInv'
<1>1. PICK goal : ~goal.thrown /\ goal.items = input.expected /\ Reaches(input, frames, Now, goal)
  BY DEF ReadingInv, OnWay
<1>2. frames \in Seq(Fitting)
  BY StackFacts
<1>3. PICK next : Passes(input, Top, Now, next) /\ Reaches(input, Rest, next, goal)
  BY <1>1, <1>2, ReachesRest DEF Top, Rest
<1>4. Reaches(input', frames', Now', goal)
  BY <1>3
<1>5. goal.items = input'.expected
  BY <1>1
<1>6. OnWay'
  BY <1>1, <1>4, <1>5 DEF OnWay
<1> QED BY <1>6 DEF ReadingInv

\* The call on top is left.
LEMMA StepOver ==
  ASSUME Inv, ReadingInv, status \in {"running", "throwing"}, frames # <<>>,
         UNCHANGED <<input, limit, ex>>, status' \in {"running", "throwing"},
         status' = "throwing" => current_tag' = NoTag,
         frames' = Rest,
         \A next : Passes(input, Top, Now, next) => Now' = next
  PROVE  ReadingInv'
<1>1. ASSUME NEW next, NEW goal, Passes(input, Top, Now, next), Reaches(input, Rest, next, goal)
      PROVE  Reaches(input, frames', Now', goal)
  BY <1>1
<1> QED BY <1>1, StepOn

\* It goes on with another one, with two, with three.
LEMMA StepOne ==
  ASSUME Inv, Inv', ReadingInv, status = "running", frames # <<>>,
         UNCHANGED <<input, limit, ex>>, status' = "running",
         NEW f \in Frames, frames' = <<f>> \o Rest,
         \A next : Passes(input, Top, Now, next) => Passes(input, f, Now', next)
  PROVE  ReadingInv'
<1>1. Rest \in Seq(Frames)
  BY TopFacts, SeqWider DEF Fitting
<1>2. ASSUME NEW next, NEW goal, Passes(input, Top, Now, next), Reaches(input, Rest, next, goal)
      PROVE  Reaches(input, frames', Now', goal)
  <2>1. Passes(input, f, Now', next)
    BY <1>2
  <2>2. Reaches(input, <<f>> \o Rest, Now', goal)
    BY <1>1, <1>2, <2>1, ReachesOn
  <2> QED BY <2>2
<1> QED BY <1>2, StepOn

LEMMA StepTwo ==
  ASSUME Inv, Inv', ReadingInv, status = "running", frames # <<>>,
         UNCHANGED <<input, limit, ex>>, status' = "running",
         NEW f \in Frames, NEW g \in Frames, frames' = <<f, g>> \o Rest,
         \A next : Passes(input, Top, Now, next)
                     => \E u : Passes(input, f, Now', u) /\ Passes(input, g, u, next)
  PROVE  ReadingInv'
<1>1. Rest \in Seq(Frames)
  BY TopFacts, SeqWider DEF Fitting
<1>2. <<g>> \o Rest \in Seq(Frames) /\ <<f, g>> \o Rest = <<f>> \o (<<g>> \o Rest)
  BY <1>1, TwoFrames
<1>3. ASSUME NEW next, NEW goal, Passes(input, Top, Now, next), Reaches(input, Rest, next, goal)
      PROVE  Reaches(input, frames', Now', goal)
  <2>1. PICK u : Passes(input, f, Now', u) /\ Passes(input, g, u, next)
    BY <1>3
  <2>2. Reaches(input, <<g>> \o Rest, u, goal)
    BY <1>1, <1>3, <2>1, ReachesOn
  <2>3. Reaches(input, <<f>> \o (<<g>> \o Rest), Now', goal)
    BY <1>2, <2>1, <2>2, ReachesOn
  <2> QED BY <1>2, <2>3
<1> QED BY <1>3, StepOn

LEMMA StepThree ==
  ASSUME Inv, Inv', ReadingInv, status = "running", frames # <<>>,
         UNCHANGED <<input, limit, ex>>, status' = "running",
         NEW f \in Frames, NEW g \in Frames, NEW h \in Frames, frames' = <<f, g, h>> \o Rest,
         \A next : Passes(input, Top, Now, next)
                     => \E u, v : /\ Passes(input, f, Now', u)
                                  /\ Passes(input, g, u, v)
                                  /\ Passes(input, h, v, next)
  PROVE  ReadingInv'
<1>1. Rest \in Seq(Frames)
  BY TopFacts, SeqWider DEF Fitting
<1>2. <<g, h>> \o Rest \in Seq(Frames) /\ <<f, g, h>> \o Rest = <<f>> \o (<<g, h>> \o Rest)
  <2>1. ASSUME NEW S, S = Frames
        PROVE  <<g, h>> \o Rest \in Seq(S) /\ <<f, g, h>> \o Rest = <<f>> \o (<<g, h>> \o Rest)
    <3>1. f \in S /\ g \in S /\ h \in S /\ Rest \in Seq(S)
      BY <1>1, <2>1
    <3> QED BY ONLY <3>1, ThreeFrames, SMTT(40)
  <2> QED BY <2>1
<1>3. <<h>> \o Rest \in Seq(Frames) /\ <<g, h>> \o Rest = <<g>> \o (<<h>> \o Rest)
  BY <1>1, TwoFrames
<1>4. ASSUME NEW next, NEW goal, Passes(input, Top, Now, next), Reaches(input, Rest, next, goal)
      PROVE  Reaches(input, frames', Now', goal)
  <2>1. PICK u, v : /\ Passes(input, f, Now', u)
                    /\ Passes(input, g, u, v)
                    /\ Passes(input, h, v, next)
    BY <1>4
  <2>2. Reaches(input, <<h>> \o Rest, v, goal)
    BY <1>1, <1>4, <2>1, ReachesOn
  <2>3. Reaches(input, <<g>> \o (<<h>> \o Rest), u, goal)
    BY <1>3, <2>1, <2>2, ReachesOn
  <2>4. Reaches(input, <<f>> \o (<<g, h>> \o Rest), Now', goal)
    BY <1>2, <1>3, <2>1, <2>3, ReachesOn
  <2> QED BY <1>2, <2>4
<1> QED BY <1>4, StepOn

\* What a table says follows from what it says of others.
LEMMA Follows ==
  ASSUME NEW table, NEW m, Consistent(m, table), NEW g, Said(table, g) # Unsaid
  PROVE  LET r == Said(table, First(m, g)) IN
         /\ Said(table, g) \in Results
         /\ Said(table, g) = Result(m, g, r, Said(table, Second(g, r)))
BY DEF Said, Consistent

LEMMA TableConsistent ==
  ASSUME NEW c, Legible(c)
  PROVE  Reads(TableOf(c), c) /\ Consistent(c.message, TableOf(c))
<1>1. Reads(TableOf(c), c)
  BY DEF Legible, TableOf
<1> QED BY <1>1 DEF Reads

LEMMA SaidTyped ==
  ASSUME NEW c, Legible(c), NEW g
  PROVE  LET r == Said(TableOf(c), g) IN
         /\ r \in Results
         /\ r.is = "got" => r.at \in Nat /\ r.tag \in Tags /\ r.items \in Seq(Items)
         /\ r.is = "refused" => r = Refused
         /\ r.is = "unsaid" <=> r = Unsaid
<1> DEFINE r == Said(TableOf(c), g)
<1>1. r \in Results
  <2>1. CASE r = Unsaid
    BY <2>1 DEF Results
  <2>2. CASE r # Unsaid
    BY <2>2, Follows, TableConsistent
  <2> QED BY <2>1, <2>2
<1> HIDE DEF r
<1>2. /\ r.is = "got" => r.at \in Nat /\ r.tag \in Tags /\ r.items \in Seq(Items)
      /\ r.is = "refused" => r = Refused
      /\ r.is = "unsaid" <=> r = Unsaid
  BY <1>1 DEF Results, Refused, Unsaid
<1> QED BY <1>1, <1>2 DEF r

-----------------------------------------------------------------------------

ReadingCalls == {"read", "fields", "loop", "start explicit"}

\* The kinds of results exclude each other.
LEMMA ResultKinds ==
  /\ Refused.is = "refused" /\ Unsaid.is = "unsaid"
  /\ \A at, tag, rec :
       LET r == Got(at, tag, rec)
       IN r.is = "got" /\ r.at = at /\ r.tag = tag /\ r.items = rec
BY DEF Refused, Unsaid, Got

LEMMA PassesReading ==
  ASSUME NEW c, NEW f, f.call \in ReadingCalls, NEW at, NEW ends, NEW tag, NEW rec, NEW next
  PROVE  Passes(c, f, Running(at, ends, tag, rec), next)
           <=> LET r == Said(TableOf(c), Goal(f, at, EndOf(ends), tag)) IN
               \/ r.is = "got" /\ next = Running(r.at, ends, r.tag, Joined(rec, r.items))
               \/ r.is = "refused" /\ next = Unwound(ends)
<1> DEFINE st == Running(at, ends, tag, rec)
<1>1. ~st.thrown /\ st.at = at /\ st.ends = ends /\ st.tag = tag /\ st.items = rec
  BY PlaceFields
<1> HIDE DEF st
<1>2. Passes(c, f, st, next) <=> Becomes(Said(TableOf(c), GoalOf(f, st)), st, next)
  BY <1>1 DEF Passes, ReadingCalls
<1>3. GoalOf(f, st) = Goal(f, at, EndOf(ends), tag)
  BY <1>1 DEF GoalOf
<1> QED BY <1>1, <1>2, <1>3 DEF Becomes, st

LEMMA PassesRefused ==
  ASSUME NEW c, NEW f, f.call \in ReadingCalls, NEW at, NEW ends, NEW tag, NEW rec,
         Said(TableOf(c), Goal(f, at, EndOf(ends), tag)) = Refused
  PROVE  Passes(c, f, Running(at, ends, tag, rec), Unwound(ends))
<1>1. Said(TableOf(c), Goal(f, at, EndOf(ends), tag)).is = "refused"
  BY ResultKinds
<1> QED BY <1>1, PassesReading

\* What is read now, and what comes of it.
HereGoal == Goal(Top, cursor, EndOf(seq_pos), current_tag)
HereFirst == Said(TableOf(input), First(input.message, HereGoal))
HereSecond == Said(TableOf(input), Second(HereGoal, HereFirst))
HereResult == Result(input.message, HereGoal, HereFirst, HereSecond)

LEMMA TopRead ==
  ASSUME Legible(input), status = "running", Top.call \in ReadingCalls,
         NEW next, Passes(input, Top, Now, next)
  PROVE  /\ HereResult \in Results
         /\ \/ /\ HereResult.is = "got"
               /\ next = Running(HereResult.at, seq_pos, HereResult.tag, Joined(items, HereResult.items))
            \/ HereResult = Refused /\ next = Unwound(seq_pos)
<1> DEFINE r == Said(TableOf(input), HereGoal)
<1>1. Now = Running(cursor, seq_pos, current_tag, items)
  BY NowFacts
<1>2. \/ r.is = "got" /\ next = Running(r.at, seq_pos, r.tag, Joined(items, r.items))
      \/ r.is = "refused" /\ next = Unwound(seq_pos)
  BY <1>1, PassesReading DEF HereGoal
<1>3. /\ r \in Results
      /\ r.is = "refused" => r = Refused
      /\ r.is = "unsaid" <=> r = Unsaid
  BY SaidTyped
<1>4. r # Unsaid
  BY <1>2, <1>3
<1>5. r = HereResult
  BY <1>4, Follows, TableConsistent DEF HereResult, HereFirst, HereSecond
<1> HIDE DEF r
<1> QED BY <1>2, <1>3, <1>5

LEMMA HereFields ==
  /\ HereGoal.frame = Top /\ HereGoal.at = cursor /\ HereGoal.end = EndOf(seq_pos)
  /\ HereGoal.tag = current_tag
BY DEF HereGoal, Goal

LEMMA HereFacts ==
  ASSUME Inv, limit = Len(input.message), NEW t
  PROVE  /\ AtEnd(HereGoal) <=> is_end_of_sequence
         /\ HeaderAt(input.message, HereGoal) <=> HeaderHere
         /\ Starts(input.message, HereGoal, t) <=> Matches(t)
         /\ Opens(input.message, HereGoal, t) <=> Matches(t) /\ Cell.constructed
         /\ input.message[HereGoal.at + 1] = Cell
<1>1. AtEnd(HereGoal) <=> is_end_of_sequence
  <2>1. CASE seq_pos = <<>>
    BY <2>1, HereFields DEF AtEnd, EndOf, is_end_of_sequence
  <2>2. CASE seq_pos # <<>>
    <3>1. Head(seq_pos) = seq_pos[1]
      BY <2>2, StackFacts, PopIndices
    <3>2. HereGoal.end = <<Head(seq_pos)>>
      BY <2>2, <3>1, HereFields DEF EndOf
    <3> DEFINE h == Head(seq_pos)
    <3> HIDE DEF h
    <3>3. <<h>> # <<>> /\ <<h>>[1] = h
      OBVIOUS
    <3>4. HereGoal.end # <<>> /\ HereGoal.end[1] = Head(seq_pos)
      BY <3>2, <3>3 DEF h
    <3> QED BY <2>2, <3>4, HereFields DEF AtEnd, is_end_of_sequence
  <2> QED BY <2>1, <2>2
<1>2. input.message[HereGoal.at + 1] = Cell
  BY HereFields DEF Cell
<1>3. HeaderAt(input.message, HereGoal) <=> HeaderHere
  BY <1>2, HereFields DEF HeaderAt, HeaderHere
<1>4. Starts(input.message, HereGoal, t) <=> Matches(t)
  BY <1>1, <1>2, <1>3 DEF Starts, Matches
<1> QED BY <1>1, <1>2, <1>3, <1>4 DEF Opens

LEMMA FirstTyped ==
  ASSUME Legible(input)
  PROVE  /\ HereFirst \in Results /\ HereSecond \in Results
         /\ HereFirst.is = "got" => HereFirst.at \in Nat /\ HereFirst.tag \in Tags /\ HereFirst.items \in Seq(Items)
         /\ HereFirst.is = "refused" => HereFirst = Refused
         /\ HereFirst.is = "unsaid" <=> HereFirst = Unsaid
         /\ HereSecond.is = "got" => HereSecond.at \in Nat /\ HereSecond.tag \in Tags /\ HereSecond.items \in Seq(Items)
         /\ HereSecond.is = "refused" => HereSecond = Refused
         /\ HereSecond.is = "unsaid" <=> HereSecond = Unsaid
BY SaidTyped DEF HereFirst, HereSecond

LEMMA BehindFacts ==
  ASSUME NEW before, NEW r \in Results
  PROVE  /\ r.is = "got" => Behind(before, r) = Got(r.at, r.tag, before \o r.items)
         /\ r.is # "got" => Behind(before, r) = r
         /\ Behind(before, r).is = r.is
BY DEF Behind, Got

LEMMA ResultOfRead ==
  ASSUME Top.call = "read"
  PROVE  /\ HereResult = OfRead(input.message, HereGoal, HereFirst)
         /\ HereFirst = Said(TableOf(input), FirstRead(input.message, HereGoal))
<1>1. HereGoal.frame.call = "read"
  BY HereFields
<1> QED BY <1>1 DEF HereResult, HereFirst, Result, First

-----------------------------------------------------------------------------

LEMMA ReadObjectOn ==
  ASSUME Inv, Inv', Legible(input), ReadingInv, ReadObject
  PROVE  ReadingInv'
<1> DEFINE T == Top.type
           f == Fields(T.fields)
<1>1. frames # <<>> /\ status = "running" /\ T \in Types /\ T.kind = "object" /\ Top.call = "read"
  BY ReadingFacts DEF ReadObject, Reading
<1>2. T.fields \in Seq(Types)
  BY <1>1, DeserialiserAssumption DEF DeserialiserAssumption, WellFormed
<1>3. f \in Frames /\ f.call \in ReadingCalls
  BY <1>2, FieldsFrame DEF Fitting, Fields, ReadingCalls
<1>4. UNCHANGED <<input, limit, ex>> /\ status' = "running" /\ frames' = <<f>> \o Rest
  BY <1>1 DEF ReadObject, stream
<1>5. Now' = Running(cursor, seq_pos, current_tag, items)
  BY <1>4, NowFacts DEF ReadObject, stream
<1>6. FirstRead(input.message, HereGoal) = Goal(f, cursor, EndOf(seq_pos), current_tag)
  BY <1>1, HereFields DEF FirstRead
<1>7. HereResult = HereFirst
  BY <1>1, ResultOfRead, HereFields DEF OfRead
<1> HIDE DEF f
<1>8. ASSUME NEW next, Passes(input, Top, Now, next)
      PROVE  Passes(input, f, Now', next)
  <2>1. Top.call \in ReadingCalls
    BY <1>1 DEF ReadingCalls
  <2>2. \/ /\ HereFirst.is = "got"
           /\ next = Running(HereFirst.at, seq_pos, HereFirst.tag, Joined(items, HereFirst.items))
        \/ HereFirst = Refused /\ next = Unwound(seq_pos)
    BY <1>1, <1>7, <1>8, <2>1, TopRead
  <2>3. HereFirst = Said(TableOf(input), Goal(f, cursor, EndOf(seq_pos), current_tag))
    BY <1>1, <1>6, ResultOfRead
  <2> QED BY <1>3, <1>5, <2>2, <2>3, PassesReading, ResultKinds
<1> QED BY <1>1, <1>3, <1>4, <1>8, StepOne

LEMMA AmpPasses ==
  /\ Amp.call = "amp"
  /\ \A c, st : Passes(c, Amp, st, st)
BY DEF Passes, Amp

LEMMA ReadImplicitOn ==
  ASSUME Inv, Inv', Legible(input), ReadingInv, ReadImplicit
  PROVE  ReadingInv'
<1> DEFINE T == Top.type
           f == Read(T.of)
<1>1. frames # <<>> /\ status = "running" /\ T \in Types /\ T.kind = "implicit" /\ Top.call = "read"
  BY ReadingFacts DEF ReadImplicit, Reading
<1>2. T.of \in Types
  BY <1>1, DeserialiserAssumption DEF DeserialiserAssumption, WellFormed
<1>3. f \in Frames /\ f.call \in ReadingCalls /\ Amp \in Frames
  BY <1>2, ReadFrames, AmpFrame DEF Fitting, Read, ReadingCalls
<1>4. UNCHANGED <<input, limit, ex>> /\ status' = "running" /\ frames' = <<f, Amp>> \o Rest
  BY <1>1 DEF ReadImplicit, stream
<1>5. Now' = Running(cursor, seq_pos, Context(T.tag), items)
  BY <1>4, NowFacts DEF ReadImplicit, stream
<1>6. FirstRead(input.message, HereGoal) = Goal(f, cursor, EndOf(seq_pos), Context(T.tag))
  BY <1>1, HereFields DEF FirstRead
<1>7. HereResult = HereFirst
  BY <1>1, ResultOfRead, HereFields DEF OfRead
<1> HIDE DEF f
<1>8. ASSUME NEW next, Passes(input, Top, Now, next)
      PROVE  \E u : Passes(input, f, Now', u) /\ Passes(input, Amp, u, next)
  <2>1. Top.call \in ReadingCalls
    BY <1>1 DEF ReadingCalls
  <2>2. \/ /\ HereFirst.is = "got"
           /\ next = Running(HereFirst.at, seq_pos, HereFirst.tag, Joined(items, HereFirst.items))
        \/ HereFirst = Refused /\ next = Unwound(seq_pos)
    BY <1>1, <1>7, <1>8, <2>1, TopRead
  <2>3. HereFirst = Said(TableOf(input), Goal(f, cursor, EndOf(seq_pos), Context(T.tag)))
    BY <1>1, <1>6, ResultOfRead
  <2>4. Passes(input, f, Now', next)
    BY <1>3, <1>5, <2>2, <2>3, PassesReading, ResultKinds
  <2> QED BY <2>4, AmpPasses
<1> QED BY <1>1, <1>3, <1>4, <1>8, StepTwo

LEMMA ReadExplicitOn ==
  ASSUME Inv, Inv', Legible(input), ReadingInv, ReadExplicit
  PROVE  ReadingInv'
<1> DEFINE T == Top.type
           f == StartExplicit(T.tag, T.of)
<1>1. frames # <<>> /\ status = "running" /\ T \in Types /\ T.kind = "explicit" /\ Top.call = "read"
  BY ReadingFacts DEF ReadExplicit, Reading
<1>2. T.of \in Types /\ T.tag \in Nat
  BY <1>1, DeserialiserAssumption DEF DeserialiserAssumption, WellFormed
<1>3. f \in Frames /\ f.call \in ReadingCalls
  BY <1>2, StartExplicitFrame DEF Fitting, StartExplicit, ReadingCalls
<1>4. UNCHANGED <<input, limit, ex>> /\ status' = "running" /\ frames' = <<f>> \o Rest
  BY <1>1 DEF ReadExplicit, stream
<1>5. Now' = Running(cursor, seq_pos, current_tag, items)
  BY <1>4, NowFacts DEF ReadExplicit, stream
<1>6. T.of.kind # "optional"
  BY DEF ReadExplicit
<1>7. FirstRead(input.message, HereGoal) = Goal(f, cursor, EndOf(seq_pos), current_tag)
  BY <1>1, <1>6, HereFields DEF FirstRead
<1>8. HereResult = HereFirst
  BY <1>1, <1>6, ResultOfRead, HereFields DEF OfRead
<1> HIDE DEF f
<1>9. ASSUME NEW next, Passes(input, Top, Now, next)
      PROVE  Passes(input, f, Now', next)
  <2>1. Top.call \in ReadingCalls
    BY <1>1 DEF ReadingCalls
  <2>2. \/ /\ HereFirst.is = "got"
           /\ next = Running(HereFirst.at, seq_pos, HereFirst.tag, Joined(items, HereFirst.items))
        \/ HereFirst = Refused /\ next = Unwound(seq_pos)
    BY <1>1, <1>8, <1>9, <2>1, TopRead
  <2>3. HereFirst = Said(TableOf(input), Goal(f, cursor, EndOf(seq_pos), current_tag))
    BY <1>1, <1>7, ResultOfRead
  <2> QED BY <1>3, <1>5, <2>2, <2>3, PassesReading, ResultKinds
<1> QED BY <1>1, <1>3, <1>4, <1>9, StepOne

\* The guard of an optional, in front of which is read under a catch clause.
LEMMA GuardPasses ==
  ASSUME NEW c, NEW at, NEW ends, NEW tag, NEW rec
  PROVE  LET g == EndOptional(at, rec, Len(ends)) IN
         /\ \A st : ~st.thrown => Passes(c, g, st, st)
         /\ Passes(c, g, Unwound(ends), Running(at, ends, NoTag, Noted(rec, Absent)))
BY PlaceFields DEF Passes, EndOptional

LEMMA OptionalOutcome ==
  ASSUME NEW r \in Results, NEW res, res = OfOptional(HereGoal, r),
         NEW next, Inv,
         \/ res.is = "got" /\ next = Running(res.at, seq_pos, res.tag, Joined(items, res.items))
         \/ res = Refused /\ next = Unwound(seq_pos)
  PROVE  \/ /\ r.is = "got"
            /\ next = Running(r.at, seq_pos, r.tag, Joined(Record(Some), r.items))
         \/ r = Refused /\ next = Running(cursor, seq_pos, NoTag, Noted(items, Absent))
<1>1. items \in Seq(Items)
  BY DEF Inv
<1>2. Some \in Items /\ Absent \in Items
  BY ItemFacts
<1>3. CASE r = Refused
  <2>1. res = Got(cursor, NoTag, <<Absent>>)
    BY <1>3, HereFields DEF OfOptional
  <2>2. Joined(items, <<Absent>>) = Noted(items, Absent)
    BY <1>1, <1>2, JoinedOne
  <2> QED BY <1>3, <2>1, <2>2, ResultKinds
<1>4. CASE r # Refused
  <2>1. res = Behind(<<Some>>, r)
    BY <1>4 DEF OfOptional
  <2>2. r.is = "got" /\ res = Got(r.at, r.tag, <<Some>> \o r.items)
    BY <1>4, <2>1, BehindFacts, ResultKinds
  <2>3. r.items \in Seq(Items)
    BY <2>2 DEF Results, Refused, Unsaid
  <2>4. next = Running(r.at, seq_pos, r.tag, Joined(items, <<Some>> \o r.items))
    BY <2>2, ResultKinds
  <2>5. <<Some>> \in Seq(Items)
    <3> DEFINE x == Some
    <3>1. x \in Items
      BY <1>2
    <3> HIDE DEF x
    <3>2. <<x>> \in Seq(Items)
      BY <3>1
    <3> QED BY <3>2 DEF x
  <2>6. Joined(items, <<Some>>) = Record(Some)
    BY <1>1, <1>2, JoinedOne DEF Record
  <2>7. Joined(Joined(items, <<Some>>), r.items) = Joined(items, <<Some>> \o r.items)
    <3>1. \A one \in Seq(Items) : Joined(Joined(items, one), r.items) = Joined(items, one \o r.items)
      BY <1>1, <2>3, JoinedTwice
    <3> QED BY <2>5, <3>1
  <2> QED BY <2>2, <2>4, <2>6, <2>7
<1> QED BY <1>3, <1>4

LEMMA ReadOptionalOn ==
  ASSUME Inv, Inv', Legible(input), ReadingInv, ReadOptional
  PROVE  ReadingInv'
<1> DEFINE T == Top.type
           f == Read(T.of)
<1>1. frames # <<>> /\ status = "running" /\ T \in Types /\ T.kind = "optional" /\ Top.call = "read"
  BY ReadingFacts DEF ReadOptional, Reading
<1>2. T.of \in Types
  BY <1>1, DeserialiserAssumption DEF DeserialiserAssumption, WellFormed
<1>3. f \in Frames /\ f.call \in ReadingCalls /\ Amp \in Frames
  BY <1>2, ReadFrames, AmpFrame DEF Fitting, Read, ReadingCalls
<1>4. Guard \in Frames
  BY GuardFacts, <1>1 DEF Fitting
<1>5. UNCHANGED <<input, limit, ex>> /\ status' = "running" /\ frames' = <<f, Amp, Guard>> \o Rest
  BY <1>1 DEF ReadOptional, stream
<1>6. Now' = Running(cursor, seq_pos, current_tag, Record(Some))
  BY <1>5, NowFacts DEF ReadOptional, stream
<1>7. FirstRead(input.message, HereGoal) = Goal(f, cursor, EndOf(seq_pos), current_tag)
  BY <1>1, HereFields DEF FirstRead
<1>8. HereResult = OfOptional(HereGoal, HereFirst)
  BY <1>1, ResultOfRead, HereFields DEF OfRead
<1> HIDE DEF f
<1>9. ASSUME NEW next, Passes(input, Top, Now, next)
      PROVE  \E u, v : /\ Passes(input, f, Now', u)
                       /\ Passes(input, Amp, u, v)
                       /\ Passes(input, Guard, v, next)
  <2>1. Top.call \in ReadingCalls
    BY <1>1 DEF ReadingCalls
  <2>2. \/ /\ HereResult.is = "got"
           /\ next = Running(HereResult.at, seq_pos, HereResult.tag, Joined(items, HereResult.items))
        \/ HereResult = Refused /\ next = Unwound(seq_pos)
    BY <1>1, <1>9, <2>1, TopRead
  <2>3. \/ /\ HereFirst.is = "got"
           /\ next = Running(HereFirst.at, seq_pos, HereFirst.tag, Joined(Record(Some), HereFirst.items))
        \/ HereFirst = Refused /\ next = Running(cursor, seq_pos, NoTag, Noted(items, Absent))
    BY <1>8, <2>2, FirstTyped, OptionalOutcome
  <2>4. HereFirst = Said(TableOf(input), Goal(f, cursor, EndOf(seq_pos), current_tag))
    BY <1>1, <1>7, ResultOfRead
  <2>5. CASE HereFirst.is = "got"
    <3>1. next = Running(HereFirst.at, seq_pos, HereFirst.tag, Joined(Record(Some), HereFirst.items))
      BY <2>3, <2>5, ResultKinds
    <3>2. Passes(input, f, Now', next) /\ ~next.thrown
      BY <1>3, <1>6, <2>4, <2>5, <3>1, PassesReading, PlaceFields
    <3>3. Passes(input, Guard, next, next)
      BY <3>2, GuardPasses DEF Guard
    <3> QED BY <3>2, <3>3, AmpPasses
  <2>6. CASE HereFirst = Refused
    <3>1. next = Running(cursor, seq_pos, NoTag, Noted(items, Absent))
      BY <2>3, <2>6, ResultKinds
    <3>2. Passes(input, f, Now', Unwound(seq_pos))
      BY <1>3, <1>6, <2>4, <2>6, PassesRefused
    <3>3. Passes(input, Guard, Unwound(seq_pos), next)
      BY <3>1, GuardPasses DEF Guard
    <3> QED BY <3>2, <3>3, AmpPasses
  <2> QED BY <2>3, <2>5, <2>6
<1> QED BY <1>1, <1>3, <1>4, <1>5, <1>9, StepThree

LEMMA ReadExplicitOptionalOn ==
  ASSUME Inv, Inv', Legible(input), ReadingInv, ReadExplicitOptional
  PROVE  ReadingInv'
<1> DEFINE T == Top.type
           f == StartExplicit(T.tag, T.of.of)
<1>1. /\ frames # <<>> /\ status = "running" /\ T \in Types /\ T.kind = "explicit" /\ Top.call = "read"
      /\ T.of.kind = "optional"
  BY ReadingFacts DEF ReadExplicitOptional, Reading
<1>2. T.of.of \in Types /\ T.tag \in Nat
  BY <1>1, DeserialiserAssumption DEF DeserialiserAssumption, WellFormed
<1>3. f \in Frames /\ f.call \in ReadingCalls
  BY <1>2, StartExplicitFrame DEF Fitting, StartExplicit, ReadingCalls
<1>4. Guard \in Frames
  BY GuardFacts, <1>1 DEF Fitting
<1>5. UNCHANGED <<input, limit, ex>> /\ status' = "running" /\ frames' = <<f, Guard>> \o Rest
  BY <1>1 DEF ReadExplicitOptional, stream
<1>6. Now' = Running(cursor, seq_pos, current_tag, Record(Some))
  BY <1>5, NowFacts DEF ReadExplicitOptional, stream
<1>7. FirstRead(input.message, HereGoal) = Goal(f, cursor, EndOf(seq_pos), current_tag)
  BY <1>1, HereFields DEF FirstRead
<1>8. HereResult = OfOptional(HereGoal, HereFirst)
  BY <1>1, ResultOfRead, HereFields DEF OfRead
<1> HIDE DEF f
<1>9. ASSUME NEW next, Passes(input, Top, Now, next)
      PROVE  \E u : Passes(input, f, Now', u) /\ Passes(input, Guard, u, next)
  <2>1. Top.call \in ReadingCalls
    BY <1>1 DEF ReadingCalls
  <2>2. \/ /\ HereResult.is = "got"
           /\ next = Running(HereResult.at, seq_pos, HereResult.tag, Joined(items, HereResult.items))
        \/ HereResult = Refused /\ next = Unwound(seq_pos)
    BY <1>1, <1>9, <2>1, TopRead
  <2>3. \/ /\ HereFirst.is = "got"
           /\ next = Running(HereFirst.at, seq_pos, HereFirst.tag, Joined(Record(Some), HereFirst.items))
        \/ HereFirst = Refused /\ next = Running(cursor, seq_pos, NoTag, Noted(items, Absent))
    BY <1>8, <2>2, FirstTyped, OptionalOutcome
  <2>4. HereFirst = Said(TableOf(input), Goal(f, cursor, EndOf(seq_pos), current_tag))
    BY <1>1, <1>7, ResultOfRead
  <2>5. CASE HereFirst.is = "got"
    <3>1. next = Running(HereFirst.at, seq_pos, HereFirst.tag, Joined(Record(Some), HereFirst.items))
      BY <2>3, <2>5, ResultKinds
    <3>2. Passes(input, f, Now', next) /\ ~next.thrown
      BY <1>3, <1>6, <2>4, <2>5, <3>1, PassesReading, PlaceFields
    <3>3. Passes(input, Guard, next, next)
      BY <3>2, GuardPasses DEF Guard
    <3> QED BY <3>2, <3>3
  <2>6. CASE HereFirst = Refused
    <3>1. next = Running(cursor, seq_pos, NoTag, Noted(items, Absent))
      BY <2>3, <2>6, ResultKinds
    <3>2. Passes(input, f, Now', Unwound(seq_pos))
      BY <1>3, <1>6, <2>4, <2>6, PassesRefused
    <3>3. Passes(input, Guard, Unwound(seq_pos), next)
      BY <3>1, GuardPasses DEF Guard
    <3> QED BY <3>2, <3>3
  <2> QED BY <2>3, <2>5, <2>6
<1> QED BY <1>1, <1>3, <1>4, <1>5, <1>9, StepTwo

\* One value, then the others.
LEMMA InTurnPasses ==
  ASSUME Inv, Legible(input), status = "running", Top.call \in ReadingCalls,
         HereResult = InTurn(HereFirst, HereSecond),
         NEW f, f.call \in ReadingCalls,
         HereFirst = Said(TableOf(input), Goal(f, cursor, EndOf(seq_pos), current_tag)),
         NEW g, g.call \in ReadingCalls,
         HereSecond = Said(TableOf(input), Goal(g, HereFirst.at, EndOf(seq_pos), HereFirst.tag)),
         NEW next, Passes(input, Top, Now, next)
  PROVE  \E u, v : /\ Passes(input, f, Running(cursor, seq_pos, current_tag, items), u)
                   /\ Passes(input, Amp, u, v)
                   /\ Passes(input, g, v, next)
<1> DEFINE r == HereFirst
           q == HereSecond
           st == Running(cursor, seq_pos, current_tag, items)
<1>1. r \in Results /\ (r.is = "got" => r.items \in Seq(Items)) /\ (r.is = "refused" => r = Refused)
  BY FirstTyped
<1>2. q \in Results /\ (q.is = "got" => q.items \in Seq(Items)) /\ (q.is = "refused" => q = Refused)
  BY FirstTyped
<1>3. items \in Seq(Items)
  BY DEF Inv
<1>4. \/ /\ HereResult.is = "got"
         /\ next = Running(HereResult.at, seq_pos, HereResult.tag, Joined(items, HereResult.items))
      \/ HereResult = Refused /\ next = Unwound(seq_pos)
  BY TopRead
<1>5. CASE r.is = "got"
  <2>1. HereResult = Behind(r.items, q)
    BY <1>5 DEF InTurn
  <2> DEFINE u == Running(r.at, seq_pos, r.tag, Joined(items, r.items))
  <2>2. Passes(input, f, st, u)
    BY <1>5, PassesReading
  <2>3. CASE q.is = "got"
    <3>1. next = Running(q.at, seq_pos, q.tag, Joined(items, r.items \o q.items))
      BY <1>2, <1>4, <2>1, <2>3, BehindFacts, ResultKinds
    <3>2. Joined(Joined(items, r.items), q.items) = Joined(items, r.items \o q.items)
      BY <1>1, <1>2, <1>3, <1>5, <2>3, JoinedTwice
    <3>3. Passes(input, g, u, next)
      BY <2>3, <3>1, <3>2, PassesReading
    <3> QED BY <2>2, <3>3, AmpPasses
  <2>4. CASE q.is # "got"
    <3>1. q = Refused /\ next = Unwound(seq_pos)
      BY <1>2, <1>4, <2>1, <2>4, BehindFacts
    <3>2. q.is = "refused"
      BY <3>1, ResultKinds
    <3>3. q = Said(TableOf(input), Goal(g, r.at, EndOf(seq_pos), r.tag))
      OBVIOUS
    <3> HIDE DEF r, q
    <3>4. Passes(input, g, u, next)
      BY <3>1, <3>2, <3>3, PassesReading
    <3> QED BY <2>2, <3>4, AmpPasses
  <2> QED BY <2>3, <2>4
<1>6. CASE r.is # "got"
  <2>1. r = Refused /\ next = Unwound(seq_pos)
    BY <1>1, <1>4, <1>6 DEF InTurn
  <2>2. Passes(input, f, st, Unwound(seq_pos))
    BY <2>1, PassesRefused
  <2>3. Passes(input, g, Unwound(seq_pos), Unwound(seq_pos))
    BY PlaceFields DEF Passes, ReadingCalls
  <2> QED BY <2>1, <2>2, <2>3, AmpPasses
<1> QED BY <1>5, <1>6

LEMMA NextFieldOn ==
  ASSUME Inv, Inv', Legible(input), ReadingInv, NextField
  PROVE  ReadingInv'
<1> DEFINE ts == Top.types
           f == Read(Head(ts))
           g == Fields(Tail(ts))
<1>1. frames # <<>> /\ status = "running" /\ Top.call = "fields"
  BY DEF NextField, running
<1>2. ts \in Seq(Types)
  BY <1>1, TopFacts, FrameParts
<1>3. UNCHANGED <<input, limit, ex>> /\ status' = "running"
  BY <1>1 DEF NextField, stream
<1>4. Now' = Running(cursor, seq_pos, current_tag, items)
  BY <1>3, NowFacts DEF NextField, stream
<1>5. Top.call \in ReadingCalls
  BY <1>1 DEF ReadingCalls
<1>6. items \in Seq(Items)
  BY DEF Inv
<1>7. HereResult = OfFields(HereGoal, HereFirst, HereSecond)
  BY <1>1, HereFields DEF HereResult, Result
<1>8. CASE ts = <<>>
  <2>1. frames' = Rest
    <3>1. frames' = <<>> \o Rest
      BY <1>8 DEF NextField
    <3>2. Rest \in Seq(Fitting)
      BY <1>1, TopFacts
    <3> QED BY <3>1, <3>2
  <2>2. ASSUME NEW next, Passes(input, Top, Now, next)
        PROVE  Now' = next
    <3>1. HereResult = Got(cursor, current_tag, <<>>)
      BY <1>7, <1>8, HereFields DEF OfFields
    <3>2. next = Running(cursor, seq_pos, current_tag, Joined(items, <<>>))
      BY <1>1, <1>5, <2>2, <3>1, TopRead, ResultKinds
    <3> QED BY <1>4, <1>6, <3>2, JoinedNone
  <2> QED BY <1>1, <1>3, <2>1, <2>2, StepOver
<1>9. CASE ts # <<>>
  <2>1. Head(ts) \in Types /\ Tail(ts) \in Seq(Types)
    BY <1>2, <1>9, PopIndices
  <2>2. /\ f \in Frames /\ f.call \in ReadingCalls
        /\ g \in Frames /\ g.call \in ReadingCalls
        /\ Amp \in Frames
    BY <2>1, ReadFrames, FieldsFrame, AmpFrame DEF Fitting, Read, Fields, ReadingCalls
  <2>3. frames' = <<f, Amp, g>> \o Rest
    BY <1>9 DEF NextField
  <2>4. HereResult = InTurn(HereFirst, HereSecond)
    BY <1>7, <1>9, HereFields DEF OfFields
  <2>5. HereFirst = Said(TableOf(input), Goal(f, cursor, EndOf(seq_pos), current_tag))
    BY <1>1, HereFields DEF HereFirst, First
  <2>6. HereSecond = Said(TableOf(input), Goal(g, HereFirst.at, EndOf(seq_pos), HereFirst.tag))
    BY <1>1, HereFields DEF HereSecond, Second, Others
  <2> HIDE DEF f, g
  <2>7. ASSUME NEW next, Passes(input, Top, Now, next)
        PROVE  \E u, v : /\ Passes(input, f, Now', u)
                         /\ Passes(input, Amp, u, v)
                         /\ Passes(input, g, v, next)
    BY <1>1, <1>4, <1>5, <2>2, <2>4, <2>5, <2>6, <2>7, InTurnPasses
  <2> QED BY <1>1, <1>3, <2>2, <2>3, <2>7, StepThree
<1> QED BY <1>8, <1>9

LEMMA NextElementOn ==
  ASSUME Inv, Inv', Legible(input), ReadingInv, NextElement
  PROVE  ReadingInv'
<1> DEFINE f == Read(Top.type)
           g == Top
<1>1. frames # <<>> /\ status = "running" /\ Top.call = "loop"
  BY DEF NextElement, running
<1>2. Top.type \in Types /\ Top \in Frames /\ Rest \in Seq(Fitting)
  BY <1>1, TopFacts, FrameParts
<1>3. UNCHANGED <<input, limit, ex>> /\ status' = "running"
  BY <1>1 DEF NextElement, stream
<1>4. Now' = Running(cursor, seq_pos, current_tag, items')
  BY <1>3, NowFacts DEF NextElement, stream
<1>5. Top.call \in ReadingCalls
  BY <1>1 DEF ReadingCalls
<1>6. items \in Seq(Items)
  BY DEF Inv
<1>7. HereResult = OfLoop(HereGoal, HereFirst, HereSecond)
  BY <1>1, HereFields DEF HereResult, Result
<1>8. AtEnd(HereGoal) <=> is_end_of_sequence
  BY HereFacts DEF ReadingInv
<1>9. CASE is_end_of_sequence
  <2>1. frames' = Rest /\ items' = Record(End)
    BY <1>9 DEF NextElement
  <2>2. ASSUME NEW next, Passes(input, Top, Now, next)
        PROVE  Now' = next
    <3>1. HereResult = Got(cursor, current_tag, <<End>>)
      BY <1>7, <1>8, <1>9, HereFields DEF OfLoop
    <3>2. next = Running(cursor, seq_pos, current_tag, Joined(items, <<End>>))
      BY <1>1, <1>5, <2>2, <3>1, TopRead, ResultKinds
    <3>3. End \in Items
      BY ItemFacts
    <3> QED BY <1>4, <1>6, <2>1, <3>2, <3>3, JoinedOne DEF Record
  <2> QED BY <1>1, <1>3, <2>1, <2>2, StepOver
<1>10. CASE ~is_end_of_sequence
  <2>1. /\ f \in Frames /\ f.call \in ReadingCalls
        /\ Amp \in Frames
    BY <1>2, ReadFrames, AmpFrame DEF Fitting, Read, ReadingCalls
  <2>2. frames' = <<f, Amp>> \o frames /\ items' = items
    BY <1>10 DEF NextElement
  <2>3. frames' = <<f, Amp, g>> \o Rest
    <3>1. frames = <<Top>> \o Rest /\ frames \in Seq(Fitting)
      <4>1. frames \in Seq(Fitting)
        BY StackFacts
      <4> QED BY <1>1, <4>1 DEF Top, Rest
    <3>2. Rest \in Seq(Frames)
      BY <1>2, SeqWider DEF Fitting
    <3> HIDE DEF f
    <3>3. f \in Frames /\ Amp \in Frames /\ g \in Frames
      BY <1>2, <2>1
    <3> HIDE DEF g
    <3>4. <<g>> \o Rest \in Seq(Frames) /\ <<Amp, g>> \o Rest = <<Amp>> \o (<<g>> \o Rest)
      BY ONLY <3>2, <3>3, TwoFrames, SMTT(30)
    <3>5. <<f, Amp>> \o (<<g>> \o Rest) = <<f>> \o (<<Amp>> \o (<<g>> \o Rest))
      BY ONLY <3>3, <3>4, TwoFrames, SMTT(30)
    <3>6. <<f, Amp, g>> \o Rest = <<f>> \o (<<Amp, g>> \o Rest)
      BY ONLY <3>2, <3>3, ThreeFrames, SMTT(40)
    <3>7. frames' = <<f, Amp>> \o (<<g>> \o Rest)
      BY <2>2, <3>1 DEF g
    <3> QED BY ONLY <3>4, <3>5, <3>6, <3>7
  <2>4. HereResult = InTurn(HereFirst, HereSecond)
    BY <1>7, <1>8, <1>10 DEF OfLoop
  <2>5. HereFirst = Said(TableOf(input), Goal(f, cursor, EndOf(seq_pos), current_tag))
    BY <1>1, HereFields DEF HereFirst, First
  <2>6. HereSecond = Said(TableOf(input), Goal(g, HereFirst.at, EndOf(seq_pos), HereFirst.tag))
    BY <1>1, HereFields DEF HereSecond, Second, Others
  <2> HIDE DEF f
  <2>7. ASSUME NEW next, Passes(input, Top, Now, next)
        PROVE  \E u, v : /\ Passes(input, f, Now', u)
                         /\ Passes(input, Amp, u, v)
                         /\ Passes(input, g, v, next)
    <3>1. Now' = Running(cursor, seq_pos, current_tag, items)
      BY <1>4, <2>2
    <3> QED BY <1>1, <1>5, <2>1, <2>4, <2>5, <2>6, <2>7, <3>1, InTurnPasses
  <2> QED BY <1>1, <1>2, <1>3, <2>1, <2>3, <2>7, StepThree
<1> QED BY <1>9, <1>10

-----------------------------------------------------------------------------

LEMMA AmpersandOn ==
  ASSUME Inv, ReadingInv, Ampersand
  PROVE  ReadingInv'
<1>1. frames # <<>> /\ status = "running" /\ Top.call = "amp" /\ frames' = Rest
  BY DEF Ampersand, running
<1>2. ~ex /\ ex' = ex /\ status' = "running" /\ UNCHANGED <<input, limit>>
  BY DEF Ampersand, ReadingInv, stream, Inv
<1>3. Now' = Now
  BY <1>1, <1>2, NowFacts DEF Ampersand, stream
<1>4. ASSUME NEW next, Passes(input, Top, Now, next)
      PROVE  Now' = next
  BY <1>1, <1>3, <1>4 DEF Passes
<1> QED BY <1>1, <1>2, <1>4, StepOver

LEMMA KeepOptionalOn ==
  ASSUME Inv, ReadingInv, KeepOptional
  PROVE  ReadingInv'
<1>1. frames # <<>> /\ status = "running" /\ Top.call = "end optional" /\ frames' = Rest
  BY DEF KeepOptional, running
<1>2. ex' = ex /\ status' = "running" /\ UNCHANGED <<input, limit>>
  BY <1>1 DEF KeepOptional, stream
<1>3. Now' = Now /\ ~Now.thrown
  <2>1. Now = Running(cursor, seq_pos, current_tag, items)
    BY <1>1, NowFacts
  <2>2. Now' = Running(cursor, seq_pos, current_tag, items)
    BY <1>2, NowFacts DEF KeepOptional, stream
  <2> QED BY <2>1, <2>2, PlaceFields
<1>4. ASSUME NEW next, Passes(input, Top, Now, next)
      PROVE  Now' = next
  BY <1>1, <1>3, <1>4 DEF Passes
<1> QED BY <1>1, <1>2, <1>4, StepOver

LEMMA CatchOptionalOn ==
  ASSUME Inv, ReadingInv, CatchOptional
  PROVE  ReadingInv'
<1>1. frames # <<>> /\ status = "throwing" /\ Top.call = "end optional" /\ frames' = Rest
  BY DEF CatchOptional
<1>2. status' = "running" /\ UNCHANGED <<input, limit, ex, current_tag, seq_pos>>
  BY DEF CatchOptional
<1>3. current_tag = NoTag
  BY <1>1 DEF ReadingInv
<1>4. Now' = Running(Top.mark, seq_pos, NoTag, Noted(Top.items, Absent))
  BY <1>2, <1>3, NowFacts DEF CatchOptional
<1>5. Now = Unwound(seq_pos) /\ Now.thrown /\ Now.ends = seq_pos
  BY <1>1, NowFacts, PlaceFields
<1>6. ASSUME NEW next, Passes(input, Top, Now, next)
      PROVE  Now' = next
  BY <1>1, <1>4, <1>5, <1>6 DEF Passes
<1> QED BY <1>1, <1>2, <1>6, StepOver

LEMMA UnwindOn ==
  ASSUME Inv, ReadingInv, Unwind
  PROVE  ReadingInv'
<1>1. /\ frames # <<>> /\ status = "throwing" /\ frames' = Rest
      /\ Top.call \notin {"end sequence", "end optional"}
  BY DEF Unwind
<1>2. status' = "throwing" /\ UNCHANGED <<input, limit, ex, current_tag, seq_pos>>
  BY <1>1 DEF Unwind, stream
<1>3. current_tag' = NoTag
  BY <1>1, <1>2 DEF ReadingInv
<1>4. Now = Unwound(seq_pos) /\ Now.thrown /\ Now' = Now
  BY <1>1, <1>2, NowFacts, PlaceFields
<1>5. Top.call \in ReadingCalls \cup {"amp", "end explicit"}
  <2>1. Top \in Frames
    BY <1>1, TopFacts
  <2>2. Top.call \in {"read", "loop", "fields", "amp", "start explicit", "end sequence",
                      "end explicit", "end optional"}
    BY <2>1 DEF Frames
  <2> QED BY <1>1, <2>2 DEF ReadingCalls
<1>6. ASSUME NEW next, Passes(input, Top, Now, next)
      PROVE  Now' = next
  <2>1. CASE Top.call \in ReadingCalls
    BY <1>4, <1>6, <2>1 DEF Passes, ReadingCalls
  <2>2. CASE Top.call = "amp"
    BY <1>4, <1>6, <2>2 DEF Passes
  <2>3. CASE Top.call = "end explicit"
    BY <1>4, <1>6, <2>3 DEF Passes
  <2> QED BY <1>5, <2>1, <2>2, <2>3
<1> QED BY <1>1, <1>2, <1>3, <1>6, StepOver

\* A scope that ends where the message does at the latest is closed.
LEMMA PopOn ==
  ASSUME Inv, ReadingInv, frames # <<>>, status \in {"running", "throwing"},
         Top.call \in Closers, Pop, NEW next, Passes(input, Top, Now, next)
  PROVE  /\ ~PopFails
         /\ seq_pos' = Tail(seq_pos) /\ cursor' = Larger(cursor, Head(seq_pos)) /\ limit' = limit
         /\ status = "running" =>
              next = Running(Larger(cursor, Head(seq_pos)), Tail(seq_pos), current_tag, items)
         /\ status = "throwing" => Top.call = "end sequence" /\ next = Unwound(Tail(seq_pos))
<1>1. Now.ends = seq_pos
  BY NowFacts, PlaceFields
<1>2. Now.ends # <<>> /\ Now.ends[1] <= Len(input.message)
  BY DEF Passes, Closers
<1>3. Head(seq_pos) = seq_pos[1] /\ Head(seq_pos) \in Nat
  BY <1>1, <1>2, StackFacts, PopIndices DEF Ends
<1>4. Head(seq_pos) <= limit /\ limit \in Nat
  BY <1>1, <1>2, <1>3, StreamFacts DEF ReadingInv
<1>5. ~(Head(seq_pos) > limit)
  BY <1>3, <1>4
<1>6. seq_pos' = Tail(seq_pos) /\ cursor' = Larger(cursor, Head(seq_pos)) /\ limit' = limit
  BY <1>5 DEF Pop, Take
<1>7. ASSUME status = "running"
      PROVE  next = Running(Larger(cursor, Head(seq_pos)), Tail(seq_pos), current_tag, items)
  <2>1. ~Now.thrown /\ Now.at = cursor /\ Now.tag = current_tag /\ Now.items = items
    BY <1>7, NowFacts, PlaceFields
  <2>2. next = Running(Larger(Now.at, Now.ends[1]), Tail(Now.ends), Now.tag, Now.items)
    BY <2>1 DEF Passes, Closers
  <2> QED BY <1>1, <1>3, <2>1, <2>2
<1>8. ASSUME status = "throwing"
      PROVE  Top.call = "end sequence" /\ next = Unwound(Tail(seq_pos))
  <2>1. Now.thrown
    BY <1>8, NowFacts, PlaceFields
  <2>2. Top.call = "end sequence"
    BY <2>1 DEF Passes, Closers
  <2>3. next = Unwound(Tail(Now.ends))
    BY <2>1, <2>2 DEF Passes
  <2> QED BY <1>1, <2>2, <2>3
<1> QED BY <1>5, <1>6, <1>7, <1>8 DEF PopFails

LEMMA CloseSequenceOn ==
  ASSUME Inv, ReadingInv, CloseSequence
  PROVE  ReadingInv'
<1>1. /\ frames # <<>> /\ status \in {"running", "throwing"} /\ frames' = Rest
      /\ Top.call \in Closers /\ Pop
  BY DEF CloseSequence, Closers
<1>2. PICK next : Passes(input, Top, Now, next)
  <2>1. OnWay /\ frames \in Seq(Fitting)
    BY <1>1, StackFacts DEF ReadingInv
  <2> QED BY <1>1, <2>1, ReachesRest DEF OnWay, Top
<1>3. ~PopFails /\ limit' = limit
  BY <1>1, <1>2, PopOn
<1>4. UNCHANGED <<input, limit, ex, current_tag, status, items>>
  <2>1. ex \in BOOLEAN /\ ex' = (ex \/ PopFails)
    BY DEF Inv, CloseSequence
  <2> QED BY <1>3, <2>1 DEF CloseSequence
<1>5. status' = "throwing" => current_tag' = NoTag
  BY <1>4 DEF ReadingInv
<1>6. ASSUME NEW after, Passes(input, Top, Now, after)
      PROVE  Now' = after
  <2>1. seq_pos' = Tail(seq_pos) /\ cursor' = Larger(cursor, Head(seq_pos))
    BY <1>1, <1>6, PopOn
  <2>2. CASE status = "running"
    <3>1. after = Running(Larger(cursor, Head(seq_pos)), Tail(seq_pos), current_tag, items)
      BY <1>1, <1>6, <2>2, PopOn
    <3>2. Now' = Running(cursor', seq_pos', current_tag', items')
      BY <1>4, <2>2, NowFacts
    <3> QED BY <1>4, <2>1, <3>1, <3>2
  <2>3. CASE status = "throwing"
    <3>1. after = Unwound(Tail(seq_pos))
      BY <1>1, <1>6, <2>3, PopOn
    <3>2. Now' = Unwound(seq_pos')
      BY <1>4, <2>3, NowFacts
    <3> QED BY <2>1, <3>1, <3>2
  <2> QED BY <1>1, <2>2, <2>3
<1> QED BY <1>1, <1>4, <1>5, <1>6, StepOver

LEMMA CloseExplicitOn ==
  ASSUME Inv, ReadingInv, CloseExplicit
  PROVE  ReadingInv'
<1>1. /\ frames # <<>> /\ status = "running" /\ frames' = Rest
      /\ Top.call \in Closers /\ Pop
  BY DEF CloseExplicit, Closers, running
<1>2. PICK next : Passes(input, Top, Now, next)
  <2>1. OnWay /\ frames \in Seq(Fitting)
    BY <1>1, StackFacts DEF ReadingInv
  <2> QED BY <1>1, <2>1, ReachesRest DEF OnWay, Top
<1>3. ~PopFails /\ limit' = limit
  BY <1>1, <1>2, PopOn
<1>4. UNCHANGED <<input, limit, ex, current_tag, items>> /\ status' = "running"
  BY <1>3 DEF CloseExplicit
<1>5. ASSUME NEW after, Passes(input, Top, Now, after)
      PROVE  Now' = after
  <2>1. /\ seq_pos' = Tail(seq_pos) /\ cursor' = Larger(cursor, Head(seq_pos))
        /\ after = Running(Larger(cursor, Head(seq_pos)), Tail(seq_pos), current_tag, items)
    BY <1>1, <1>5, PopOn
  <2>2. Now' = Running(cursor', seq_pos', current_tag', items')
    BY <1>4, NowFacts
  <2> QED BY <1>4, <2>1, <2>2
<1> QED BY <1>1, <1>4, <1>5, StepOver

LEMMA ReturnOn ==
  ASSUME Inv, ReadingInv, Return
  PROVE  ReadingInv'
<1>1. /\ frames = <<>> /\ UNCHANGED <<input, limit, ex, items>>
      /\ \/ status = "running" /\ status' = "done"
         \/ status = "throwing" /\ status' = "failed"
  BY DEF Return, stream
<1>2. PICK goal : ~goal.thrown /\ goal.items = input.expected /\ Reaches(input, frames, Now, goal)
  BY <1>1 DEF ReadingInv, OnWay
<1>3. Now = goal
  BY <1>1, <1>2, ReachesNone
<1>4. status = "running"
  BY <1>1, <1>2, <1>3, NowFacts, PlaceFields
<1>5. items = input.expected
  BY <1>2, <1>3, <1>4, NowFacts, PlaceFields
<1> QED BY <1>1, <1>4, <1>5 DEF ReadingInv

LEMMA StutterOn ==
  ASSUME ReadingInv, UNCHANGED vars
  PROVE  ReadingInv'
<1>1. UNCHANGED <<input, limit, ex, frames, status, current_tag, items, seq_pos, cursor>>
  BY DEF vars, stream
<1>2. Now' = Now
  BY <1>1 DEF Now, Unwound, Running
<1>3. OnWay' <=> OnWay
  BY <1>1, <1>2 DEF OnWay
<1> QED BY <1>1, <1>3 DEF ReadingInv

-----------------------------------------------------------------------------

\* The call on top throws where nothing is to be read by the table.
LEMMA StepThrows ==
  ASSUME Inv, Legible(input), ReadingInv, status = "running", frames # <<>>,
         Top.call \in ReadingCalls, HereResult.is # "got",
         UNCHANGED <<input, limit, ex, seq_pos>>, frames' = Rest,
         \/ status' = "throwing" /\ current_tag' = NoTag
         \/ status' = "misaligned"
  PROVE  ReadingInv'
<1>1. CASE status' = "throwing"
  <2>1. ASSUME NEW next, Passes(input, Top, Now, next)
        PROVE  Now' = next
    <3>1. next = Unwound(seq_pos)
      BY <2>1, TopRead
    <3>2. Now' = Unwound(seq_pos')
      BY <1>1, NowFacts
    <3> QED BY <3>1, <3>2
  <2> QED BY <1>1, <2>1, StepOver
<1>2. CASE status' = "misaligned"
  BY <1>2 DEF ReadingInv
<1> QED BY <1>1, <1>2

LEMMA HeaderFailsStatus ==
  ASSUME NEW t, HeaderFails(t)
  PROVE  /\ ~Matches(t) /\ frames' = Rest /\ status' \in {"throwing", "misaligned"}
         /\ limit' = limit
BY DEF HeaderFails, stream, Take

\* A scope is opened, in it f is called and e closes it again.
LEMMA ScopeOpens ==
  ASSUME Inv, Inv', Legible(input), ReadingInv, status = "running", frames # <<>>,
         Top.call \in ReadingCalls,
         UNCHANGED <<input, ex>>,
         NEW t, NEW f, f.call \in ReadingCalls,
         HereFirst = Said(TableOf(input),
                          Goal(f, cursor + 1, <<ValueEnd(input.message, HereGoal)>>, current_tag')),
         Matches(t), Cell.constructed, Take(cursor + 1),
         seq_pos' = <<cursor + 1 + Cell.len>> \o seq_pos, status' = "running",
         NEW next,
         LET res == Skipped(input.message, HereGoal, HereFirst) IN
         \/ res.is = "got" /\ next = Running(res.at, seq_pos, res.tag, Joined(items', res.items))
         \/ res = Refused /\ next = Unwound(seq_pos)
  PROVE  \E u : /\ Passes(input, f, Now', u)
                /\ \A e : e.call = "end sequence" \/ (e.call = "end explicit" /\ HereFirst # Refused)
                            => Passes(input, e, u, next)
<1> DEFINE r == HereFirst
           tag == current_tag'
           rec == items'
           end == cursor + 1 + Cell.len
           res == Skipped(input.message, HereGoal, r)
           u == IF r.is = "got" THEN Running(r.at, seq_pos', r.tag, Joined(rec, r.items))
                ELSE Unwound(seq_pos')
<1>0. r \in Results
  BY FirstTyped
<1>1. ValueEnd(input.message, HereGoal) = end
  BY HereFields, HereFacts DEF ValueEnd, ReadingInv
<1>2. end \in Nat
  <2>1. cursor \in Nat /\ Cell \in Cells /\ Cell.is = "header"
    BY CellHere, MessageFacts, StreamFacts DEF Matches
  <2>2. Cell.len \in Nat
    BY <2>1 DEF Cells
  <2> QED BY <2>1, <2>2
<1>3. seq_pos \in Seq(Nat)
  BY StackFacts, SeqWider DEF Ends
<1> HIDE DEF end
<1>4. /\ seq_pos' # <<>> /\ seq_pos'[1] = end /\ Tail(seq_pos') = seq_pos
      /\ EndOf(seq_pos') = <<end>>
  <2>1. seq_pos' = <<end>> \o seq_pos
    BY DEF end
  <2>2. seq_pos' # <<>> /\ seq_pos'[1] = end /\ Tail(seq_pos') = seq_pos
    BY <1>2, <1>3, <2>1
  <2> QED BY <2>2 DEF EndOf
<1>5. r.is \in {"got", "refused", "unsaid"} /\ (r.is = "refused" => r = Refused) /\ (r.is = "unsaid" => r = Unsaid)
  BY <1>0 DEF Results, Refused, Unsaid
<1>6. end <= Len(input.message) /\ r.is # "unsaid"
  <2>1. res # Unsaid
    BY ResultKinds
  <2>2. ~(end > Len(input.message)) /\ r # Unsaid
    BY <1>1, <2>1, ResultKinds DEF Skipped
  <2>3. Len(input.message) \in Nat
    BY MessageFacts
  <2> QED BY <1>2, <1>5, <2>2, <2>3
<1>7. Now' = Running(cursor + 1, seq_pos', tag, rec)
  BY NowFacts DEF Take
<1>8. Passes(input, f, Now', u)
  <2>1. r = Said(TableOf(input), Goal(f, cursor + 1, EndOf(seq_pos'), tag))
    BY <1>1, <1>4
  <2>2. CASE r.is = "got"
    BY <1>7, <2>1, <2>2, PassesReading
  <2>3. CASE r.is = "refused"
    BY <1>7, <2>1, <2>3, PassesReading
  <2> QED BY <1>5, <1>6, <2>2, <2>3
<1>9. ASSUME NEW e, e.call = "end sequence" \/ (e.call = "end explicit" /\ r # Refused)
      PROVE  Passes(input, e, u, next)
  <2>1. ~(ValueEnd(input.message, HereGoal) > Len(input.message))
    <3>1. Len(input.message) \in Nat
      BY MessageFacts
    <3> QED BY <1>1, <1>2, <1>6, <3>1
  <2>2. CASE r.is = "got"
    <3>1. res = Got(Larger(r.at, end), r.tag, r.items)
      BY <1>1, <2>1, <2>2 DEF Skipped
    <3>2. next = Running(Larger(r.at, end), seq_pos, r.tag, Joined(rec, r.items))
      BY <3>1, ResultKinds
    <3>3. u = Running(r.at, seq_pos', r.tag, Joined(rec, r.items))
      BY <2>2
    <3> HIDE DEF u
    <3>4. /\ ~u.thrown /\ u.at = r.at /\ u.ends = seq_pos' /\ u.tag = r.tag
          /\ u.items = Joined(rec, r.items)
      BY <3>3 DEF Running
    <3> QED BY <1>4, <1>6, <1>9, <3>2, <3>4 DEF Passes
  <2>3. CASE r.is = "refused"
    <3>1. r = Refused /\ e.call = "end sequence"
      BY <1>5, <1>9, <2>3
    <3>2. next = Unwound(seq_pos)
      BY <2>1, <3>1, ResultKinds DEF Skipped
    <3>3. u = Unwound(seq_pos') /\ u.thrown /\ u.ends = seq_pos'
      BY <2>3, PlaceFields
    <3> HIDE DEF u
    <3> QED BY <1>4, <1>6, <3>1, <3>2, <3>3 DEF Passes
  <2> QED BY <1>5, <1>6, <2>2, <2>3
<1> QED BY <1>8, <1>9

LEMMA TagHere ==
  ASSUME NEW default
  PROVE  OwnTag(HereGoal, default) = TagOr(default)
BY HereFields DEF OwnTag, TagOr

\* A sequence or a container: both enclose what they read.
LEMMA EnclosedOn ==
  ASSUME Inv, Inv', Legible(input), ReadingInv, status = "running", frames # <<>>, Top.call = "read",
         UNCHANGED <<input, ex>>,
         NEW t, NEW f \in Frames, f.call \in ReadingCalls, NEW before \in Seq(Items),
         HereFirst = Said(TableOf(input), Goal(f, cursor + 1, <<ValueEnd(input.message, HereGoal)>>, NoTag)),
         HereResult = OfScope(input.message, HereGoal, t, Behind(before, HereFirst)),
         OpenScope(t, <<f, EndSequence(Depth)>>),
         current_tag' = NoTag, items' = Joined(items, before)
  PROVE  ReadingInv'
<1> DEFINE r == HereFirst
           b == Behind(before, r)
           e == EndSequence(Depth)
           m == input.message
<1>1. limit = Len(m) /\ items \in Seq(Items)
  BY DEF ReadingInv, Inv
<1>2. Opens(m, HereGoal, t) <=> Matches(t) /\ Cell.constructed
  BY <1>1, HereFacts
<1>3. Top.call \in ReadingCalls
  BY DEF ReadingCalls
<1>4. CASE Matches(t) /\ Cell.constructed
  <2>1. /\ Take(cursor + 1) /\ seq_pos' = <<cursor + 1 + Cell.len>> \o seq_pos
        /\ frames' = <<f, e>> \o Rest /\ status' = "running"
    BY <1>4 DEF OpenScope, HeaderFails
  <2>2. limit' = limit
    BY <2>1 DEF Take
  <2>3. e \in Frames /\ e.call = "end sequence"
    <3>1. Depth \in Nat
      BY DepthFacts
    <3> QED BY <3>1, ClosingFrames DEF Fitting, EndSequence
  <2>4. HereResult = Skipped(m, HereGoal, b)
    BY <1>2, <1>4 DEF OfScope
  <2> HIDE DEF e
  <2>5. ASSUME NEW next, Passes(input, Top, Now, next)
        PROVE  \E u : Passes(input, f, Now', u) /\ Passes(input, e, u, next)
    <3> DEFINE res == Skipped(m, HereGoal, r)
               rec == Joined(items, before)
    <3>1. \/ /\ HereResult.is = "got"
             /\ next = Running(HereResult.at, seq_pos, HereResult.tag, Joined(items, HereResult.items))
          \/ HereResult = Refused /\ next = Unwound(seq_pos)
      BY <1>3, <2>5, TopRead
    <3>2. rec \in Seq(Items)
      BY <1>1, JoinedFacts
    <3>3. r \in Results /\ (r.is = "got" => r.items \in Seq(Items))
      BY FirstTyped
    <3>4. \/ res.is = "got" /\ next = Running(res.at, seq_pos, res.tag, Joined(rec, res.items))
          \/ res = Refused /\ next = Unwound(seq_pos)
      <4> HIDE DEF r
      <4>1. CASE r.is = "got"
        <5>1. b = Got(r.at, r.tag, before \o r.items)
          BY <3>3, <4>1, BehindFacts
        <5>2. ~(ValueEnd(m, HereGoal) > Len(m))
          BY <2>4, <3>1, ResultKinds DEF Skipped
        <5>3. HereResult = Got(Larger(r.at, ValueEnd(m, HereGoal)), r.tag, before \o r.items)
          BY <2>4, <5>1, <5>2, ResultKinds DEF Skipped
        <5>4. res = Got(Larger(r.at, ValueEnd(m, HereGoal)), r.tag, r.items)
          BY <4>1, <5>2 DEF Skipped
        <5>5. next = Running(Larger(r.at, ValueEnd(m, HereGoal)), seq_pos, r.tag,
                             Joined(items, before \o r.items))
          BY <3>1, <5>3, ResultKinds
        <5>6. Joined(Joined(items, before), r.items) = Joined(items, before \o r.items)
          BY <1>1, <3>3, <4>1, JoinedTwice
        <5> QED BY <5>4, <5>5, <5>6, ResultKinds
      <4>2. CASE r.is # "got"
        <5>1. b = r
          BY <3>3, <4>2, BehindFacts
        <5>2. HereResult = res
          BY <2>4, <5>1
        <5>3. res = r \/ res = Unsaid
          BY <4>2 DEF Skipped
        <5>4. res.is # "got"
          BY <4>2, <5>3, ResultKinds
        <5> QED BY <3>1, <5>2, <5>4
      <4> QED BY <4>1, <4>2
    <3>5. \/ res.is = "got" /\ next = Running(res.at, seq_pos, res.tag, Joined(items', res.items))
          \/ res = Refused /\ next = Unwound(seq_pos)
      BY <3>4
    <3>6. PICK u : /\ Passes(input, f, Now', u)
                   /\ \A x : x.call = "end sequence" \/ (x.call = "end explicit" /\ HereFirst # Refused)
                               => Passes(input, x, u, next)
      BY <1>3, <1>4, <2>1, <3>5, ScopeOpens
    <3> QED BY <2>3, <3>6
  <2> QED BY <2>1, <2>2, <2>3, <2>5, StepTwo
<1>5. CASE ~(Matches(t) /\ Cell.constructed)
  <2>1. HereResult.is # "got"
    BY <1>2, <1>5, ResultKinds DEF OfScope
  <2>2. CASE Matches(t) /\ ~Cell.constructed /\ Take(cursor + 1) /\ Throw /\ UNCHANGED seq_pos
    <3>1. status' = "throwing" /\ frames' = Rest /\ limit' = limit
      BY <2>2 DEF Throw, Take
    <3> QED BY <1>3, <2>1, <2>2, <3>1, StepThrows
  <2>3. CASE HeaderFails(t) /\ UNCHANGED seq_pos
    <3>1. frames' = Rest /\ status' \in {"throwing", "misaligned"} /\ limit' = limit
      BY <2>3, HeaderFailsStatus
    <3> QED BY <1>3, <2>1, <2>3, <3>1, StepThrows
  <2> QED BY <1>5, <2>2, <2>3 DEF OpenScope
<1> QED BY <1>4, <1>5

LEMMA ReadSequenceOn ==
  ASSUME Inv, Inv', Legible(input), ReadingInv, ReadSequence
  PROVE  ReadingInv'
<1> DEFINE T == Top.type
           f == Fields(T.fields)
           t == TagOr(T.tag)
<1>1. frames # <<>> /\ status = "running" /\ T \in Types /\ T.kind = "sequence" /\ Top.call = "read"
  BY ReadingFacts DEF ReadSequence, Reading
<1>2. T.fields \in Seq(Types)
  BY <1>1, DeserialiserAssumption DEF DeserialiserAssumption, WellFormed
<1>3. f \in Frames /\ f.call \in ReadingCalls
  BY <1>2, FieldsFrame DEF Fitting, Fields, ReadingCalls
<1>4. UNCHANGED <<input, ex>> /\ OpenScope(t, <<f, EndSequence(Depth)>>) /\ current_tag' = NoTag
  BY DEF ReadSequence
<1>5. items \in Seq(Items)
  BY DEF Inv
<1>6. items' = Joined(items, <<>>)
  BY <1>5, JoinedNone DEF ReadSequence
<1>7. HereFirst = Said(TableOf(input), Goal(f, cursor + 1, <<ValueEnd(input.message, HereGoal)>>, NoTag))
  <2>1. FirstRead(input.message, HereGoal)
          = Goal(f, cursor + 1, <<ValueEnd(input.message, HereGoal)>>, NoTag)
    BY <1>1, HereFields DEF FirstRead, Inside
  <2> QED BY <1>1, <2>1, ResultOfRead
<1> DEFINE none == <<>>
<1>8. HereResult = OfScope(input.message, HereGoal, t, Behind(none, HereFirst))
  <2>1. HereResult = OfScope(input.message, HereGoal, t, HereFirst)
    BY <1>1, ResultOfRead, HereFields, TagHere DEF OfRead
  <2>2. Behind(none, HereFirst) = HereFirst
    <3>1. HereFirst \in Results /\ (HereFirst.is = "got" => HereFirst.items \in Seq(Items))
      BY FirstTyped
    <3>2. CASE HereFirst.is = "got"
      <4>1. none \o HereFirst.items = HereFirst.items
        BY <3>1, <3>2
      <4>2. Behind(none, HereFirst) = Got(HereFirst.at, HereFirst.tag, HereFirst.items)
        BY <3>1, <3>2, <4>1, BehindFacts
      <4> QED BY <3>1, <3>2, <4>2 DEF Results, Got, Refused, Unsaid
    <3>3. CASE HereFirst.is # "got"
      BY <3>1, <3>3, BehindFacts
    <3> QED BY <3>2, <3>3
  <2> QED BY <2>1, <2>2
<1>9. none \in Seq(Items)
  OBVIOUS
<1> HIDE DEF f, t
<1>10. items' = Joined(items, none)
  BY <1>6
<1> HIDE DEF none
<1> QED BY <1>1, <1>3, <1>4, <1>7, <1>8, <1>9, <1>10, EnclosedOn

LEMMA ReadContainerOn ==
  ASSUME Inv, Inv', Legible(input), ReadingInv, ReadContainer
  PROVE  ReadingInv'
<1> DEFINE T == Top.type
           f == Loop(T.of)
           t == TagOr(SequenceTag)
           one == <<Begin>>
<1>1. frames # <<>> /\ status = "running" /\ T \in Types /\ T.kind = "container" /\ Top.call = "read"
  BY ReadingFacts DEF ReadContainer, Reading
<1>2. T.of \in Types
  BY <1>1, DeserialiserAssumption DEF DeserialiserAssumption, WellFormed
<1>3. f \in Frames /\ f.call \in ReadingCalls
  BY <1>2, ReadFrames DEF Fitting, Loop, ReadingCalls
<1>4. UNCHANGED <<input, ex>> /\ OpenScope(t, <<f, EndSequence(Depth)>>) /\ current_tag' = NoTag
  BY DEF ReadContainer
<1>5. items \in Seq(Items) /\ Begin \in Items
  BY ItemFacts DEF Inv
<1>6. items' = Joined(items, one)
  BY <1>5, JoinedOne DEF ReadContainer, Record
<1>7. HereFirst = Said(TableOf(input), Goal(f, cursor + 1, <<ValueEnd(input.message, HereGoal)>>, NoTag))
  <2>1. FirstRead(input.message, HereGoal)
          = Goal(f, cursor + 1, <<ValueEnd(input.message, HereGoal)>>, NoTag)
    BY <1>1, HereFields DEF FirstRead, Inside
  <2> QED BY <1>1, <2>1, ResultOfRead
<1>8. HereResult = OfScope(input.message, HereGoal, t, Behind(one, HereFirst))
  BY <1>1, ResultOfRead, HereFields, TagHere DEF OfRead
<1>9. one \in Seq(Items)
  <2> DEFINE x == Begin
  <2>1. x \in Items
    BY <1>5
  <2> HIDE DEF x
  <2>2. <<x>> \in Seq(Items)
    BY <2>1
  <2> QED BY <2>2 DEF x
<1> HIDE DEF f, t, one
<1> QED BY <1>1, <1>3, <1>4, <1>6, <1>7, <1>8, <1>9, EnclosedOn

LEMMA OnToNext ==
  ASSUME Inv, ReadingInv, status \in {"running", "throwing"}, frames # <<>>
  PROVE  \E next : Passes(input, Top, Now, next)
<1>1. OnWay /\ frames \in Seq(Fitting)
  BY StackFacts DEF ReadingInv
<1> QED BY <1>1, ReachesRest DEF OnWay, Top

LEMMA OpenExplicitOn ==
  ASSUME Inv, Inv', Legible(input), ReadingInv, OpenExplicit
  PROVE  ReadingInv'
<1> DEFINE f == Read(Top.type)
           t == Context(Top.tag)
           e == EndExplicit(Depth)
           m == input.message
<1>1. frames # <<>> /\ status = "running" /\ Top.call = "start explicit"
  BY DEF OpenExplicit, running
<1>2. Top.type \in Types
  BY <1>1, TopFacts, FrameParts
<1>3. f \in Frames /\ f.call \in ReadingCalls /\ Amp \in Frames /\ Top.call \in ReadingCalls
  BY <1>1, <1>2, ReadFrames, AmpFrame DEF Fitting, Read, ReadingCalls
<1>4. e \in Frames /\ e.call = "end explicit"
  <2>1. Depth \in Nat
    BY DepthFacts
  <2> QED BY <2>1, ClosingFrames DEF Fitting, EndExplicit
<1>5. UNCHANGED <<input, ex, current_tag, items>> /\ OpenScope(t, <<f, Amp, e>>)
  BY DEF OpenExplicit
<1>6. limit = Len(m)
  BY DEF ReadingInv
<1>7. Opens(m, HereGoal, t) <=> Matches(t) /\ Cell.constructed
  BY <1>6, HereFacts
<1>8. HereResult = IF Opens(m, HereGoal, t)
                   THEN IF HereFirst = Refused THEN Unsaid ELSE Skipped(m, HereGoal, HereFirst)
                   ELSE IF current_tag = NoTag THEN Refused ELSE Unsaid
  BY <1>1, HereFields DEF HereResult, Result, OfExplicit
<1>9. HereFirst = Said(TableOf(input), Goal(f, cursor + 1, <<ValueEnd(m, HereGoal)>>, current_tag))
  BY <1>1, HereFields DEF HereFirst, First, Inside
<1> HIDE DEF f, t, e
<1>10. CASE Matches(t) /\ Cell.constructed
  <2>1. /\ Take(cursor + 1) /\ seq_pos' = <<cursor + 1 + Cell.len>> \o seq_pos
        /\ frames' = <<f, Amp, e>> \o Rest /\ status' = "running"
    <3> DEFINE inside == <<f, Amp, e>>
    <3>1. ~HeaderFails(t)
      BY <1>10, HeaderFailsStatus
    <3>2. OpenScope(t, inside)
      BY <1>5
    <3> HIDE DEF inside
    <3>3. /\ Take(cursor + 1) /\ seq_pos' = <<cursor + 1 + Cell.len>> \o seq_pos
          /\ frames' = inside \o Rest /\ status' = status
      BY <1>10, <3>1, <3>2 DEF OpenScope
    <3> QED BY <1>1, <3>3 DEF inside
  <2>2. limit' = limit
    BY <2>1 DEF Take
  <2>3. ASSUME NEW next, Passes(input, Top, Now, next)
        PROVE  \E u, v : /\ Passes(input, f, Now', u)
                         /\ Passes(input, Amp, u, v)
                         /\ Passes(input, e, v, next)
    <3>1. \/ /\ HereResult.is = "got"
             /\ next = Running(HereResult.at, seq_pos, HereResult.tag, Joined(items, HereResult.items))
          \/ HereResult = Refused /\ next = Unwound(seq_pos)
      BY <1>1, <1>3, <2>3, TopRead
    <3>2. HereFirst # Refused /\ HereResult = Skipped(m, HereGoal, HereFirst)
      BY <1>7, <1>8, <1>10, <3>1, ResultKinds
    <3>3. LET res == Skipped(m, HereGoal, HereFirst) IN
          \/ res.is = "got" /\ next = Running(res.at, seq_pos, res.tag, Joined(items', res.items))
          \/ res = Refused /\ next = Unwound(seq_pos)
      BY <1>5, <3>1, <3>2
    <3>4. HereFirst = Said(TableOf(input), Goal(f, cursor + 1, <<ValueEnd(m, HereGoal)>>, current_tag'))
      BY <1>5, <1>9
    <3>5. PICK u : /\ Passes(input, f, Now', u)
                   /\ \A x : x.call = "end sequence" \/ (x.call = "end explicit" /\ HereFirst # Refused)
                               => Passes(input, x, u, next)
      BY <1>1, <1>3, <1>5, <1>10, <2>1, <3>3, <3>4, ScopeOpens
    <3>6. Passes(input, e, u, next)
      BY <1>4, <3>2, <3>5
    <3> QED BY <3>5, <3>6, AmpPasses
  <2> QED BY <1>1, <1>3, <1>4, <1>5, <2>1, <2>2, <2>3, StepThree
<1>11. CASE ~(Matches(t) /\ Cell.constructed)
  <2>1. PICK next : Passes(input, Top, Now, next)
    BY <1>1, OnToNext
  <2>2. HereResult.is = "got" \/ HereResult = Refused
    BY <1>1, <1>3, <2>1, TopRead
  <2>3. HereResult.is # "got" /\ current_tag = NoTag
    BY <1>7, <1>8, <1>11, <2>2, ResultKinds
  <2>4. current_tag' = NoTag
    BY <1>5, <2>3
  <2>5. CASE Matches(t) /\ ~Cell.constructed /\ Take(cursor + 1) /\ Throw /\ UNCHANGED seq_pos
    <3>1. status' = "throwing" /\ frames' = Rest /\ limit' = limit
      BY <2>5 DEF Throw, Take
    <3> QED BY <1>1, <1>3, <1>5, <2>3, <2>4, <2>5, <3>1, StepThrows
  <2>6. CASE HeaderFails(t) /\ UNCHANGED seq_pos
    <3>1. frames' = Rest /\ status' \in {"throwing", "misaligned"} /\ limit' = limit
      BY <2>6, HeaderFailsStatus
    <3> QED BY <1>1, <1>3, <1>5, <2>3, <2>4, <2>6, <3>1, StepThrows
  <2> QED BY <1>5, <1>11, <2>5, <2>6 DEF OpenScope
<1> QED BY <1>10, <1>11

\* A value without parts has been read.
LEMMA StepReads ==
  ASSUME Inv, Legible(input), ReadingInv, status = "running", frames # <<>>,
         Top.call \in ReadingCalls, NEW item \in Items,
         HereResult = Got(cursor', current_tag', <<item>>),
         items' = Record(item), frames' = Rest, status' = "running",
         UNCHANGED <<input, limit, ex, seq_pos>>
  PROVE  ReadingInv'
<1>1. ASSUME NEW next, Passes(input, Top, Now, next)
      PROVE  Now' = next
  <2>1. next = Running(cursor', seq_pos, current_tag', Joined(items, <<item>>))
    BY <1>1, TopRead, ResultKinds
  <2>2. Joined(items, <<item>>) = Record(item)
    BY JoinedOne DEF Inv, Record
  <2>3. Now' = Running(cursor', seq_pos', current_tag', items')
    BY NowFacts
  <2> QED BY <2>1, <2>2, <2>3
<1> QED BY <1>1, StepOver

LEMMA ReadItem ==
  ASSUME NEW r \in Results, NEW at, NEW tag, NEW x, r = Got(at, tag, <<x>>)
  PROVE  x \in Items
<1>1. r.is = "got" /\ r.items = <<x>>
  BY ResultKinds
<1>2. r.items \in Seq(Items)
  BY <1>1 DEF Results, Refused, Unsaid
<1> DEFINE one == <<x>>
<1>3. one \in Seq(Items) /\ Len(one) = 1 /\ one[1] = x
  BY <1>1, <1>2
<1> QED BY <1>3, ElementOfSeq

LEMMA ReadPrimitiveOn ==
  ASSUME Inv, Inv', Legible(input), ReadingInv, ReadPrimitive
  PROVE  ReadingInv'
<1> DEFINE T == Top.type
           t == TagOr(T.tag)
           len == Cell.len
           m == input.message
<1>1. /\ frames # <<>> /\ status = "running" /\ T \in Types /\ T.kind = "primitive" /\ Top.call = "read"
      /\ Top.call \in ReadingCalls
  BY ReadingFacts DEF ReadPrimitive, Reading, ReadingCalls
<1>2. UNCHANGED <<input, ex, seq_pos>> /\ current_tag' = NoTag
  BY DEF ReadPrimitive
<1>3. limit = Len(m)
  BY DEF ReadingInv
<1>4. /\ Starts(m, HereGoal, OwnTag(HereGoal, T.tag)) <=> Matches(t)
      /\ m[HereGoal.at + 1] = Cell
      /\ ValueEnd(m, HereGoal) = cursor + 1 + len
      /\ SubSeq(m, HereGoal.at + 2, HereGoal.at + 1 + len) = Content(len)
  <2>1. Starts(m, HereGoal, t) <=> Matches(t)
    BY <1>3, HereFacts
  <2>2. m[HereGoal.at + 1] = Cell
    BY <1>3, HereFacts
  <2> QED BY <2>1, <2>2, TagHere, HereFields DEF ValueEnd, Content
<1>5. HereResult = IF ~Matches(t) \/ len \notin T.lengths THEN Refused
                   ELSE IF cursor + 1 + len > Len(m) THEN Unsaid
                   ELSE IF Refuses(T, Content(len)) THEN Refused
                   ELSE Got(cursor + 1 + len, NoTag, <<Value(Content(len))>>)
  <2>1. HereResult = OfPrimitive(m, HereGoal, T)
    BY <1>1, ResultOfRead, HereFields DEF OfRead
  <2> QED BY <1>4, <2>1 DEF OfPrimitive
<1>6. PICK next : Passes(input, Top, Now, next)
  BY <1>1, OnToNext
<1>7. HereResult # Unsaid
  BY <1>1, <1>6, TopRead, ResultKinds
<1> HIDE DEF t, len
<1>8. CASE HeaderFails(t)
  <2>1. ~Matches(t) /\ frames' = Rest /\ status' \in {"throwing", "misaligned"} /\ limit' = limit
    BY <1>8, HeaderFailsStatus
  <2>2. HereResult.is # "got"
    BY <1>5, <2>1, ResultKinds
  <2> QED BY <1>1, <1>2, <2>1, <2>2, StepThrows
<1>9. CASE Matches(t) /\ len \notin T.lengths /\ Take(cursor + 1) /\ Throw
  <2>1. frames' = Rest /\ status' = "throwing" /\ limit' = limit
    BY <1>9 DEF Throw, Take
  <2>2. HereResult.is # "got"
    BY <1>5, <1>9, ResultKinds
  <2> QED BY <1>1, <1>2, <2>1, <2>2, StepThrows
<1>10. CASE Matches(t) /\ len \in T.lengths /\ cursor + 1 + len > limit
  BY <1>3, <1>5, <1>7, <1>10
<1>11. CASE /\ Matches(t) /\ len \in T.lengths /\ ~(cursor + 1 + len > limit)
            /\ Take(cursor + 1 + len) /\ Refuses(T, Content(len)) /\ Throw
  <2>1. frames' = Rest /\ status' = "throwing" /\ limit' = limit
    BY <1>11 DEF Throw, Take
  <2>2. HereResult.is # "got"
    BY <1>3, <1>5, <1>11, ResultKinds
  <2> QED BY <1>1, <1>2, <2>1, <2>2, StepThrows
<1>12. CASE /\ Matches(t) /\ len \in T.lengths /\ ~(cursor + 1 + len > limit)
            /\ Take(cursor + 1 + len) /\ ~Refuses(T, Content(len))
            /\ items' = Record(Value(Content(len))) /\ frames' = Rest /\ UNCHANGED status
  <2>1. cursor' = cursor + 1 + len /\ limit' = limit
    BY <1>12 DEF Take
  <2>2. HereResult = Got(cursor', current_tag', <<Value(Content(len))>>)
    BY <1>2, <1>3, <1>5, <1>12, <2>1
  <2>3. Value(Content(len)) \in Items
    <3> DEFINE x == Value(Content(len))
    <3> HIDE DEF x
    <3>1. HereResult \in Results /\ HereResult = Got(cursor', current_tag', <<x>>)
      BY <1>1, <1>6, <2>2, TopRead DEF x
    <3> QED BY <3>1, ReadItem DEF x
  <2> QED BY <1>1, <1>2, <1>12, <2>1, <2>2, <2>3, StepReads
<1>13. Matches(t) /\ cursor + 1 + len <= limit => ~(cursor + 1 + len > limit)
  <2> SUFFICES ASSUME Matches(t)
               PROVE  cursor + 1 + len <= limit => ~(cursor + 1 + len > limit)
    OBVIOUS
  <2>1. Cell \in Cells /\ Cell.is = "header" /\ cursor \in Nat /\ limit \in Nat
    BY CellHere, MessageFacts, StreamFacts DEF Matches
  <2>2. len \in Nat
    BY <2>1 DEF Cells, len
  <2> QED BY <2>1, <2>2
<1> QED BY <1>8, <1>9, <1>10, <1>11, <1>12, <1>13 DEF ReadPrimitive, t, len

LEMMA ReadTrailingOn ==
  ASSUME Inv, Inv', Legible(input), ReadingInv, ReadTrailing
  PROVE  ReadingInv'
<1> DEFINE n == Head(seq_pos) - cursor
           end == Head(seq_pos)
           m == input.message
           item == Value(SubSeq(m, cursor + 1, cursor + n))
<1>1. /\ frames # <<>> /\ status = "running" /\ Top.type.kind = "trailing" /\ Top.call = "read"
      /\ Top.call \in ReadingCalls /\ seq_pos # <<>>
  BY ReadingFacts DEF ReadTrailing, Reading, ReadingCalls
<1>2. UNCHANGED <<input, ex, seq_pos, current_tag>>
  BY DEF ReadTrailing
<1>3. end \in Nat /\ end = seq_pos[1] /\ cursor \in Nat /\ limit \in Nat /\ limit = Len(m)
  <2>1. Head(seq_pos) = seq_pos[1] /\ Head(seq_pos) \in Nat
    BY <1>1, StackFacts, PopIndices DEF Ends
  <2> QED BY <2>1, StreamFacts DEF ReadingInv
<1>4. HereGoal.end # <<>> /\ HereGoal.end[1] = end
  <2>1. HereGoal.end = <<end>>
    BY <1>1, <1>3, HereFields DEF EndOf
  <2> HIDE DEF end
  <2>2. <<end>> # <<>> /\ <<end>>[1] = end
    OBVIOUS
  <2> QED BY <2>1, <2>2
<1>5. cursor + n = end
  BY <1>3
<1>6. HereResult = IF end > Len(m) THEN Unsaid
                   ELSE Got(Larger(cursor, end), current_tag, <<item>>)
  <2>1. HereResult = OfTrailing(m, HereGoal)
    BY <1>1, ResultOfRead, HereFields DEF OfRead
  <2>2. item = Value(SubSeq(m, cursor + 1, end))
    BY <1>5
  <2> HIDE DEF item, end
  <2> QED BY <1>4, <2>1, <2>2, HereFields DEF OfTrailing
<1>7. PICK next : Passes(input, Top, Now, next)
  BY <1>1, OnToNext
<1>8. HereResult \in Results /\ HereResult # Unsaid
  BY <1>1, <1>7, TopRead, ResultKinds
<1>9. end <= Len(m) /\ HereResult = Got(Larger(cursor, end), current_tag, <<item>>)
  BY <1>3, <1>6, <1>8
<1>10. ~(n > 0 /\ cursor + n > limit)
  BY <1>3, <1>5, <1>9
<1>11. /\ Take(Larger(cursor, end)) /\ items' = Record(item) /\ frames' = Rest /\ UNCHANGED status
  <2> HIDE DEF item, n
  <2> QED BY <1>10 DEF ReadTrailing, item, n
<1>12. item \in Items
  BY <1>8, <1>9, ReadItem
<1>13. cursor' = Larger(cursor, end) /\ limit' = limit
  BY <1>11 DEF Take
<1> HIDE DEF item, end
<1>14. HereResult = Got(cursor', current_tag', <<item>>)
  BY <1>2, <1>9, <1>13
<1> QED BY <1>1, <1>2, <1>11, <1>12, <1>13, <1>14, StepReads

\* The alternative a choice goes on with.
LEMMA CandidateIs ==
  ASSUME Inv, limit = Len(input.message), NEW T
  PROVE  /\ Candidates(input.message, HereGoal, T) = Alternatives(T)
         /\ \A i \in Alternatives(T) :
              (\A j \in Alternatives(T) : i <= j)
                => Candidate(input.message, HereGoal, T) = T.alts[i]
<1> DEFINE m == input.message
           A == Alternatives(T)
<1>1. HeaderAt(m, HereGoal) <=> HeaderHere
  BY HereFacts
<1>2. m[HereGoal.at + 1] = Cell
  BY HereFacts
<1>3. Candidates(m, HereGoal, T) = A
  BY <1>1, <1>2 DEF Candidates, Alternatives
<1>4. ASSUME NEW i \in A, \A j \in A : i <= j
      PROVE  Candidate(m, HereGoal, T) = T.alts[i]
  <2>1. A \subseteq Int
    BY DEF Alternatives
  <2> HIDE DEF A
  <2> DEFINE k == CHOOSE k \in A : \A j \in A : k <= j
  <2>2. k \in A /\ \A j \in A : k <= j
    BY <1>4
  <2> HIDE DEF k
  <2>3. k = i
    <3>1. k \in Int /\ i \in Int /\ k <= i /\ i <= k
      BY <1>4, <2>1, <2>2
    <3> QED BY <3>1
  <2>4. Candidate(m, HereGoal, T) = T.alts[k]
    BY <1>3 DEF Candidate, k
  <2> QED BY <2>3, <2>4
<1> QED BY <1>3, <1>4

LEMMA ReadChoiceOn ==
  ASSUME Inv, Inv', Legible(input), ReadingInv, ReadChoice
  PROVE  ReadingInv'
<1> DEFINE T == Top.type
           m == input.message
<1>1. /\ frames # <<>> /\ status = "running" /\ T.kind = "choice" /\ Top.call = "read"
      /\ Top.call \in ReadingCalls
      /\ \A i \in 1 .. Len(T.alts) : AsImplicit(T.alts[i]) \in Types
  BY ReadingFacts DEF ReadChoice, Reading, ReadingCalls, WellFormed
<1>2. UNCHANGED <<input, seq_pos, current_tag, ex, cursor, limit>> /\ limit = Len(m)
  BY DEF ReadChoice, ReadingInv
<1>3. Candidates(m, HereGoal, T) = Alternatives(T)
  BY <1>2, CandidateIs
<1>4. HereResult = OfChoice(m, HereGoal, T, HereFirst)
  BY <1>1, ResultOfRead, HereFields DEF OfRead
<1>5. PICK next : Passes(input, Top, Now, next)
  BY <1>1, OnToNext
<1>6. HereResult.is = "got" \/ HereResult = Refused
  BY <1>1, <1>5, TopRead
<1>7. CASE /\ Alternatives(T) = {} /\ frames' = Rest
           /\ status' = IF cursor < limit /\ Cell.is = "octet" THEN "misaligned" ELSE "throwing"
  <2>1. HereResult.is # "got" /\ current_tag = NoTag
    BY <1>3, <1>4, <1>6, <1>7, ResultKinds, HereFields DEF OfChoice
  <2>2. current_tag' = NoTag
    BY <1>2, <2>1
  <2> QED BY <1>1, <1>2, <1>7, <2>1, <2>2, StepThrows
<1>8. ASSUME NEW i \in Alternatives(T), \A j \in Alternatives(T) : i <= j,
             frames' = <<Read(AsImplicit(T.alts[i])), Amp>> \o Rest,
             items' = Record(Chosen(T.alts[i].tag)), UNCHANGED status
      PROVE  ReadingInv'
  <2> DEFINE f == Read(AsImplicit(T.alts[i]))
             x == Chosen(T.alts[i].tag)
             one == <<x>>
  <2>1. i \in 1 .. Len(T.alts) /\ AsImplicit(T.alts[i]) \in Types
    BY <1>1, <1>8 DEF Alternatives
  <2>2. f \in Frames /\ f.call \in ReadingCalls /\ Amp \in Frames
    BY <2>1, ReadFrames, AmpFrame DEF Fitting, Read, ReadingCalls
  <2>3. T.alts[i].tag \in Nat
    <3>1. WellFormed(AsImplicit(T.alts[i]))
      BY <2>1, DeserialiserAssumption DEF DeserialiserAssumption
    <3>2. AsImplicit(T.alts[i]).kind = "implicit" /\ AsImplicit(T.alts[i]).tag = T.alts[i].tag
      BY DEF AsImplicit
    <3> QED BY <3>1, <3>2 DEF WellFormed
  <2>4. x \in Items
    BY <2>3, ItemFacts DEF Items, Chosen
  <2>5. Candidate(m, HereGoal, T) = T.alts[i]
    BY <1>2, <1>8, CandidateIs
  <2>6. FirstRead(m, HereGoal) = Goal(f, cursor, EndOf(seq_pos), current_tag)
    BY <1>1, <2>5, HereFields DEF FirstRead
  <2>7. HereFirst = Said(TableOf(input), Goal(f, cursor, EndOf(seq_pos), current_tag))
    BY <1>1, <2>6, ResultOfRead
  <2>8. HereResult = Behind(one, HereFirst)
    BY <1>3, <1>4, <1>8, <2>5 DEF OfChoice
  <2> HIDE DEF x
  <2>9. one \in Seq(Items)
    BY <2>4
  <2>10. items \in Seq(Items) /\ items' = Joined(items, one)
    BY <1>8, <2>4, JoinedOne DEF Inv, Record, x
  <2> HIDE DEF one, f
  <2>11. Now' = Running(cursor, seq_pos, current_tag, Joined(items, one))
    BY <1>1, <1>2, <1>8, <2>10, NowFacts
  <2>12. ASSUME NEW after, Passes(input, Top, Now, after)
         PROVE  \E u : Passes(input, f, Now', u) /\ Passes(input, Amp, u, after)
    <3> DEFINE r == HereFirst
    <3>1. \/ /\ HereResult.is = "got"
             /\ after = Running(HereResult.at, seq_pos, HereResult.tag, Joined(items, HereResult.items))
          \/ HereResult = Refused /\ after = Unwound(seq_pos)
      BY <1>1, <2>12, TopRead
    <3>2. r \in Results /\ (r.is = "got" => r.items \in Seq(Items))
      BY FirstTyped
    <3> HIDE DEF r
    <3>3. Passes(input, f, Now', after)
      <4>1. CASE r.is = "got"
        <5>1. HereResult = Got(r.at, r.tag, one \o r.items)
          BY <2>8, <3>2, <4>1, BehindFacts DEF r
        <5>2. after = Running(r.at, seq_pos, r.tag, Joined(items, one \o r.items))
          BY <3>1, <5>1, ResultKinds
        <5>3. Joined(Joined(items, one), r.items) = Joined(items, one \o r.items)
          BY <2>9, <2>10, <3>2, <4>1, JoinedTwice
        <5> QED BY <2>2, <2>7, <2>11, <4>1, <5>2, <5>3, PassesReading DEF r
      <4>2. CASE r.is # "got"
        <5>1. r = Refused /\ after = Unwound(seq_pos)
          BY <2>8, <3>1, <3>2, <4>2, BehindFacts, ResultKinds DEF r
        <5>2. Passes(input, f, Now', Unwound(seq_pos))
          BY <2>2, <2>7, <2>11, <5>1, PassesRefused DEF r
        <5> QED BY <5>1, <5>2
      <4> QED BY <4>1, <4>2
    <3> QED BY <3>3, AmpPasses
  <2>13. frames' = <<f, Amp>> \o Rest /\ status' = "running"
    BY <1>1, <1>8 DEF f
  <2> QED BY <1>1, <1>2, <2>2, <2>12, <2>13, StepTwo
<1> QED BY <1>7, <1>8 DEF ReadChoice

-----------------------------------------------------------------------------

\* Before anything is read all of the message is to be read.
LEMMA InitReading ==
  ASSUME Init, Legible(input)
  PROVE  ReadingInv
<1> DEFINE f == Read(input.type)
           r == Said(TableOf(input), Goal(f, 0, <<>>, NoTag))
           none == <<>>
<1>1. Inv /\ input.type \in Types
  BY InitInv, MessageFacts
<1>2. /\ cursor = 0 /\ limit = Len(input.message) /\ seq_pos = <<>> /\ current_tag = NoTag
      /\ ~ex /\ status = "running" /\ frames = <<f, Amp>> /\ items = <<>>
  BY DEF Init
<1>3. f \in Frames /\ Amp \in Frames /\ f.call \in ReadingCalls
  BY <1>1, ReadFrames, AmpFrame DEF Fitting, Read, ReadingCalls
<1>4. r.is = "got" /\ r.items = input.expected /\ Len(input.expected) <= MaxItems
  BY TableConsistent DEF Reads
<1>5. r.items \in Seq(Items)
  BY <1>4, SaidTyped
<1>6. Joined(<<>>, r.items) = input.expected
  BY <1>4, <1>5, JoinedFits
<1>7. Now = Running(0, <<>>, NoTag, <<>>) /\ EndOf(<<>>) = <<>>
  BY <1>2, NowFacts DEF EndOf
<1> DEFINE goal == Running(r.at, <<>>, r.tag, input.expected)
<1>8. Passes(input, f, Now, goal)
  BY <1>3, <1>4, <1>6, <1>7, PassesReading
<1>9. ~goal.thrown /\ goal.items = input.expected
  BY PlaceFields
<1> HIDE DEF f, goal
<1>10. Reaches(input, frames, Now, goal)
  <2>1. none \in Seq(Frames) /\ <<Amp>> \in Seq(Frames)
    <3> DEFINE a == Amp
    <3>1. a \in Frames
      BY <1>3
    <3> HIDE DEF a
    <3>2. <<a>> \in Seq(Frames)
      BY <3>1
    <3> QED BY <3>2 DEF a
  <2>2. Reaches(input, <<Amp>> \o none, goal, goal)
    BY <1>3, <2>1, AmpPasses, ReachesItself, ReachesOn
  <2>3. <<Amp>> \o none = <<Amp>>
    OBVIOUS
  <2>4. Reaches(input, <<f>> \o <<Amp>>, Now, goal)
    BY <1>3, <1>8, <2>1, <2>2, <2>3, ReachesOn
  <2>5. <<f>> \o <<Amp>> = <<f, Amp>>
    <3> DEFINE a == Amp
    <3>1. a \in Frames
      BY <1>3
    <3> HIDE DEF a
    <3>2. <<f, a>> \o none = <<f>> \o (<<a>> \o none)
      BY <1>3, <2>1, <3>1, TwoFrames
    <3>3. <<f, a>> \o none = <<f, a>> /\ <<a>> \o none = <<a>>
      BY <1>3, <3>1
    <3> QED BY <3>2, <3>3 DEF a
  <2> QED BY <1>2, <2>4, <2>5
<1>11. OnWay
  BY <1>9, <1>10 DEF OnWay
<1> QED BY <1>2, <1>11 DEF ReadingInv

LEMMA NextReading ==
  ASSUME Inv, Legible(input), ReadingInv, [Next]_vars
  PROVE  ReadingInv'
<1>1. Inv'
  BY NextInv
<1>2. CASE Step
  BY <1>1, <1>2, ReadPrimitiveOn, ReadSequenceOn, ReadContainerOn, ReadObjectOn,
     ReadImplicitOn, ReadExplicitOn, ReadOptionalOn, ReadExplicitOptionalOn,
     OpenExplicitOn, ReadTrailingOn, ReadChoiceOn, NextFieldOn,
     NextElementOn, AmpersandOn, CloseSequenceOn, CloseExplicitOn,
     KeepOptionalOn, CatchOptionalOn, UnwindOn, ReturnOn DEF Step
<1>3. CASE UNCHANGED vars
  BY <1>3, StutterOn
<1> QED BY <1>2, <1>3 DEF Next, Stopped

LEMMA InputStays ==
  ASSUME [Next]_vars
  PROVE  input' = input
<1>1. CASE Step
  BY <1>1 DEF Step, ReadPrimitive, ReadSequence, ReadContainer, ReadObject, ReadImplicit,
     ReadExplicit, ReadOptional, ReadExplicitOptional, OpenExplicit, ReadTrailing, ReadChoice,
     NextField, NextElement, Ampersand, CloseSequence, CloseExplicit, KeepOptional,
     CatchOptional, Unwind, Return
<1>2. CASE UNCHANGED vars
  BY <1>2 DEF vars
<1> QED BY <1>1, <1>2 DEF Next, Stopped

\* The invariant of all inputs that can be read as what is expected of them.
Legibly == Inv /\ (Legible(input) => ReadingInv)

LEMMA InitLegibly == Init => Legibly
BY InitInv, InitReading DEF Legibly

LEMMA NextLegibly == Legibly /\ [Next]_vars => Legibly'
<1> SUFFICES ASSUME Legibly, [Next]_vars
             PROVE  Legibly'
  OBVIOUS
<1>1. Inv /\ Inv' /\ input' = input
  BY NextInv, InputStays DEF Legibly
<1>2. CASE Legible(input)
  BY <1>1, <1>2, NextReading DEF Legibly
<1>3. CASE ~Legible(input)
  BY <1>1, <1>3 DEF Legibly
<1> QED BY <1>2, <1>3

\* What can be read, by what the formats of the types and the lengths in the
\* message say, is read, every part of it and nothing else, and decoding it does
\* not fail: neither what the optionals swallow nor the tags that are passed on
\* make the decoder lose its place (deserialiser.hpp:52-114,
\* asn_der_decoder.hpp:97-122,178-184).  MCLegible: what was written can be read
\* so.
THEOREM WrittenIsReadBack ==
  ASSUME \A c \in Cases : c.kind = "own" => Legible(c)
  PROVE  Spec => []RoundTrip
<1>1. Init => Legibly
  BY InitLegibly
<1>2. Legibly /\ [Next]_vars => Legibly'
  BY NextLegibly
<1>3. Legibly => RoundTrip
  <2> SUFFICES ASSUME Legibly, input.kind = "own"
               PROVE  /\ status = "done" => items = input.expected
                      /\ status # "failed"
    BY DEF RoundTrip
  <2>1. Legible(input)
    BY DEF Legibly, Inv
  <2> QED BY <2>1 DEF Legibly, ReadingInv
<1> QED BY <1>1, <1>2, <1>3, PTL DEF Spec

\* A message of a newer type is read as far as the reader knows its type,
\* where what the reader knows of it can be read: what is left of every
\* scope is skipped (asn_der_decoder.hpp:178-184).
THEOREM NewerIsReadBack ==
  ASSUME \A c \in Cases : c.kind = "extended" => Legible(c)
  PROVE  Spec => []ExtensionsSkipped
<1>1. Init => Legibly
  BY InitLegibly
<1>2. Legibly /\ [Next]_vars => Legibly'
  BY NextLegibly
<1>3. Legibly => ExtensionsSkipped
  <2> SUFFICES ASSUME Legibly, input.kind = "extended"
               PROVE  /\ status = "done" => items = input.expected
                      /\ status # "failed"
    BY DEF ExtensionsSkipped
  <2>1. Legible(input)
    BY DEF Legibly, Inv
  <2> QED BY <2>1 DEF Legibly, ReadingInv
<1> QED BY <1>1, <1>2, <1>3, PTL DEF Spec

\* In what can be read, an optional that is not there leaves nothing behind: not
\* even the scope of an explicit tag, and no tag (deserialiser.hpp:79-94).
THEOREM OptionalIsUndone ==
  ASSUME \A c \in Cases : c.kind \in {"own", "extended"} => Legible(c)
  PROVE  Spec => OptionalLeavesNoTrace
<1>1. Init => Legibly
  BY InitLegibly
<1>2. Legibly /\ [Next]_vars => Legibly'
  BY NextLegibly
<1>3. Legibly /\ [Next]_vars =>
        [input.kind \in {"own", "extended"} /\ CatchOptional
           => /\ cursor' = Top.mark
              /\ Len(seq_pos') = Top.depth
              /\ current_tag' = NoTag]_vars
  <2> SUFFICES ASSUME Legibly, input.kind \in {"own", "extended"}, CatchOptional
               PROVE  /\ cursor' = Top.mark
                      /\ Len(seq_pos') = Top.depth
                      /\ current_tag' = NoTag
    OBVIOUS
  <2>1. Inv /\ ReadingInv
    BY DEF Legibly, Inv
  <2>2. /\ status = "throwing" /\ frames # <<>> /\ Top.call = "end optional"
        /\ cursor' = Top.mark /\ UNCHANGED <<seq_pos, current_tag>>
    BY DEF CatchOptional
  <2>3. current_tag = NoTag
    BY <2>1, <2>2 DEF ReadingInv
  <2>4. PICK next : Passes(input, Top, Now, next)
    BY <2>1, <2>2, OnToNext
  <2>5. Now.thrown /\ Now.ends = seq_pos
    BY <2>2, NowFacts, PlaceFields
  <2>6. Len(seq_pos) = Top.depth
    BY <2>2, <2>4, <2>5 DEF Passes
  <2> QED BY <2>2, <2>3, <2>6
<1> QED BY <1>1, <1>2, <1>3, PTL DEF Spec, OptionalLeavesNoTrace
=============================================================================
