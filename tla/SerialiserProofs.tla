--------------------------- MODULE SerialiserProofs ---------------------------
(***************************************************************************)
(* The encoder stays consistent whatever it is given to write, whatever    *)
(* throws and whenever the stream fails: its state keeps its type, every   *)
(* layer a call will still close is open, nothing else is held back but    *)
(* what exceptions have left behind, no failure goes unnoticed, what is on *)
(* a stream that has not failed are whole values, and a call that returns  *)
(* has written what should come of its object.                             *)
(***************************************************************************)
EXTENDS SerialiserOutput, DerProofs

\* How many layers calls will close: all but those left behind.
Due == Len(layers) - leaked

\* The inductive invariant: what is proved of the stack, of failures and of
\* the types depends on each other.
Inv ==
  /\ TypeOK
  /\ Due \in Nat /\ Stack(Frames, frames, Due)
  /\ status \in {"running", "throwing"} \/ frames = <<>>
  /\ FailureReported

-----------------------------------------------------------------------------

\* The frames the actions push.
LEMMA WriteFrame ==
  ASSUME NEW o \in Objects
  PROVE  Write(o) \in Frames /\ ~Closes(Write(o))
BY DEF Frames, Write, Closes, Closers

LEMMA FieldsFrame ==
  ASSUME NEW os \in Seq(Objects)
  PROVE  Fields(os) \in Frames /\ ~Closes(Fields(os))
BY DEF Frames, Fields, Closes, Closers

LEMMA ClosingFrames ==
  ASSUME NEW d \in Nat
  PROVE  /\ EndSequence(d) \in Frames /\ Closes(EndSequence(d)) /\ DepthOf(EndSequence(d)) = d
         /\ EndExplicit(d) \in Frames /\ Closes(EndExplicit(d)) /\ DepthOf(EndExplicit(d)) = d
BY DEF Frames, EndSequence, EndExplicit, Closes, Closers, DepthOf

LEMMA FrameParts ==
  ASSUME NEW f \in Frames
  PROVE  /\ f.call = "write" => f.object \in Objects
         /\ f.call = "fields" => f.objects \in Seq(Objects)
BY DEF Frames

-----------------------------------------------------------------------------

LEMMA StateFacts ==
  ASSUME Inv
  PROVE  /\ layers \in Seq(Layers) /\ Len(layers) \in Nat
         /\ out \in Seq(Cells)
         /\ current_tag \in Tags
         /\ frames \in Seq(Frames)
         /\ status \in Statuses
         /\ failures \in Nat /\ leaked \in Nat /\ calls \in Nat
         /\ Due \in Nat /\ Due = Len(layers) - leaked /\ Stack(Frames, frames, Due)
         /\ call.failures \in Nat /\ call.failures <= failures
<1>1. Len(layers) \in Nat
  BY LenProperties DEF Inv, TypeOK
<1> QED BY <1>1 DEF Inv, TypeOK, Due

\* What is on top of the stack and below it.
LEMMA TopFacts ==
  ASSUME Inv, frames # <<>>
  PROVE  /\ Top \in Frames
         /\ Rest \in Seq(Frames)
         /\ ~Closes(Top) => Stack(Frames, Rest, Due)
         /\ Closes(Top) => Due - 1 \in Nat /\ Stack(Frames, Rest, Due - 1)
         /\ status \in {"running", "throwing"}
<1>1. status \in {"running", "throwing"}
  BY DEF Inv
<1> QED BY <1>1, StateFacts, PopIndices, PopPlain, PopCloser DEF Top, Rest

LEMMA WritingFacts ==
  ASSUME Inv, NEW k, Writing(k)
  PROVE  /\ frames # <<>> /\ status = "running"
         /\ Top.object \in Objects /\ Top.object.kind = k
         /\ WellFormed(Top.object)
         /\ ~Closes(Top)
<1>1. frames # <<>> /\ status = "running" /\ Top.call = "write" /\ Top.object.kind = k
  BY DEF Writing, running
<1>2. Top.object \in Objects
  BY <1>1, TopFacts, FrameParts
<1> QED BY <1>1, <1>2, SerialiserAssumption DEF SerialiserAssumption, Closes, Closers

\* What a step of a call has to show: the stream fails only with an exception.
LEMMA StepKeeps ==
  ASSUME Inv,
         layers' \in Seq(Layers), out' \in Seq(Cells), current_tag' \in Tags,
         leaked' \in Nat, Due' \in Nat, Stack(Frames, frames', Due'), status' \in Statuses,
         status' \in {"running", "throwing"} \/ frames' = <<>>,
         UNCHANGED <<outcome, calls, call>>,
         failures' \in Nat, failures <= failures',
         \/ failures' = failures /\ status' = status
         \/ status' \in {"throwing", "terminated"}
  PROVE  Inv'
<1>1. frames' \in Seq(Frames)
  BY DEF Stack
<1>2. call.failures <= failures'
  BY StateFacts
<1>3. TypeOK'
  BY <1>1, <1>2 DEF Inv, TypeOK
<1>4. FailureReported'
  BY DEF Inv, FailureReported
<1> QED BY <1>3, <1>4 DEF Inv

\* A step that leaves the encoder alone.
LEMMA QuietStep ==
  ASSUME Inv, frames # <<>>, UNCHANGED <<encoder, outcome, history>>,
         current_tag' \in Tags, Stack(Frames, frames', Due),
         status' = status \/ status' = "throwing"
  PROVE  Inv'
<1>1. UNCHANGED <<layers, out, failures, outcome, leaked, calls, call>>
  BY DEF encoder, history
<1>2. Due' = Due
  BY <1>1 DEF Due
<1>3. /\ failures' \in Nat /\ failures <= failures' /\ leaked' \in Nat
      /\ status' \in Statuses /\ status' \in {"running", "throwing"}
  BY <1>1, StateFacts, TopFacts DEF Statuses
<1>4. Due' \in Nat /\ Stack(Frames, frames', Due')
  BY <1>2, StateFacts
<1> QED BY <1>1, <1>3, <1>4, StateFacts, StepKeeps

-----------------------------------------------------------------------------

LEMMA TagFacts ==
  /\ NoTag \in Tags
  /\ \A n \in Nat : Context(n) \in Tags
BY DEF NoTag, Context, Tags

LEMMA TagOrFacts ==
  ASSUME Inv, NEW t \in Tags
  PROVE  TagOr(t) \in Tags
BY StateFacts DEF TagOr

LEMMA LayerFacts ==
  ASSUME NEW l \in Layers
  PROVE  /\ l.tag \in Tags /\ l.data \in Seq(Cells)
         /\ \A cells \in Seq(Cells) : [l EXCEPT !.data = @ \o cells] \in Layers
<1>1. l.tag \in Tags /\ l.data \in Seq(Cells)
  BY DEF Layers
<1>2. ASSUME NEW cells \in Seq(Cells)
      PROVE  [l EXCEPT !.data = @ \o cells] \in Layers
  <2>1. l.data \o cells \in Seq(Cells)
    BY <1>1, ConcatProperties
  <2> DEFINE d == l.data \o cells
  <2> HIDE DEF d
  <2>2. [l EXCEPT !.data = d] \in Layers
    BY <2>1 DEF Layers, d
  <2> QED BY <2>2 DEF d
<1> QED BY <1>1, <1>2

LEMMA FinishedFacts ==
  ASSUME Inv, layers # <<>>
  PROVE  /\ Finished(Head(layers)) \in Seq(Cells)
         /\ Tail(layers) \in Seq(Layers) /\ Len(Tail(layers)) = Len(layers) - 1
<1>1. /\ Head(layers) \in Layers /\ Tail(layers) \in Seq(Layers)
      /\ Len(Tail(layers)) = Len(layers) - 1
  BY StateFacts, HeadTailProperties
<1>2. TRUE \in BOOLEAN
  BY Zenon
<1> QED BY <1>1, <1>2, LayerFacts, WrappedFacts DEF Finished

\* What sending does: the layers stay as many as they are.
LEMMA SendsKeeps ==
  ASSUME Inv, NEW cells \in Seq(Cells), NEW ls \in Seq(Layers), Sends(cells, ls)
  PROVE  /\ layers' \in Seq(Layers) /\ Len(layers') = Len(ls)
         /\ out' \in Seq(Cells) /\ failures' = failures
<1>1. failures' = failures
  BY DEF Sends
<1>2. CASE /\ ls # <<>>
           /\ layers' = <<[Head(ls) EXCEPT !.data = @ \o cells]>> \o Tail(ls)
           /\ UNCHANGED out
  <2>1. Head(ls) \in Layers /\ Tail(ls) \in Seq(Layers) /\ Len(Tail(ls)) = Len(ls) - 1
    BY <1>2, HeadTailProperties
  <2> DEFINE l == [Head(ls) EXCEPT !.data = @ \o cells]
  <2>2. l \in Layers
    BY <2>1, LayerFacts
  <2> HIDE DEF l
  <2>3. <<l>> \in Seq(Layers) /\ Len(<<l>>) = 1
    BY <2>2
  <2>4. <<l>> \o Tail(ls) \in Seq(Layers) /\ Len(<<l>> \o Tail(ls)) = 1 + Len(Tail(ls))
    BY <2>1, <2>3, ConcatProperties
  <2>5. Len(ls) \in Nat
    BY LenProperties
  <2>6. layers' = <<l>> \o Tail(ls)
    BY <1>2 DEF l
  <2>7. out' \in Seq(Cells)
    BY <1>2, StateFacts
  <2> QED BY <1>1, <2>1, <2>4, <2>5, <2>6, <2>7
<1>3. CASE ls = <<>> /\ layers' = <<>> /\ out' = out \o cells
  BY <1>1, <1>3, StateFacts, ConcatProperties
<1> QED BY <1>2, <1>3 DEF Sends

LEMMA PartlyFacts ==
  ASSUME NEW cells \in Seq(Cells), NEW part \in Partly(cells)
  PROVE  part \in Seq(Cells)
<1>1. Len(cells) \in Nat /\ \A i \in 1 .. Len(cells) : cells[i] \in Cells
  BY LenProperties, ElementOfSeq
<1>2. ASSUME NEW n \in Nat, n <= Len(cells)
      PROVE  SubSeq(cells, 1, n) \in Seq(Cells)
  BY <1>1, <1>2, SubSeqProperties
<1>3. Stub \in Cells
  BY DEF Stub, Cells
<1>4. CASE part \in { SubSeq(cells, 1, n) : n \in 0 .. Len(cells) - 1 }
  BY <1>1, <1>2, <1>4
<1>5. CASE part \in { Append(SubSeq(cells, 1, n - 1), Stub) :
                      n \in { k \in 1 .. Len(cells) : cells[k].is = "header" } }
  <2>1. PICK n \in 1 .. Len(cells) : part = Append(SubSeq(cells, 1, n - 1), Stub)
    BY <1>5
  <2>2. SubSeq(cells, 1, n - 1) \in Seq(Cells)
    BY <1>1, <1>2
  <2> QED BY <2>1, <2>2, <1>3, AppendProperties
<1> QED BY <1>4, <1>5 DEF Partly

LEMMA SendFailsKeeps ==
  ASSUME Inv, NEW cells \in Seq(Cells), NEW ls \in Seq(Layers), SendFails(cells, ls)
  PROVE  /\ layers' \in Seq(Layers) /\ Len(layers') = Len(ls)
         /\ out' \in Seq(Cells) /\ failures' = failures + 1
<1>1. PICK part \in Partly(cells) : out' = out \o part
  BY DEF SendFails
<1>2. part \in Seq(Cells)
  BY PartlyFacts
<1>3. out' \in Seq(Cells)
  BY <1>1, <1>2, StateFacts, ConcatProperties
<1> QED BY <1>3 DEF SendFails

-----------------------------------------------------------------------------

\* A value that is written where it stands, or fails to be.
LEMMA SendStep ==
  ASSUME Inv, frames # <<>>, ~Closes(Top), NEW cells \in Seq(Cells),
         current_tag' \in Tags, UNCHANGED <<outcome, history>>,
         \/ Sends(cells, layers) /\ frames' = Rest /\ UNCHANGED status
         \/ SendFails(cells, layers) /\ Throw
  PROVE  Inv'
<1>1. UNCHANGED <<outcome, calls, call, leaked>> /\ leaked' \in Nat
  BY StateFacts DEF history
<1>2. Stack(Frames, Rest, Due) /\ layers \in Seq(Layers)
  BY TopFacts, StateFacts
<1>3. CASE Sends(cells, layers) /\ frames' = Rest /\ UNCHANGED status
  <2>1. /\ layers' \in Seq(Layers) /\ Len(layers') = Len(layers)
        /\ out' \in Seq(Cells) /\ failures' = failures
    BY <1>2, <1>3, SendsKeeps
  <2>2. Due' = Due /\ Due' \in Nat
    BY <2>1, <1>1, StateFacts DEF Due
  <2>3. /\ failures' \in Nat /\ failures <= failures'
        /\ status' \in Statuses /\ status' \in {"running", "throwing"}
    BY <2>1, <1>3, StateFacts, TopFacts
  <2>4. Stack(Frames, frames', Due')
    BY <2>2, <1>2, <1>3
  <2> QED BY <2>1, <2>2, <2>3, <2>4, <1>1, <1>3, StepKeeps
<1>4. CASE SendFails(cells, layers) /\ Throw
  <2>1. /\ layers' \in Seq(Layers) /\ Len(layers') = Len(layers)
        /\ out' \in Seq(Cells) /\ failures' = failures + 1
    BY <1>2, <1>4, SendFailsKeeps
  <2>2. Due' = Due /\ Due' \in Nat
    BY <2>1, <1>1, StateFacts DEF Due
  <2>3. failures' \in Nat /\ failures <= failures'
    BY <2>1, StateFacts
  <2>4. status' = "throwing" /\ status' \in Statuses /\ frames' = Rest
    BY <1>4 DEF Throw, Statuses
  <2>5. Stack(Frames, frames', Due')
    BY <2>2, <2>4, <1>2
  <2> QED BY <2>1, <2>2, <2>3, <2>4, <2>5, <1>1, StepKeeps
<1> QED BY <1>3, <1>4

LEMMA WritePrimitiveKeeps ==
  ASSUME Inv, WritePrimitive
  PROVE  Inv'
<1> DEFINE o == Top.object
           cells == Wrapped(TagOr(o.tag), FALSE, Octets(o.octets))
<1>1. /\ frames # <<>> /\ ~Closes(Top)
      /\ o.tag \in Tags /\ o.octets \in Seq(0 .. 255)
  BY WritingFacts DEF WritePrimitive, WellFormed
<1>2. current_tag' \in Tags /\ UNCHANGED <<outcome, history>>
  BY TagFacts DEF WritePrimitive
<1>3. cells \in Seq(Cells)
  <2>1. TagOr(o.tag) \in Tags /\ Octets(o.octets) \in Seq(Cells)
    BY <1>1, TagOrFacts, OctetsFacts
  <2>2. FALSE \in BOOLEAN
    BY Zenon
  <2> HIDE DEF o
  <2> QED BY <2>1, <2>2, WrappedFacts
<1>4. CASE Throw /\ UNCHANGED encoder
  <2>1. frames' = Rest /\ status' = "throwing"
    BY <1>4 DEF Throw
  <2>2. Stack(Frames, frames', Due)
    BY <2>1, <1>1, TopFacts
  <2> QED BY <2>1, <2>2, <1>1, <1>2, <1>4, QuietStep
<1>5. CASE \/ Sends(cells, layers) /\ frames' = Rest /\ UNCHANGED status
           \/ SendFails(cells, layers) /\ Throw
  <2> HIDE DEF cells
  <2> QED BY <1>1, <1>2, <1>3, <1>5, SendStep
<1> QED BY <1>4, <1>5 DEF WritePrimitive

LEMMA WriteTrailingKeeps ==
  ASSUME Inv, WriteTrailing
  PROVE  Inv'
<1> DEFINE cells == Top.object.cells
<1>1. frames # <<>> /\ ~Closes(Top) /\ cells \in Seq(Cells)
  BY WritingFacts DEF WriteTrailing, WellFormed
<1>2. current_tag' \in Tags /\ UNCHANGED <<outcome, history>>
  BY StateFacts DEF WriteTrailing
<1>3. \/ Sends(cells, layers) /\ frames' = Rest /\ UNCHANGED status
      \/ SendFails(cells, layers) /\ Throw
  BY DEF WriteTrailing
<1> HIDE DEF cells
<1> QED BY <1>1, <1>2, <1>3, SendStep

\* Opening a layer: the last of the frames put on the stack closes it.
LEMMA OpenKeeps ==
  ASSUME Inv, frames # <<>>, ~Closes(Top),
         NEW t \in Tags, NEW f \in Frames, ~Closes(f),
         NEW e \in Frames, Closes(e), DepthOf(e) = Due + 1,
         Open(t, <<f, e>>), current_tag' \in Tags
  PROVE  Inv'
<1>1. /\ layers' = <<Layer(t)>> \o layers /\ frames' = <<f, e>> \o Rest
      /\ UNCHANGED <<out, failures, status, outcome, history>>
  BY DEF Open
<1>2. UNCHANGED <<calls, call, leaked>> /\ leaked' \in Nat
  BY <1>1, StateFacts DEF history
<1>3. Layer(t) \in Layers
  BY DEF Layer, Layers
<1>4. layers' \in Seq(Layers) /\ Len(layers') = Len(layers) + 1
  <2> DEFINE l == Layer(t)
  <2> HIDE DEF l
  <2>1. <<l>> \in Seq(Layers) /\ Len(<<l>>) = 1
    BY <1>3 DEF l
  <2>2. <<l>> \o layers \in Seq(Layers) /\ Len(<<l>> \o layers) = 1 + Len(layers)
    BY <2>1, StateFacts, ConcatProperties
  <2>3. layers' = <<l>> \o layers
    BY <1>1 DEF l
  <2> QED BY <2>2, <2>3, StateFacts
<1>5. Due' = Due + 1 /\ Due' \in Nat
  BY <1>2, <1>4, StateFacts DEF Due
<1>6. Stack(Frames, <<f, e>> \o Rest, Due + 1)
  BY TopFacts, StateFacts, PushLayer
<1>7. Stack(Frames, frames', Due')
  BY <1>1, <1>5, <1>6
<1>8. /\ failures' \in Nat /\ failures <= failures' /\ out' \in Seq(Cells)
      /\ status' \in Statuses /\ status' \in {"running", "throwing"}
  BY <1>1, StateFacts, TopFacts
<1> QED BY <1>1, <1>2, <1>4, <1>5, <1>7, <1>8, StepKeeps

LEMMA DepthFacts ==
  ASSUME Inv
  PROVE  Depth \in Nat /\ Depth = Due + 1
BY StateFacts DEF Depth

LEMMA WriteSequenceKeeps ==
  ASSUME Inv, WriteSequence
  PROVE  Inv'
<1> DEFINE f == Fields(Top.object.of)
           e == EndSequence(Depth)
           t == TagOr(Top.object.tag)
<1>1. frames # <<>> /\ ~Closes(Top) /\ Top.object.of \in Seq(Objects) /\ Top.object.tag \in Tags
  BY WritingFacts DEF WriteSequence, WellFormed
<1>2. /\ f \in Frames /\ ~Closes(f)
      /\ e \in Frames /\ Closes(e) /\ DepthOf(e) = Due + 1
  BY <1>1, FieldsFrame, ClosingFrames, DepthFacts
<1>3. t \in Tags
  BY <1>1, TagOrFacts
<1>4. Open(t, <<f, e>>) /\ current_tag' \in Tags
  BY TagFacts DEF WriteSequence
<1> HIDE DEF f, e, t
<1> QED BY <1>1, <1>2, <1>3, <1>4, OpenKeeps

LEMMA WriteExplicitKeeps ==
  ASSUME Inv, WriteExplicit
  PROVE  Inv'
<1> DEFINE f == Write(Top.object.of)
           e == EndExplicit(Depth)
           t == Context(Top.object.tag)
<1>1. frames # <<>> /\ ~Closes(Top) /\ Top.object.of \in Objects /\ Top.object.tag \in Nat
  BY WritingFacts DEF WriteExplicit, WellFormed
<1>2. /\ f \in Frames /\ ~Closes(f)
      /\ e \in Frames /\ Closes(e) /\ DepthOf(e) = Due + 1
  BY <1>1, WriteFrame, ClosingFrames, DepthFacts
<1>3. t \in Tags
  BY <1>1, TagFacts
<1>4. Open(t, <<f, e>>) /\ current_tag' \in Tags
  BY StateFacts DEF WriteExplicit
<1> HIDE DEF f, e, t
<1> QED BY <1>1, <1>2, <1>3, <1>4, OpenKeeps

\* Putting what is to be written next in place of the frame on top.
LEMMA GoOn ==
  ASSUME Inv, frames # <<>>, ~Closes(Top),
         NEW f \in Frames, ~Closes(f), frames' = <<f>> \o Rest,
         UNCHANGED <<encoder, status, outcome, history>>, current_tag' \in Tags
  PROVE  Inv'
<1>1. Stack(Frames, <<f>> \o Rest, Due)
  BY TopFacts, StateFacts, PushPlain
<1> QED BY <1>1, QuietStep

LEMMA WriteImplicitKeeps ==
  ASSUME Inv, WriteImplicit
  PROVE  Inv'
<1>1. frames # <<>> /\ ~Closes(Top) /\ Top.object.of \in Objects /\ Top.object.tag \in Nat
  BY WritingFacts DEF WriteImplicit, WellFormed
<1> DEFINE f == Write(Top.object.of)
<1>2. f \in Frames /\ ~Closes(f)
  BY <1>1, WriteFrame
<1>3. current_tag' \in Tags
  BY <1>1, TagFacts DEF WriteImplicit
<1>4. frames' = <<f>> \o Rest /\ UNCHANGED <<encoder, status, outcome, history>>
  BY DEF WriteImplicit
<1> HIDE DEF f
<1> QED BY <1>1, <1>2, <1>3, <1>4, GoOn

LEMMA WriteTaggedAbsentKeeps ==
  ASSUME Inv, WriteTaggedAbsent
  PROVE  Inv'
<1>1. frames # <<>> /\ ~Closes(Top)
  BY DEF WriteTaggedAbsent, Writing, running, Closes, Closers
<1>2. frames' = Rest /\ UNCHANGED <<encoder, current_tag, status, outcome, history>>
  BY DEF WriteTaggedAbsent
<1>3. current_tag' \in Tags
  BY <1>2, StateFacts
<1>4. Stack(Frames, frames', Due)
  BY <1>1, <1>2, TopFacts
<1> QED BY <1>1, <1>2, <1>3, <1>4, QuietStep

LEMMA WritePartsKeeps ==
  ASSUME Inv, WriteParts
  PROVE  Inv'
<1>1. frames # <<>> /\ ~Closes(Top) /\ Top.object.of \in Seq(Objects)
  BY WritingFacts DEF WriteParts, WellFormed
<1> DEFINE f == Fields(Top.object.of)
<1>2. f \in Frames /\ ~Closes(f)
  BY <1>1, FieldsFrame
<1>3. frames' = <<f>> \o Rest /\ UNCHANGED <<encoder, current_tag, status, outcome, history>>
  BY DEF WriteParts
<1>4. current_tag' \in Tags
  BY <1>3, StateFacts
<1> HIDE DEF f
<1> QED BY <1>1, <1>2, <1>3, <1>4, GoOn

LEMMA WriteChoiceKeeps ==
  ASSUME Inv, WriteChoice
  PROVE  Inv'
<1>1. frames # <<>> /\ ~Closes(Top) /\ Top.object.of \in Seq(Objects)
  BY WritingFacts DEF WriteChoice, WellFormed
<1>2. UNCHANGED <<encoder, current_tag, outcome, history>>
  BY DEF WriteChoice
<1>3. current_tag' \in Tags
  BY <1>2, StateFacts
<1>4. CASE Top.object.of = <<>>
  <2>1. frames' = Rest /\ status' = "throwing"
    BY <1>4 DEF WriteChoice, Throw
  <2>2. Stack(Frames, frames', Due)
    BY <2>1, <1>1, TopFacts
  <2> QED BY <2>1, <2>2, <1>1, <1>2, <1>3, QuietStep
<1>5. CASE Top.object.of # <<>>
  <2> DEFINE f == Fields(Top.object.of)
  <2>1. f \in Frames /\ ~Closes(f)
    BY <1>1, FieldsFrame
  <2>2. frames' = <<f>> \o Rest /\ UNCHANGED status
    BY <1>5 DEF WriteChoice
  <2> HIDE DEF f
  <2> QED BY <2>1, <2>2, <1>1, <1>2, <1>3, GoOn
<1> QED BY <1>4, <1>5

LEMMA NextFieldKeeps ==
  ASSUME Inv, NextField
  PROVE  Inv'
<1>1. frames # <<>> /\ Top.call = "fields" /\ ~Closes(Top)
  BY DEF NextField, running, Closes, Closers
<1>2. Top.objects \in Seq(Objects)
  BY <1>1, TopFacts, FrameParts
<1>3. UNCHANGED <<encoder, current_tag, status, outcome, history>>
  BY DEF NextField
<1>4. current_tag' \in Tags
  BY <1>3, StateFacts
<1>5. Stack(Frames, Rest, Due) /\ Rest \in Seq(Frames) /\ Due \in Nat
  BY <1>1, TopFacts, StateFacts
<1>6. CASE Top.objects = <<>>
  <2>1. frames' = <<>> \o Rest
    BY <1>6 DEF NextField
  <2>2. frames' = Rest
    BY <2>1, <1>5, ConcatEmptySeq
  <2> QED BY <2>2, <1>1, <1>3, <1>4, <1>5, QuietStep
<1>7. CASE Top.objects # <<>>
  <2> DEFINE f == Write(Head(Top.objects))
             g == Fields(Tail(Top.objects))
  <2>1. Head(Top.objects) \in Objects /\ Tail(Top.objects) \in Seq(Objects)
    BY <1>2, <1>7, HeadTailProperties
  <2>2. f \in Frames /\ ~Closes(f) /\ g \in Frames /\ ~Closes(g)
    BY <2>1, WriteFrame, FieldsFrame
  <2>3. frames' = <<f, g>> \o Rest
    BY <1>7 DEF NextField
  <2> HIDE DEF f, g
  <2>4. Stack(Frames, frames', Due)
    BY <2>2, <2>3, <1>5, PushTwoPlain
  <2> QED BY <2>4, <1>1, <1>3, <1>4, QuietStep
<1> QED BY <1>6, <1>7

-----------------------------------------------------------------------------

\* Closing takes the innermost layer, which is the one the call on top of the
\* stack is to close or one that an exception has left inside it.
LEMMA ClosingFacts ==
  ASSUME Inv, frames # <<>>, Closes(Top), layers # <<>>
  PROVE  /\ Finished(Head(layers)) \in Seq(Cells)
         /\ Tail(layers) \in Seq(Layers)
         /\ Len(Tail(layers)) - leaked = Due - 1
         /\ Due - 1 \in Nat /\ Stack(Frames, Rest, Due - 1)
BY StateFacts, TopFacts, FinishedFacts

\* A layer that is passed on, or fails to be.
LEMMA CloseStep ==
  ASSUME Inv, frames # <<>>, Closes(Top), layers # <<>>,
         UNCHANGED <<current_tag, outcome, history>>,
         LET cells == Finished(Head(layers))
             ls == Tail(layers)
         IN \/ Sends(cells, ls) /\ frames' = Rest /\ UNCHANGED status
            \/ SendFails(cells, ls) /\ Throw
            \/ SendFails(cells, ls) /\ frames' = <<>> /\ status' = "terminated"
  PROVE  Inv'
<1> DEFINE cells == Finished(Head(layers))
           ls == Tail(layers)
<1>1. /\ cells \in Seq(Cells) /\ ls \in Seq(Layers)
      /\ Len(ls) - leaked = Due - 1 /\ Due - 1 \in Nat /\ Stack(Frames, Rest, Due - 1)
  BY ClosingFacts
<1>2. /\ current_tag' \in Tags /\ UNCHANGED <<outcome, calls, call, leaked>> /\ leaked' \in Nat
      /\ failures \in Nat
  BY StateFacts DEF history
<1>3. \/ Sends(cells, ls) /\ frames' = Rest /\ UNCHANGED status
      \/ SendFails(cells, ls) /\ Throw
      \/ SendFails(cells, ls) /\ frames' = <<>> /\ status' = "terminated"
  OBVIOUS
<1> HIDE DEF cells, ls
<1>4. CASE Sends(cells, ls) /\ frames' = Rest /\ UNCHANGED status
  <2>1. /\ layers' \in Seq(Layers) /\ Len(layers') = Len(ls)
        /\ out' \in Seq(Cells) /\ failures' = failures
    BY <1>1, <1>4, SendsKeeps
  <2>2. Due' = Due - 1
    BY <2>1, <1>1, <1>2 DEF Due
  <2>3. /\ failures' \in Nat /\ failures <= failures'
        /\ status' \in Statuses /\ status' \in {"running", "throwing"}
    BY <2>1, <1>4, StateFacts, TopFacts
  <2>4. Due' \in Nat /\ Stack(Frames, frames', Due')
    BY <2>2, <1>1, <1>4
  <2> QED BY <2>1, <2>3, <2>4, <1>2, <1>4, StepKeeps
<1>5. CASE SendFails(cells, ls) /\ Throw
  <2>1. /\ layers' \in Seq(Layers) /\ Len(layers') = Len(ls)
        /\ out' \in Seq(Cells) /\ failures' = failures + 1
    BY <1>1, <1>5, SendFailsKeeps
  <2>2. Due' = Due - 1
    BY <2>1, <1>1, <1>2 DEF Due
  <2>3. frames' = Rest /\ status' = "throwing" /\ status' \in Statuses
    BY <1>5 DEF Throw, Statuses
  <2>4. Due' \in Nat /\ Stack(Frames, frames', Due')
    BY <2>2, <2>3, <1>1
  <2>5. failures' \in Nat /\ failures <= failures'
    BY <2>1, <1>2
  <2> QED BY <2>1, <2>3, <2>4, <2>5, <1>2, StepKeeps
<1>6. CASE SendFails(cells, ls) /\ frames' = <<>> /\ status' = "terminated"
  <2>1. /\ layers' \in Seq(Layers) /\ Len(layers') = Len(ls)
        /\ out' \in Seq(Cells) /\ failures' = failures + 1
    BY <1>1, <1>6, SendFailsKeeps
  <2>2. Len(ls) = 0
    BY <1>6 DEF SendFails
  <2>3. Due' = 0
    BY <2>1, <2>2, <1>1, <1>2, StateFacts DEF Due
  <2>4. Due' \in Nat /\ Stack(Frames, frames', Due')
    BY <2>3, <1>6, NoneToClose
  <2>5. failures' \in Nat /\ failures <= failures' /\ status' \in Statuses
    BY <2>1, <1>2, <1>6 DEF Statuses
  <2> QED BY <2>1, <2>4, <2>5, <1>2, <1>6, StepKeeps
<1> QED BY <1>3, <1>4, <1>5, <1>6

LEMMA CloseSequenceKeeps ==
  ASSUME Inv, CloseSequence
  PROVE  Inv'
<1>1. frames # <<>> /\ Closes(Top) /\ layers # <<>>
  BY DEF CloseSequence, Closes, Closers
<1> QED BY <1>1, CloseStep DEF CloseSequence

LEMMA CloseExplicitKeeps ==
  ASSUME Inv, CloseExplicit
  PROVE  Inv'
<1>1. frames # <<>> /\ Closes(Top) /\ layers # <<>>
  BY DEF CloseExplicit, running, Closes, Closers
<1> QED BY <1>1, CloseStep DEF CloseExplicit

\* An exception passes: the layer of an explicit tag is left behind.
LEMMA UnwindKeeps ==
  ASSUME Inv, Unwind
  PROVE  Inv'
<1>1. /\ frames # <<>> /\ frames' = Rest /\ Top.call # "end sequence"
      /\ UNCHANGED <<encoder, current_tag, status, outcome, calls, call>>
      /\ leaked' = IF Top.call = "end explicit" THEN leaked + 1 ELSE leaked
  BY DEF Unwind
<1>2. UNCHANGED <<layers, out, failures, outcome, calls, call>>
  BY <1>1 DEF encoder
<1>3. leaked \in Nat /\ current_tag' = current_tag /\ status' = status
  BY <1>1, StateFacts
<1>4. /\ current_tag' \in Tags /\ failures' \in Nat /\ failures <= failures'
      /\ layers' \in Seq(Layers) /\ out' \in Seq(Cells)
  BY <1>2, <1>3, StateFacts
<1>5. frames # <<>> /\ frames' = Rest
  BY <1>1
<1>6. status' \in Statuses /\ status' \in {"running", "throwing"}
  BY <1>3, <1>5, StateFacts, TopFacts
<1>7. CASE Top.call = "end explicit"
  <2>1. Closes(Top) /\ leaked' = leaked + 1
    BY <1>1, <1>7, Zenon DEF Closes, Closers
  <2>2. Due' = Due - 1
    BY <2>1, <1>2, <1>3, StateFacts DEF Due
  <2>3. Due - 1 \in Nat /\ Stack(Frames, Rest, Due - 1)
    BY <2>1, <1>5, TopFacts
  <2>4. Due' \in Nat /\ Stack(Frames, frames', Due')
    BY <2>2, <2>3, <1>5
  <2>5. leaked' \in Nat
    BY <2>1, <1>3
  <2> QED BY <2>4, <2>5, <1>2, <1>3, <1>4, <1>6, StepKeeps
<1>8. CASE Top.call # "end explicit"
  <2>1. ~Closes(Top) /\ leaked' = leaked
    BY <1>1, <1>8, Zenon DEF Closes, Closers
  <2>2. Due' = Due /\ Due \in Nat
    BY <2>1, <1>2, StateFacts DEF Due
  <2>3. Stack(Frames, Rest, Due)
    BY <2>1, <1>5, TopFacts
  <2>4. Due' \in Nat /\ Stack(Frames, frames', Due') /\ leaked' \in Nat
    BY <2>1, <2>2, <2>3, <1>3, <1>5
  <2> QED BY <2>4, <1>2, <1>3, <1>4, <1>6, StepKeeps
<1> QED BY <1>7, <1>8

LEMMA ReturnKeeps ==
  ASSUME Inv, Return
  PROVE  Inv'
<1>1. /\ status \in {"running", "throwing"} /\ status' = "idle" /\ frames = <<>>
      /\ outcome' = IF status = "running" THEN "ok" ELSE "thrown"
      /\ UNCHANGED <<encoder, current_tag, frames, history>>
  BY DEF Return
<1>2. UNCHANGED <<layers, out, failures, leaked, calls, call>>
  BY <1>1 DEF encoder, history
<1>3. TypeOK'
  BY <1>1, <1>2 DEF Inv, TypeOK, Statuses
<1>4. Due' \in Nat /\ Stack(Frames, frames', Due') /\ frames' = <<>>
  BY <1>1, <1>2 DEF Inv, Due
<1>5. FailureReported'
  BY <1>1, <1>2 DEF Inv, FailureReported
<1> QED BY <1>3, <1>4, <1>5 DEF Inv

LEMMA CallKeeps ==
  ASSUME Inv, NEW c \in Cases, NEW fresh \in BOOLEAN, Call(c, fresh)
  PROVE  Inv'
<1>1. /\ status = "idle" /\ status' = "running" /\ calls' = calls + 1
      /\ frames' = <<Write(c.object)>>
      /\ layers' = IF fresh THEN <<>> ELSE layers
      /\ current_tag' = IF fresh THEN NoTag ELSE current_tag
      /\ leaked' = IF fresh THEN 0 ELSE leaked
      /\ UNCHANGED <<out, outcome, failures>>
  BY DEF Call
<1>2. call'.case = c /\ call'.failures = failures
  BY DEF Call
<1>3. c.object \in Objects
  BY SerialiserAssumption DEF SerialiserAssumption
<1>4. layers' \in Seq(Layers)
  BY <1>1, StateFacts
<1>5. frames = <<>>
  BY <1>1 DEF Inv
<1>6. Due = 0
  BY <1>5, StateFacts, NoneDue
<1>7. Due' = 0
  <2>1. CASE fresh
    BY <2>1, <1>1 DEF Due
  <2>2. CASE ~fresh
    <3>1. layers' = layers /\ leaked' = leaked
      BY <2>2, <1>1, Zenon
    <3> QED BY <3>1, <1>6 DEF Due
  <2> QED BY <2>1, <2>2
<1>8. Stack(Frames, frames', 0)
  <2> DEFINE none == <<>>
             w == Write(c.object)
  <2>1. w \in Frames /\ ~Closes(w)
    BY <1>3, WriteFrame
  <2>2. none \in Seq(Frames) /\ Stack(Frames, none, 0)
    BY NoneToClose
  <2>3. <<w>> \o none = <<w>>
    <3> HIDE DEF w
    <3>1. <<w>> \in Seq(Frames)
      BY <2>1
    <3> QED BY <3>1, ConcatEmptySeq
  <2> HIDE DEF none, w
  <2>4. Stack(Frames, <<w>> \o none, 0)
    BY <2>1, <2>2, PushPlain
  <2>5. frames' = <<w>>
    BY <1>1 DEF w
  <2> QED BY <2>3, <2>4, <2>5, Zenon
<1>9. Due' \in Nat /\ Stack(Frames, frames', Due') /\ frames' \in Seq(Frames)
  BY <1>7, <1>8 DEF Stack
<1>10. current_tag' \in Tags /\ leaked' \in Nat /\ calls' \in Nat /\ failures' = failures
  BY <1>1, StateFacts, TagFacts
<1>11. TypeOK'
  BY <1>1, <1>2, <1>4, <1>9, <1>10 DEF Inv, TypeOK, Statuses
<1>12. FailureReported'
  BY <1>2, <1>10, StateFacts DEF FailureReported
<1> QED BY <1>1, <1>9, <1>11, <1>12 DEF Inv

LEMMA InitInv ==
  ASSUME Init
  PROVE  Inv
<1>1. /\ layers = <<>> /\ out = <<>> /\ frames = <<>> /\ current_tag = NoTag
      /\ status = "idle" /\ outcome = "none" /\ failures = 0 /\ leaked = 0 /\ calls = 0
  BY DEF Init
<1>2. call.case \in Cases /\ call.failures = 0
  BY SerialiserAssumption DEF Init, SerialiserAssumption
<1>3. Due = 0 /\ Stack(Frames, frames, Due)
  BY <1>1, NoneToClose DEF Due
<1>4. TypeOK
  BY <1>1, <1>2, TagFacts DEF TypeOK, Statuses
<1>5. FailureReported
  BY <1>1, <1>2 DEF FailureReported
<1> QED BY <1>1, <1>3, <1>4, <1>5 DEF Inv

LEMMA StutterKeeps ==
  ASSUME Inv, UNCHANGED vars
  PROVE  Inv'
<1>1. /\ layers' = layers /\ out' = out /\ current_tag' = current_tag /\ frames' = frames
      /\ status' = status /\ outcome' = outcome /\ failures' = failures
      /\ leaked' = leaked /\ calls' = calls /\ call' = call
  BY DEF vars
<1> QED BY <1>1 DEF Inv, TypeOK, Due, FailureReported

LEMMA NextInv ==
  ASSUME Inv, [Next]_vars
  PROVE  Inv'
<1>1. CASE Step
  BY <1>1, WritePrimitiveKeeps, WriteSequenceKeeps, WriteImplicitKeeps, WriteExplicitKeeps,
     WriteTaggedAbsentKeeps, WritePartsKeeps, WriteChoiceKeeps, WriteTrailingKeeps,
     NextFieldKeeps, CloseSequenceKeeps, CloseExplicitKeeps, UnwindKeeps, ReturnKeeps
     DEF Step
<1>2. CASE \E c \in Cases, fresh \in BOOLEAN : Call(c, fresh)
  BY <1>2, CallKeeps
<1>3. CASE UNCHANGED vars
  BY <1>3, StutterKeeps
<1> QED BY <1>1, <1>2, <1>3 DEF Next, Stopped

\* Whatever is written, the state of the encoder keeps its type: in particular
\* what is in the layers and on the stream are octets and headers.
THEOREM TypeInvariance == Spec => []TypeOK
<1>1. Init => Inv
  BY InitInv
<1>2. Inv /\ [Next]_vars => Inv'
  BY NextInv
<1>3. Inv => TypeOK
  BY DEF Inv
<1> QED BY <1>1, <1>2, <1>3, PTL DEF Spec

\* However calls return, exceptions pass and explicit tags are left behind,
\* every call that is still to close a layer finds one for it: the assert of
\* pop never fails (asn_der_encoder.hpp:175).
THEOREM LayersStayOpen == Spec => []LayersOpen
<1>1. Init => Inv
  BY InitInv
<1>2. Inv /\ [Next]_vars => Inv'
  BY NextInv
<1>3. Inv => LayersOpen
  <2> SUFFICES ASSUME Inv
               PROVE  LayersOpen
    OBVIOUS
  <2>1. /\ Due \in Nat /\ Due = Len(layers) - leaked /\ leaked \in Nat /\ Len(layers) \in Nat
        /\ Scoped(frames, Due)
    BY StateFacts DEF Stack
  <2>2. \A d \in 1 .. Due : d \in 1 .. Len(layers)
    BY <2>1
  <2> QED BY <2>1, <2>2 DEF Scoped, LayersOpen, Closes, DepthOf
<1> QED BY <1>1, <1>2, <1>3, PTL DEF Spec

\* Between calls the encoder holds back nothing but the layers of explicit tags
\* that exceptions have passed, however many calls were made and whatever they
\* threw (asn_der_encoder.hpp:84-103).
THEOREM NothingIsHeldBack == Spec => []NothingHeldBack
<1>1. Init => Inv
  BY InitInv
<1>2. Inv /\ [Next]_vars => Inv'
  BY NextInv
<1>3. Inv => NothingHeldBack
  <2> SUFFICES ASSUME Inv, status = "idle"
               PROVE  Len(layers) = leaked
    BY DEF NothingHeldBack
  <2>1. frames = <<>>
    BY DEF Inv
  <2>2. Due = 0
    BY <2>1, StateFacts, NoneDue
  <2> QED BY <2>2, StateFacts
<1> QED BY <1>1, <1>2, <1>3, PTL DEF Spec

\* Whenever the stream fails in a call, the caller gets an exception or the
\* program ends, also when the failure is found out by the destructor of a
\* sequence (asn_der_encoder.hpp:84-91, 160).
THEOREM FailuresReported == Spec => []FailureReported
<1>1. Init => Inv
  BY InitInv
<1>2. Inv /\ [Next]_vars => Inv'
  BY NextInv
<1>3. Inv => FailureReported
  BY DEF Inv
<1> QED BY <1>1, <1>2, <1>3, PTL DEF Spec

-----------------------------------------------------------------------------

\* What is collected in every layer are whole values, at any time; what is on
\* the stream are, until it fails.
WholeLayers == { l \in Layers : Whole(l.data) }

WholeInv ==
  /\ layers \in Seq(WholeLayers)
  /\ failures = 0 => Whole(out)

LEMMA QuietWhole ==
  ASSUME WholeInv, UNCHANGED encoder
  PROVE  WholeInv'
BY DEF WholeInv, encoder

LEMMA SendsWhole ==
  ASSUME Inv, WholeInv, NEW cells \in Seq(Cells), Whole(cells),
         NEW ls \in Seq(WholeLayers), Sends(cells, ls)
  PROVE  WholeInv'
<1>1. failures' = failures
  BY DEF Sends
<1>2. CASE /\ ls # <<>>
           /\ layers' = <<[Head(ls) EXCEPT !.data = @ \o cells]>> \o Tail(ls)
           /\ UNCHANGED out
  <2>1. Head(ls) \in WholeLayers /\ Tail(ls) \in Seq(WholeLayers)
    BY <1>2, HeadTailProperties
  <2> DEFINE h == Head(ls)
             d == h.data \o cells
             l == [h EXCEPT !.data = d]
  <2>2. h \in Layers /\ h.data \in Seq(Cells) /\ Whole(h.data) /\ l \in Layers
    BY <2>1, LayerFacts DEF WholeLayers
  <2>3. Whole(d)
    BY <2>2, WholeConcat
  <2>4. l.data = d
    <3> HIDE DEF d, h
    <3> QED BY <2>2 DEF Layers
  <2>5. l \in WholeLayers
    BY <2>2, <2>3, <2>4 DEF WholeLayers
  <2>6. layers' = <<l>> \o Tail(ls)
    BY <1>2
  <2> HIDE DEF l
  <2>7. <<l>> \in Seq(WholeLayers)
    BY <2>5
  <2>8. layers' \in Seq(WholeLayers)
    BY <2>1, <2>6, <2>7, ConcatProperties
  <2> QED BY <2>8, <1>1, <1>2 DEF WholeInv
<1>3. CASE ls = <<>> /\ layers' = <<>> /\ out' = out \o cells
  <2>1. failures = 0 => Whole(out \o cells)
    BY StateFacts, WholeConcat DEF WholeInv
  <2>2. layers' \in Seq(WholeLayers)
    BY <1>3
  <2> QED BY <2>1, <2>2, <1>1, <1>3 DEF WholeInv
<1> QED BY <1>2, <1>3 DEF Sends

LEMMA SendFailsWhole ==
  ASSUME Inv, NEW cells, NEW ls, SendFails(cells, ls)
  PROVE  WholeInv'
<1>1. layers' = <<>> /\ failures' = failures + 1
  BY DEF SendFails
<1>2. failures' # 0
  BY <1>1, StateFacts
<1>3. layers' \in Seq(WholeLayers)
  BY <1>1
<1> QED BY <1>2, <1>3 DEF WholeInv

LEMMA OpenWhole ==
  ASSUME WholeInv, NEW t \in Tags, NEW inside, Open(t, inside)
  PROVE  WholeInv'
<1> DEFINE l == Layer(t)
<1>1. l \in Layers /\ l.data = <<>>
  BY DEF Layer, Layers
<1>2. l \in WholeLayers
  BY <1>1, WholeNone DEF WholeLayers
<1>3. layers' = <<l>> \o layers /\ out' = out /\ failures' = failures
  BY DEF Open
<1> HIDE DEF l
<1>4. <<l>> \in Seq(WholeLayers)
  BY <1>2
<1>5. layers' \in Seq(WholeLayers)
  BY <1>3, <1>4, ConcatProperties DEF WholeInv
<1> QED BY <1>3, <1>5 DEF WholeInv

LEMMA WritePrimitiveWhole ==
  ASSUME Inv, WholeInv, WritePrimitive
  PROVE  WholeInv'
<1> DEFINE o == Top.object
           t == TagOr(o.tag)
           cells == Wrapped(t, FALSE, Octets(o.octets))
<1>1. o.tag \in Tags /\ o.octets \in Seq(0 .. 255)
  BY WritingFacts DEF WritePrimitive, WellFormed
<1>2. t \in Tags /\ Octets(o.octets) \in Seq(Cells)
  BY <1>1, TagOrFacts, OctetsFacts
<1>3. Whole(cells)
  <2> HIDE DEF o, t
  <2> QED BY <1>1, <1>2, WholePrimitive
<1>4. cells \in Seq(Cells)
  <2>1. FALSE \in BOOLEAN
    BY Zenon
  <2> HIDE DEF o, t
  <2> QED BY <2>1, <1>2, WrappedFacts
<1>5. \/ UNCHANGED encoder
      \/ Sends(cells, layers)
      \/ SendFails(cells, layers)
  BY DEF WritePrimitive
<1>6. layers \in Seq(WholeLayers)
  BY DEF WholeInv
<1> HIDE DEF cells
<1> QED BY <1>3, <1>4, <1>5, <1>6, QuietWhole, SendsWhole, SendFailsWhole

LEMMA WriteTrailingWhole ==
  ASSUME TrailingWhole, Inv, WholeInv, WriteTrailing
  PROVE  WholeInv'
<1> DEFINE cells == Top.object.cells
<1>1. cells \in Seq(Cells) /\ Whole(cells)
  BY WritingFacts DEF WriteTrailing, WellFormed, TrailingWhole
<1>2. Sends(cells, layers) \/ SendFails(cells, layers)
  BY DEF WriteTrailing
<1>3. layers \in Seq(WholeLayers)
  BY DEF WholeInv
<1> HIDE DEF cells
<1> QED BY <1>1, <1>2, <1>3, SendsWhole, SendFailsWhole

\* What closes a layer passes on a value of values.
LEMMA CloseWhole ==
  ASSUME Inv, WholeInv, layers # <<>>,
         \/ Sends(Finished(Head(layers)), Tail(layers))
         \/ SendFails(Finished(Head(layers)), Tail(layers))
  PROVE  WholeInv'
<1>1. Head(layers) \in WholeLayers /\ Tail(layers) \in Seq(WholeLayers)
  BY HeadTailProperties DEF WholeInv
<1>2. Finished(Head(layers)) \in Seq(Cells)
  BY FinishedFacts
<1>3. Whole(Finished(Head(layers)))
  BY <1>1, LayerFacts, WholeConstructed DEF WholeLayers, Finished
<1> QED BY <1>1, <1>2, <1>3, SendsWhole, SendFailsWhole

LEMMA StepWhole ==
  ASSUME TrailingWhole, Inv, WholeInv, Step
  PROVE  WholeInv'
<1>1. CASE WriteSequence
  BY <1>1, WritingFacts, TagOrFacts, OpenWhole DEF WriteSequence, WellFormed
<1>2. CASE WriteExplicit
  BY <1>2, WritingFacts, TagFacts, OpenWhole DEF WriteExplicit, WellFormed
<1>3. CASE CloseSequence
  BY <1>3, CloseWhole DEF CloseSequence
<1>4. CASE CloseExplicit
  BY <1>4, CloseWhole DEF CloseExplicit
<1>5. CASE \/ WriteImplicit \/ WriteTaggedAbsent \/ WriteParts \/ WriteChoice
           \/ NextField \/ Unwind \/ Return
  <2>1. UNCHANGED encoder
    BY <1>5 DEF WriteImplicit, WriteTaggedAbsent, WriteParts, WriteChoice, NextField,
                Unwind, Return
  <2> QED BY <2>1, QuietWhole
<1> QED BY <1>1, <1>2, <1>3, <1>4, <1>5, WritePrimitiveWhole, WriteTrailingWhole DEF Step

LEMMA NextWhole ==
  ASSUME TrailingWhole, Inv, WholeInv, [Next]_vars
  PROVE  WholeInv'
<1>1. CASE \E c \in Cases, fresh \in BOOLEAN : Call(c, fresh)
  <2>1. PICK c \in Cases, fresh \in BOOLEAN : Call(c, fresh)
    BY <1>1
  <2>2. /\ layers' = (IF fresh THEN <<>> ELSE layers)
        /\ out' = out /\ failures' = failures
    BY <2>1 DEF Call
  <2>3. layers' \in Seq(WholeLayers)
    BY <2>2 DEF WholeInv
  <2> QED BY <2>2, <2>3 DEF WholeInv
<1>2. CASE UNCHANGED vars
  BY <1>2, QuietWhole DEF vars, encoder
<1> QED BY <1>1, <1>2, StepWhole DEF Next, Stopped

\* Provided that trailing data are whole values themselves, everything on a
\* stream that has not failed is: values one behind the other, each as long as
\* its header says and each of its parts within it, also when exceptions have
\* cut sequences short or left layers behind (asn_der_encoder.hpp:84-91).
THEOREM OutputStaysWhole ==
  ASSUME TrailingWhole
  PROVE  Spec => []OutputWhole
<1>1. Init => Inv /\ WholeInv
  <2> SUFFICES ASSUME Init
               PROVE  Inv /\ WholeInv
    OBVIOUS
  <2>1. layers \in Seq(WholeLayers) /\ out = <<>>
    BY DEF Init
  <2> QED BY <2>1, InitInv, WholeNone DEF WholeInv
<1>2. Inv /\ WholeInv /\ [Next]_vars => Inv' /\ WholeInv'
  BY NextInv, NextWhole
<1>3. WholeInv => OutputWhole
  BY DEF WholeInv, OutputWhole
<1> QED BY <1>1, <1>2, <1>3, PTL DEF Spec


-----------------------------------------------------------------------------
(***************************************************************************)
(* What a definition by recursion defines.                                 *)
(***************************************************************************)

\* g is a followed by what step makes of it, n times.
Iterated(S, a, step, g, n) ==
  g \in [0 .. n -> S] /\ g[0] = a /\ \A k \in 0 .. n - 1 : g[k + 1] = step[g[k]]

LEMMA IteratedExists ==
  ASSUME NEW S, NEW a \in S, NEW step \in [S -> S]
  PROVE  \A n \in Nat : \E g : Iterated(S, a, step, g, n)
<1> DEFINE N == { n \in Nat : \E g : Iterated(S, a, step, g, n) }
<1>1. 0 \in N
  <2> DEFINE g == [k \in 0 .. 0 |-> a]
  <2>1. Iterated(S, a, step, g, 0)
    BY DEF Iterated
  <2> HIDE DEF g
  <2> QED BY <2>1
<1>2. ASSUME NEW n \in Nat, n \in N
      PROVE  n + 1 \in N
  <2>1. PICK g : Iterated(S, a, step, g, n)
    BY <1>2
  <2>2. g \in [0 .. n -> S] /\ g[0] = a /\ \A k \in 0 .. n - 1 : g[k + 1] = step[g[k]]
    BY <2>1 DEF Iterated
  <2> DEFINE h == [k \in 0 .. n + 1 |-> IF k = n + 1 THEN step[g[n]] ELSE g[k]]
  <2>3. g[n] \in S /\ step[g[n]] \in S
    BY <2>2
  <2>4. h \in [0 .. n + 1 -> S] /\ h[0] = a
    BY <2>2, <2>3
  <2>5. ASSUME NEW k \in 0 .. n + 1 - 1
        PROVE  h[k + 1] = step[h[k]]
    <3>1. CASE k = n
      BY <3>1
    <3>2. CASE k # n
      <4>1. k \in 0 .. n - 1 /\ k + 1 \in 0 .. n /\ k + 1 # n + 1 /\ k # n + 1
        BY <3>2
      <4>2. g[k + 1] = step[g[k]]
        BY <4>1, <2>2
      <4> QED BY <4>1, <4>2
    <3> QED BY <3>1, <3>2
  <2> HIDE DEF h
  <2>6. Iterated(S, a, step, h, n + 1)
    BY <2>4, <2>5 DEF Iterated
  <2> QED BY <2>6
<1> HIDE DEF N
<1>3. \A n \in Nat : n \in N
  BY <1>1, <1>2, SetInduction
<1> QED BY <1>3 DEF N

LEMMA IteratedUnique ==
  ASSUME NEW S, NEW a \in S, NEW step \in [S -> S], NEW m \in Nat, NEW n \in Nat,
         NEW g, NEW h, Iterated(S, a, step, g, m), Iterated(S, a, step, h, n),
         NEW k \in Nat, k <= m, k <= n
  PROVE  g[k] = h[k]
<1> DEFINE N == { i \in Nat : i <= m /\ i <= n => g[i] = h[i] }
<1>1. 0 \in N
  BY DEF Iterated
<1>2. ASSUME NEW i \in Nat, i \in N
      PROVE  i + 1 \in N
  <2> SUFFICES ASSUME i + 1 <= m, i + 1 <= n
               PROVE  g[i + 1] = h[i + 1]
    OBVIOUS
  <2>1. i \in 0 .. m - 1 /\ i \in 0 .. n - 1 /\ g[i] = h[i]
    BY <1>2
  <2> QED BY <2>1 DEF Iterated
<1> HIDE DEF N
<1>3. \A i \in Nat : i \in N
  BY <1>1, <1>2, SetInduction
<1> QED BY <1>3 DEF N

\* Doing step again and again.
Iterates(S, a, step, f) ==
  f \in [Nat -> S] /\ f[0] = a /\ \A n \in Nat : f[n + 1] = step[f[n]]

LEMMA IteratesExist ==
  ASSUME NEW S, NEW a \in S, NEW step \in [S -> S]
  PROVE  \E f : Iterates(S, a, step, f)
<1> DEFINE G(n) == CHOOSE g : Iterated(S, a, step, g, n)
           f == [n \in Nat |-> G(n)[n]]
<1>1. \A n \in Nat : Iterated(S, a, step, G(n), n)
  BY IteratedExists
<1> HIDE DEF G
<1>2. f \in [Nat -> S] /\ f[0] = a
  BY <1>1 DEF Iterated
<1>3. ASSUME NEW n \in Nat
      PROVE  f[n + 1] = step[f[n]]
  <2>1. Iterated(S, a, step, G(n + 1), n + 1) /\ Iterated(S, a, step, G(n), n) /\ n <= n + 1 /\ n + 1 \in Nat
    BY <1>1
  <2>2. G(n + 1)[n] = G(n)[n]
    BY <2>1, IteratedUnique
  <2>3. n \in 0 .. (n + 1) - 1
    OBVIOUS
  <2>4. G(n + 1)[n + 1] = step[G(n + 1)[n]]
    BY <2>1, <2>3 DEF Iterated
  <2> QED BY <2>1, <2>2, <2>4
<1> HIDE DEF f
<1>4. Iterates(S, a, step, f)
  BY <1>2, <1>3 DEF Iterates
<1> QED BY <1>4

\* What Phi makes of f is at x a matter of what f is where the rank is less.
ByRank(D, W, rank, Phi) ==
  /\ Phi \in [[D -> W] -> [D -> W]]
  /\ \A f, g \in [D -> W], x \in D :
       (\A y \in D : rank[y] < rank[x] => f[y] = g[y]) => Phi[f][x] = Phi[g][x]

\* A function is defined by what it is at x in terms of what it is where the
\* rank is less: there is one that is what Phi makes of it.
LEMMA Recursion ==
  ASSUME NEW D, NEW W, NEW w0 \in W, NEW rank \in [D -> Nat],
         NEW Phi, ByRank(D, W, rank, Phi)
  PROVE  \E f \in [D -> W] : f = Phi[f]
<1> DEFINE S == [D -> W]
           start == [x \in D |-> w0]
<1>1. start \in S /\ Phi \in [S -> S]
  BY DEF ByRank
<1>2. PICK F : Iterates(S, start, Phi, F)
  <2> HIDE DEF S, start
  <2> QED BY <1>1, IteratesExist
<1> HIDE DEF start
<1>3. \A n \in Nat : F[n] \in S /\ F[n + 1] = Phi[F[n]]
  <2> HIDE DEF S
  <2> QED BY <1>2 DEF Iterates
\* What is less than n is settled after n steps.
<1> DEFINE N == { n \in Nat : \A x \in D : rank[x] < n => F[n + 1][x] = F[n][x] }
<1>4. 0 \in N
  OBVIOUS
<1>5. ASSUME NEW n \in Nat, n \in N
      PROVE  n + 1 \in N
  <2> SUFFICES ASSUME NEW x \in D, rank[x] < n + 1
               PROVE  F[n + 1 + 1][x] = F[n + 1][x]
    OBVIOUS
  <2>1. \A y \in D : rank[y] < rank[x] => F[n + 1][y] = F[n][y]
    BY <1>5
  <2>2. F[n + 1] \in [D -> W] /\ F[n] \in [D -> W]
    BY <1>3
  <2>3. Phi[F[n + 1]][x] = Phi[F[n]][x]
    BY <2>1, <2>2 DEF ByRank
  <2>4. n + 1 \in Nat /\ F[n + 1 + 1] = Phi[F[n + 1]] /\ F[n + 1] = Phi[F[n]]
    BY <1>3
  <2> QED BY <2>3, <2>4
<1> HIDE DEF N
<1>6. \A n \in Nat : n \in N
  BY <1>4, <1>5, SetInduction
<1>7. ASSUME NEW n \in Nat, NEW x \in D, rank[x] < n
      PROVE  F[n + 1][x] = F[n][x]
  BY <1>6, <1>7 DEF N
<1> DEFINE g == [x \in D |-> F[rank[x] + 1][x]]
           M == { n \in Nat : \A x \in D : rank[x] < n => F[n][x] = g[x] }
<1>8. 0 \in M
  OBVIOUS
<1>9. ASSUME NEW n \in Nat, n \in M
      PROVE  n + 1 \in M
  <2> SUFFICES ASSUME NEW x \in D, rank[x] < n + 1
               PROVE  F[n + 1][x] = g[x]
    OBVIOUS
  <2>1. CASE rank[x] < n
    BY <2>1, <1>9, <1>7
  <2>2. CASE rank[x] = n
    <3>1. g[x] = F[rank[x] + 1][x]
      OBVIOUS
    <3> QED BY <2>2, <3>1, Zenon
  <2>3. rank[x] \in Nat
    OBVIOUS
  <2>4. rank[x] < n \/ rank[x] = n
    BY <2>3
  <2> QED BY <2>1, <2>2, <2>4, Zenon
<1> HIDE DEF M
<1>10. \A n \in Nat : n \in M
  BY <1>8, <1>9, SetInduction
<1>11. ASSUME NEW n \in Nat, NEW x \in D, rank[x] < n
       PROVE  F[n][x] = g[x]
  BY <1>10, <1>11 DEF M
<1>12. g \in [D -> W]
  BY <1>3
<1>13. ASSUME NEW x \in D
       PROVE  g[x] = Phi[g][x]
  <2> DEFINE n == rank[x]
  <2>1. n \in Nat
    OBVIOUS
  <2>2. \A y \in D : rank[y] < rank[x] => F[n][y] = g[y]
    BY <2>1, <1>11
  <2>3. Phi[F[n]][x] = Phi[g][x]
    <3>1. F[n] \in [D -> W]
      BY <2>1, <1>3
    <3> HIDE DEF g, n
    <3> QED BY <2>2, <3>1, <1>12 DEF ByRank
  <2>4. F[n + 1] = Phi[F[n]]
    BY <2>1, <1>3
  <2> QED BY <2>3, <2>4
<1> HIDE DEF g
<1>14. g = Phi[g]
  <2>1. Phi[g] \in [D -> W]
    BY <1>12 DEF ByRank
  <2> QED BY <2>1, <1>12, <1>13
<1> QED BY <1>12, <1>14


\* Weight is what it is defined to be.
LEMMA WeightDefined ==
  Weight = [os \in Seq(Objects) |->
              IF os = <<>> THEN 0 ELSE 1 + Size[Head(os)] + Weight[Tail(os)]]
<1> DEFINE D == Seq(Objects)
           rank == [os \in D |-> Len(os)]
           Body(f, os) == IF os = <<>> THEN 0 ELSE 1 + Size[Head(os)] + f[Tail(os)]
           Phi == [f \in [D -> Nat] |-> [os \in D |-> Body(f, os)]]
<1>1. rank \in [D -> Nat]
  BY LenProperties
<1>2. ASSUME NEW f \in [D -> Nat], NEW os \in D
      PROVE  Body(f, os) \in Nat
  <2>1. CASE os = <<>>
    BY <2>1
  <2>2. CASE os # <<>>
    <3>1. Head(os) \in Objects /\ Tail(os) \in D
      BY <2>2, HeadTailProperties
    <3>2. Size[Head(os)] \in Nat /\ f[Tail(os)] \in Nat
      BY <3>1, SerialiserOutputAssumption DEF SerialiserOutputAssumption
    <3> QED BY <2>2, <3>2
  <2> QED BY <2>1, <2>2
<1>3. ASSUME NEW f \in [D -> Nat], NEW g \in [D -> Nat], NEW os \in D,
             \A y \in D : rank[y] < rank[os] => f[y] = g[y]
      PROVE  Body(f, os) = Body(g, os)
  <2>1. CASE os = <<>>
    BY <2>1
  <2>2. CASE os # <<>>
    <3>1. Tail(os) \in D /\ Len(Tail(os)) < Len(os)
      BY <2>2, HeadTailProperties, LenProperties
    <3>2. rank[Tail(os)] < rank[os]
      BY <3>1
    <3>3. f[Tail(os)] = g[Tail(os)]
      BY <3>1, <3>2, <1>3
    <3> QED BY <2>2, <3>3
  <2> QED BY <2>1, <2>2
<1>4. ByRank(D, Nat, rank, Phi)
  <2>1. Phi \in [[D -> Nat] -> [D -> Nat]]
    <3> HIDE DEF Body, rank, D
    <3> QED BY <1>2
  <2>2. ASSUME NEW f \in [D -> Nat], NEW g \in [D -> Nat], NEW os \in D,
               \A y \in D : rank[y] < rank[os] => f[y] = g[y]
        PROVE  Phi[f][os] = Phi[g][os]
    <3>1. Body(f, os) = Body(g, os)
      BY <2>2, <1>3
    <3> HIDE DEF Body, rank, D
    <3>2. Phi[f][os] = Body(f, os) /\ Phi[g][os] = Body(g, os)
      OBVIOUS
    <3> QED BY <3>1, <3>2
  <2> HIDE DEF Phi, rank, D
  <2> QED BY <2>1, <2>2 DEF ByRank
<1>5. PICK f \in [D -> Nat] : f = Phi[f]
  <2> HIDE DEF Phi, rank, D
  <2>1. 0 \in Nat
    OBVIOUS
  <2> QED BY <1>1, <1>4, <2>1, Recursion
<1>6. f = [os \in D |-> Body(f, os)]
  <2> HIDE DEF Body, D
  <2> QED BY <1>5
<1> QED BY <1>6 DEF Weight

LEMMA WeightFacts ==
  /\ Weight \in [Seq(Objects) -> Nat]
  /\ Weight[<<>>] = 0
  /\ \A os \in Seq(Objects) :
       os # <<>> => Weight[os] = 1 + Size[Head(os)] + Weight[Tail(os)]
<1> DEFINE D == Seq(Objects)
<1>1. /\ Weight[<<>>] = 0
      /\ \A os \in D : os # <<>> => Weight[os] = 1 + Size[Head(os)] + Weight[Tail(os)]
  <2>1. <<>> \in D
    OBVIOUS
  <2> HIDE DEF D
  <2>2. \A os \in D : Weight[os] = IF os = <<>> THEN 0 ELSE 1 + Size[Head(os)] + Weight[Tail(os)]
    BY WeightDefined, Zenon DEF D
  <2> QED BY <2>1, <2>2
<1> DEFINE N == { n \in Nat : \A os \in D : Len(os) = n => Weight[os] \in Nat }
<1>2. 0 \in N
  BY <1>1, EmptySeq
<1>3. ASSUME NEW n \in Nat, n \in N
      PROVE  n + 1 \in N
  <2> SUFFICES ASSUME NEW os \in D, Len(os) = n + 1
               PROVE  Weight[os] \in Nat
    OBVIOUS
  <2>1. os # <<>>
    OBVIOUS
  <2>2. Head(os) \in Objects /\ Tail(os) \in D /\ Len(Tail(os)) = n
    BY <2>1, HeadTailProperties
  <2>3. Size[Head(os)] \in Nat /\ Weight[Tail(os)] \in Nat
    BY <2>2, <1>3, SerialiserOutputAssumption DEF SerialiserOutputAssumption
  <2> QED BY <2>1, <2>3, <1>1
<1> HIDE DEF N
<1>4. \A n \in Nat : n \in N
  BY <1>2, <1>3, SetInduction
<1>5. ASSUME NEW os \in D
      PROVE  Weight[os] \in Nat
  BY <1>4, LenProperties DEF N
<1>6. Weight = [os \in D |-> Weight[os]]
  BY WeightDefined
<1>7. Weight \in [D -> Nat]
  BY <1>5, <1>6
<1> QED BY <1>1, <1>7

\* What an object is made of weighs less than it does.
LEMMA LighterParts ==
  ASSUME NEW os \in Seq(Objects), os # <<>>
  PROVE  LET o == Head(os) IN
         /\ o \in Objects /\ Tail(os) \in Seq(Objects) /\ Weight[Tail(os)] < Weight[os]
         /\ o.kind \in {"implicit", "explicit"} =>
              o.of \in Objects /\ <<o.of>> \in Seq(Objects) /\ Weight[<<o.of>>] < Weight[os]
         /\ o.kind \in {"sequence", "object", "optional", "choice"} =>
              o.of \in Seq(Objects) /\ Weight[o.of] < Weight[os]
<1> DEFINE o == Head(os)
<1>1. o \in Objects /\ Tail(os) \in Seq(Objects)
  BY HeadTailProperties
<1>2. Size[o] \in Nat /\ Weight[Tail(os)] \in Nat /\ Weight[os] = 1 + Size[o] + Weight[Tail(os)]
  BY <1>1, WeightFacts, SerialiserOutputAssumption DEF SerialiserOutputAssumption
<1>3. WellFormed(o)
  BY <1>1, SerialiserAssumption DEF SerialiserAssumption
<1> HIDE DEF o
<1>4. ASSUME o.kind \in {"implicit", "explicit"}
      PROVE  o.of \in Objects /\ <<o.of>> \in Seq(Objects) /\ Weight[<<o.of>>] < Weight[os]
  <2>1. o.of \in Objects /\ Size[o.of] < Size[o]
    BY <1>1, <1>3, <1>4, SerialiserOutputAssumption DEF SerialiserOutputAssumption, WellFormed
  <2> DEFINE p == o.of
             one == <<p>>
  <2>2. one \in Seq(Objects) /\ one # <<>> /\ Head(one) = p /\ Tail(one) = <<>>
    <3> HIDE DEF p
    <3> QED BY <2>1 DEF p
  <2>3. Size[p] \in Nat
    BY <2>1, SerialiserOutputAssumption DEF SerialiserOutputAssumption
  <2> HIDE DEF one, p
  <2>4. Weight[one] = 1 + Size[p] + 0
    BY <2>2, WeightFacts
  <2>5. Weight[one] < Weight[os]
    BY <2>1, <2>3, <2>4, <1>2 DEF p
  <2> QED BY <2>1, <2>2, <2>5 DEF one, p
<1>5. ASSUME o.kind \in {"sequence", "object", "optional", "choice"}
      PROVE  o.of \in Seq(Objects) /\ Weight[o.of] < Weight[os]
  <2>1. o.of \in Seq(Objects) /\ Weight[o.of] <= Size[o]
    BY <1>1, <1>3, <1>5, SerialiserOutputAssumption DEF SerialiserOutputAssumption, WellFormed
  <2>2. Weight[o.of] \in Nat
    BY <2>1, WeightFacts
  <2> QED BY <2>1, <2>2, <1>2
<1>6. Weight[Tail(os)] < Weight[os]
  BY <1>2
<1> QED BY <1>1, <1>4, <1>5, <1>6 DEF o


-----------------------------------------------------------------------------
(***************************************************************************)
(* What should come of objects is defined by recursion over their weight.  *)
(***************************************************************************)

Results == [cells : Seq(Cells), pending : Tags]

\* What comes of one kind of object after the other.
LEMMA OwnPrimitive ==
  ASSUME NEW e, NEW o, NEW p, o.kind = "primitive"
  PROVE  Own(e, o, p) = [cells |-> Wrapped(IF p = NoTag THEN o.tag ELSE p, FALSE, Octets(o.octets)),
                         pending |-> NoTag]
BY DEF Own

LEMMA OwnSequence ==
  ASSUME NEW e, NEW o, NEW p, o.kind = "sequence"
  PROVE  Own(e, o, p) = Enclosed(IF p = NoTag THEN o.tag ELSE p, e[o.of][NoTag])
BY DEF Own

LEMMA OwnParts ==
  ASSUME NEW e, NEW o, NEW p, o.kind \in {"object", "optional", "choice"}
  PROVE  Own(e, o, p) = e[o.of][p]
BY DEF Own

LEMMA OwnImplicit ==
  ASSUME NEW e, NEW o, NEW p, o.kind = "implicit"
  PROVE  Own(e, o, p) = IF Absent(o.of) THEN Nothing(p) ELSE e[<<o.of>>][Context(o.tag)]
BY DEF Own

LEMMA OwnExplicit ==
  ASSUME NEW e, NEW o, NEW p, o.kind = "explicit"
  PROVE  Own(e, o, p) = IF Absent(o.of) THEN Nothing(p)
                        ELSE Enclosed(Context(o.tag), e[<<o.of>>][p])
BY DEF Own

LEMMA OwnTrailing ==
  ASSUME NEW e, NEW o, NEW p, o.kind = "trailing"
  PROVE  Own(e, o, p) = [cells |-> o.cells, pending |-> p]
BY DEF Own

LEMMA NothingFacts ==
  ASSUME NEW p \in Tags
  PROVE  Nothing(p) \in Results
BY DEF Nothing, Results

LEMMA EnclosedFacts ==
  ASSUME NEW t \in Tags, NEW w \in Results
  PROVE  Enclosed(t, w) \in Results
<1>1. w.cells \in Seq(Cells) /\ w.pending \in Tags
  BY DEF Results
<1>2. TRUE \in BOOLEAN
  BY Zenon
<1>3. Wrapped(t, TRUE, w.cells) \in Seq(Cells)
  BY <1>1, <1>2, WrappedFacts
<1> QED BY <1>1, <1>3 DEF Enclosed, Results

LEMMA OwnFacts ==
  ASSUME NEW os \in Seq(Objects), os # <<>>, NEW p \in Tags, NEW e,
         \A r \in Seq(Objects) : Weight[r] < Weight[os] => e[r] \in [Tags -> Results]
  PROVE  Own(e, Head(os), p) \in Results
<1> DEFINE o == Head(os)
<1>1. /\ o \in Objects
      /\ o.kind \in {"implicit", "explicit"} =>
           o.of \in Objects /\ <<o.of>> \in Seq(Objects) /\ Weight[<<o.of>>] < Weight[os]
      /\ o.kind \in {"sequence", "object", "optional", "choice"} =>
           o.of \in Seq(Objects) /\ Weight[o.of] < Weight[os]
  BY LighterParts
<1>2. WellFormed(o)
  BY <1>1, SerialiserAssumption DEF SerialiserAssumption
<1> HIDE DEF o
<1>3. NoTag \in Tags /\ (o.kind \in {"implicit", "explicit"} => Context(o.tag) \in Tags)
  BY <1>2, TagFacts DEF WellFormed
<1>4. CASE o.kind = "primitive"
  <2> DEFINE t == IF p = NoTag THEN o.tag ELSE p
  <2>1. t \in Tags /\ Octets(o.octets) \in Seq(Cells)
    BY <1>2, <1>4, OctetsFacts DEF WellFormed
  <2>2. FALSE \in BOOLEAN
    BY Zenon
  <2>3. Own(e, o, p) = [cells |-> Wrapped(t, FALSE, Octets(o.octets)), pending |-> NoTag]
    BY <1>4, OwnPrimitive
  <2> HIDE DEF t
  <2>4. Wrapped(t, FALSE, Octets(o.octets)) \in Seq(Cells)
    BY <2>1, <2>2, WrappedFacts
  <2> DEFINE cells == Wrapped(t, FALSE, Octets(o.octets))
  <2>5. cells \in Seq(Cells) /\ Own(e, o, p) = [cells |-> cells, pending |-> NoTag]
    BY <2>3, <2>4
  <2> HIDE DEF cells
  <2> QED BY <2>5, <1>3 DEF Results, o
<1>5. CASE o.kind = "sequence"
  <2> DEFINE t == IF p = NoTag THEN o.tag ELSE p
  <2>1. t \in Tags
    BY <1>2, <1>5 DEF WellFormed
  <2>2. e[o.of][NoTag] \in Results
    BY <1>1, <1>3, <1>5
  <2>3. Own(e, o, p) = Enclosed(t, e[o.of][NoTag])
    BY <1>5, OwnSequence
  <2> HIDE DEF t
  <2> QED BY <2>1, <2>2, <2>3, EnclosedFacts DEF o
<1>6. CASE o.kind \in {"object", "optional", "choice"}
  <2>1. e[o.of][p] \in Results
    BY <1>1, <1>6
  <2>2. Own(e, o, p) = e[o.of][p]
    BY <1>6, OwnParts
  <2> QED BY <2>1, <2>2 DEF o
<1>7. CASE o.kind = "implicit"
  <2>1. e[<<o.of>>][Context(o.tag)] \in Results
    BY <1>1, <1>3, <1>7
  <2>2. Own(e, o, p) = IF Absent(o.of) THEN Nothing(p) ELSE e[<<o.of>>][Context(o.tag)]
    BY <1>7, OwnImplicit
  <2> QED BY <2>1, <2>2, NothingFacts DEF o
<1>8. CASE o.kind = "explicit"
  <2>1. e[<<o.of>>][p] \in Results
    BY <1>1, <1>8
  <2>2. Enclosed(Context(o.tag), e[<<o.of>>][p]) \in Results
    BY <2>1, <1>3, <1>8, EnclosedFacts
  <2>3. Own(e, o, p) = IF Absent(o.of) THEN Nothing(p)
                       ELSE Enclosed(Context(o.tag), e[<<o.of>>][p])
    BY <1>8, OwnExplicit
  <2> QED BY <2>2, <2>3, NothingFacts DEF o
<1>9. CASE o.kind = "trailing"
  <2>1. Own(e, o, p) = [cells |-> o.cells, pending |-> p]
    BY <1>9, OwnTrailing
  <2> QED BY <2>1, <1>2, <1>9 DEF WellFormed, Results, o
<1> QED BY <1>2, <1>4, <1>5, <1>6, <1>7, <1>8, <1>9 DEF WellFormed

LEMMA OwnByWeight ==
  ASSUME NEW os \in Seq(Objects), os # <<>>, NEW p, NEW e, NEW f,
         \A r \in Seq(Objects) : Weight[r] < Weight[os] => e[r] = f[r]
  PROVE  Own(e, Head(os), p) = Own(f, Head(os), p)
<1> DEFINE o == Head(os)
<1>1. /\ o \in Objects
      /\ o.kind \in {"implicit", "explicit"} => e[<<o.of>>] = f[<<o.of>>]
      /\ o.kind \in {"sequence", "object", "optional", "choice"} => e[o.of] = f[o.of]
  BY LighterParts
<1>2. o.kind \in {"primitive", "sequence", "object", "optional", "choice",
                  "implicit", "explicit", "trailing"}
  BY <1>1, SerialiserAssumption DEF SerialiserAssumption, WellFormed
<1> HIDE DEF o
<1>3. CASE o.kind = "primitive"
  <2> DEFINE w == [cells |-> Wrapped(IF p = NoTag THEN o.tag ELSE p, FALSE, Octets(o.octets)),
                   pending |-> NoTag]
  <2>1. Own(e, o, p) = w
    BY <1>3, OwnPrimitive
  <2>2. Own(f, o, p) = w
    BY <1>3, OwnPrimitive
  <2> HIDE DEF w
  <2>3. Own(e, o, p) = Own(f, o, p)
    BY <2>1, <2>2
  <2> QED BY <2>3 DEF o
<1>4. CASE o.kind = "trailing"
  BY <1>4, OwnTrailing DEF o
<1>5. CASE o.kind = "sequence"
  <2>1. e[o.of] = f[o.of]
    BY <1>1, <1>5
  <2> QED BY <2>1, <1>5, OwnSequence DEF o
<1>6. CASE o.kind \in {"object", "optional", "choice"}
  <2>1. e[o.of] = f[o.of]
    BY <1>1, <1>6
  <2> QED BY <2>1, <1>6, OwnParts DEF o
<1>7. CASE o.kind = "implicit"
  <2>1. e[<<o.of>>] = f[<<o.of>>]
    BY <1>1, <1>7
  <2> QED BY <2>1, <1>7, OwnImplicit DEF o
<1>8. CASE o.kind = "explicit"
  <2>1. e[<<o.of>>] = f[<<o.of>>]
    BY <1>1, <1>8
  <2> QED BY <2>1, <1>8, OwnExplicit DEF o
<1> QED BY <1>2, <1>3, <1>4, <1>5, <1>6, <1>7, <1>8


\* What comes of objects one behind the other, of what comes of lighter ones.
Behind(e, os, p) ==
  LET own == Own(e, Head(os), p)
      rest == e[Tail(os)][own.pending]
  IN [cells |-> own.cells \o rest.cells, pending |-> rest.pending]

InTurn(e, os, p) == IF os = <<>> THEN Nothing(p) ELSE Behind(e, os, p)

LEMMA InTurnFacts ==
  ASSUME NEW os \in Seq(Objects), NEW p \in Tags, NEW e,
         \A r \in Seq(Objects) : Weight[r] < Weight[os] => e[r] \in [Tags -> Results]
  PROVE  InTurn(e, os, p) \in Results
<1>1. CASE os = <<>>
  BY <1>1, NothingFacts DEF InTurn
<1>2. CASE os # <<>>
  <2> DEFINE own == Own(e, Head(os), p)
             rest == e[Tail(os)][own.pending]
  <2>1. own \in Results
    BY <1>2, OwnFacts
  <2>2. own.cells \in Seq(Cells) /\ own.pending \in Tags
    <3> HIDE DEF own
    <3> QED BY <2>1 DEF Results
  <2>3. e[Tail(os)] \in [Tags -> Results]
    BY <1>2, LighterParts
  <2>4. rest \in Results
    <3> HIDE DEF own
    <3> QED BY <2>2, <2>3
  <2>5. rest.cells \in Seq(Cells) /\ rest.pending \in Tags
    <3> HIDE DEF rest
    <3> QED BY <2>4 DEF Results
  <2>6. InTurn(e, os, p) = [cells |-> own.cells \o rest.cells, pending |-> rest.pending]
    BY <1>2 DEF InTurn, Behind
  <2> HIDE DEF own, rest
  <2>7. own.cells \o rest.cells \in Seq(Cells)
    BY <2>2, <2>5, ConcatProperties
  <2> QED BY <2>5, <2>6, <2>7 DEF Results
<1> QED BY <1>1, <1>2

LEMMA InTurnByWeight ==
  ASSUME NEW os \in Seq(Objects), NEW p, NEW e, NEW f,
         \A r \in Seq(Objects) : Weight[r] < Weight[os] => e[r] = f[r]
  PROVE  InTurn(e, os, p) = InTurn(f, os, p)
<1>1. CASE os = <<>>
  BY <1>1 DEF InTurn
<1>2. CASE os # <<>>
  <2>1. Own(e, Head(os), p) = Own(f, Head(os), p)
    BY <1>2, OwnByWeight
  <2>2. e[Tail(os)] = f[Tail(os)]
    BY <1>2, LighterParts
  <2>3. Behind(e, os, p) = Behind(f, os, p)
    BY <2>1, <2>2, Zenon DEF Behind
  <2> QED BY <1>2, <2>3, Zenon DEF InTurn
<1> QED BY <1>1, <1>2

\* Emitted is what it is defined to be.
LEMMA EmittedDefined ==
  Emitted = [os \in Seq(Objects) |-> [p \in Tags |-> InTurn(Emitted, os, p)]]
<1> DEFINE D == Seq(Objects)
           W == [Tags -> Results]
           Body(e, os) == [p \in Tags |-> InTurn(e, os, p)]
           Phi == [e \in [D -> W] |-> [os \in D |-> Body(e, os)]]
           w0 == [p \in Tags |-> Nothing(p)]
<1>1. w0 \in W
  BY NothingFacts
<1>2. ASSUME NEW e \in [D -> W], NEW os \in D
      PROVE  Body(e, os) \in W
  <2>1. \A r \in Seq(Objects) : Weight[r] < Weight[os] => e[r] \in [Tags -> Results]
    <3> HIDE DEF Body
    <3> QED OBVIOUS
  <2>2. \A p \in Tags : InTurn(e, os, p) \in Results
    BY <2>1, InTurnFacts
  <2> QED BY <2>2
<1>3. ASSUME NEW e \in [D -> W], NEW f \in [D -> W], NEW os \in D,
             \A r \in D : Weight[r] < Weight[os] => e[r] = f[r]
      PROVE  Body(e, os) = Body(f, os)
  <2>1. \A p \in Tags : InTurn(e, os, p) = InTurn(f, os, p)
    BY <1>3, InTurnByWeight
  <2> QED BY <2>1
<1>4. ByRank(D, W, Weight, Phi)
  <2>1. Phi \in [[D -> W] -> [D -> W]]
    <3> HIDE DEF Body, D, W
    <3> QED BY <1>2
  <2>2. ASSUME NEW e \in [D -> W], NEW f \in [D -> W], NEW os \in D,
               \A r \in D : Weight[r] < Weight[os] => e[r] = f[r]
        PROVE  Phi[e][os] = Phi[f][os]
    <3>1. Body(e, os) = Body(f, os)
      <4> HIDE DEF Body, D, W
      <4> QED BY <2>2, <1>3
    <3> HIDE DEF Body, D, W
    <3>2. Phi[e][os] = Body(e, os) /\ Phi[f][os] = Body(f, os)
      OBVIOUS
    <3> QED BY <3>1, <3>2
  <2> HIDE DEF Phi, D, W
  <2> QED BY <2>1, <2>2 DEF ByRank
<1>5. PICK e \in [D -> W] : e = Phi[e]
  <2>1. Weight \in [D -> Nat]
    BY WeightFacts
  <2> HIDE DEF Phi, D, W, w0
  <2> QED BY <1>1, <1>4, <2>1, Recursion
<1>6. e = [os \in D |-> Body(e, os)]
  <2> HIDE DEF Body, D, W
  <2> QED BY <1>5
<1>7. e = [os \in Seq(Objects) |-> [p \in Tags |-> InTurn(e, os, p)]]
  BY <1>6, Zenon
<1> HIDE DEF Body, D, W, Phi
<1> QED BY <1>7, Zenon DEF Emitted, InTurn, Behind

LEMMA EmittedFacts ==
  /\ Emitted \in [Seq(Objects) -> [Tags -> Results]]
  /\ \A os \in Seq(Objects), p \in Tags : Emitted[os][p] = InTurn(Emitted, os, p)
<1> DEFINE N == { n \in Nat : \A os \in Seq(Objects) :
                                Weight[os] < n => Emitted[os] \in [Tags -> Results] }
<1>1. \A os \in Seq(Objects) : Emitted[os] = [p \in Tags |-> InTurn(Emitted, os, p)]
  BY EmittedDefined, Zenon
<1>2. \A os \in Seq(Objects) : Weight[os] \in Nat
  BY WeightFacts
<1>3. 0 \in N
  BY <1>2
<1>4. ASSUME NEW n \in Nat, n \in N
      PROVE  n + 1 \in N
  <2> SUFFICES ASSUME NEW os \in Seq(Objects), Weight[os] < n + 1
               PROVE  Emitted[os] \in [Tags -> Results]
    OBVIOUS
  <2>1. \A r \in Seq(Objects) : Weight[r] < Weight[os] => Emitted[r] \in [Tags -> Results]
    <3>1. \A r \in Seq(Objects) : Weight[r] < Weight[os] => Weight[r] < n
      BY <1>2
    <3> QED BY <3>1, <1>4
  <2>2. \A p \in Tags : InTurn(Emitted, os, p) \in Results
    BY <2>1, InTurnFacts
  <2> QED BY <2>2, <1>1
<1> HIDE DEF N
<1>5. \A n \in Nat : n \in N
  BY <1>3, <1>4, SetInduction
<1>6. ASSUME NEW os \in Seq(Objects)
      PROVE  Emitted[os] \in [Tags -> Results]
  <2>1. Weight[os] + 1 \in Nat /\ Weight[os] < Weight[os] + 1
    BY <1>2
  <2> QED BY <2>1, <1>5 DEF N
<1>7. Emitted = [os \in Seq(Objects) |-> Emitted[os]]
  BY EmittedDefined, Zenon
<1>8. Emitted \in [Seq(Objects) -> [Tags -> Results]]
  BY <1>6, <1>7
<1>9. \A os \in Seq(Objects), p \in Tags : Emitted[os][p] = InTurn(Emitted, os, p)
  BY <1>1
<1> QED BY <1>8, <1>9


\* What comes of no objects, of one, and of one in front of others.
LEMMA EmittedNone ==
  ASSUME NEW p \in Tags
  PROVE  Emitted[<<>>][p] = Nothing(p)
<1>1. <<>> \in Seq(Objects)
  OBVIOUS
<1>2. InTurn(Emitted, <<>>, p) = Nothing(p)
  BY DEF InTurn
<1> QED BY <1>1, <1>2, EmittedFacts

LEMMA EmittedSome ==
  ASSUME NEW os \in Seq(Objects), os # <<>>, NEW p \in Tags
  PROVE  Emitted[os][p] = Behind(Emitted, os, p)
<1>1. InTurn(Emitted, os, p) = Behind(Emitted, os, p)
  BY DEF InTurn
<1> QED BY <1>1, EmittedFacts

LEMMA EmittedTyped ==
  ASSUME NEW os \in Seq(Objects), NEW p \in Tags
  PROVE  /\ Emitted[os][p] \in Results
         /\ Emitted[os][p].cells \in Seq(Cells) /\ Emitted[os][p].pending \in Tags
<1>1. Emitted[os][p] \in Results
  BY EmittedFacts
<1> QED BY <1>1 DEF Results

LEMMA EmittedOne ==
  ASSUME NEW o \in Objects, NEW p \in Tags
  PROVE  Emitted[<<o>>][p] = Own(Emitted, o, p)
<1> DEFINE one == <<o>>
           own == Own(Emitted, o, p)
           w == Emitted[one][p]
<1>1. one \in Seq(Objects) /\ one # <<>> /\ Head(one) = o /\ Tail(one) = <<>>
  OBVIOUS
<1> HIDE DEF one
<1>2. own \in Results
  <2>1. \A r \in Seq(Objects) : Weight[r] < Weight[one] => Emitted[r] \in [Tags -> Results]
    BY EmittedFacts
  <2> QED BY <1>1, <2>1, OwnFacts
<1>3. Behind(Emitted, one, p) = [cells |-> own.cells \o Emitted[<<>>][own.pending].cells,
                                 pending |-> Emitted[<<>>][own.pending].pending]
  BY <1>1 DEF Behind
<1>4. w = Behind(Emitted, one, p)
  BY <1>1, EmittedSome
<1> HIDE DEF own, w
<1>5. own.cells \in Seq(Cells) /\ own.pending \in Tags
      /\ own = [cells |-> own.cells, pending |-> own.pending]
  BY <1>2 DEF Results
<1>6. Emitted[<<>>][own.pending] = [cells |-> <<>>, pending |-> own.pending]
  BY <1>5, EmittedNone DEF Nothing
<1>7. own.cells \o <<>> = own.cells
  BY <1>5, ConcatEmptySeq
<1>8. w = own
  BY <1>3, <1>4, <1>5, <1>6, <1>7
<1> QED BY <1>8 DEF w, own, one

LEMMA EmittedNext ==
  ASSUME NEW os \in Seq(Objects), os # <<>>, NEW p \in Tags
  PROVE  LET first == Emitted[<<Head(os)>>][p]
             rest == Emitted[Tail(os)][first.pending]
         IN Emitted[os][p] = [cells |-> first.cells \o rest.cells, pending |-> rest.pending]
<1>1. Head(os) \in Objects
  BY HeadTailProperties
<1>2. Emitted[<<Head(os)>>][p] = Own(Emitted, Head(os), p)
  BY <1>1, EmittedOne
<1> QED BY <1>2, EmittedSome DEF Behind

-----------------------------------------------------------------------------
(***************************************************************************)
(* What the calls on the stack will have done once they have returned, as  *)
(* long as nothing is thrown.                                              *)
(***************************************************************************)

\* Where the encoder stands.
State(ls, s, t) == [layers |-> ls, out |-> s, tag |-> t]
States == [layers : Seq(Layers), out : Seq(Cells), tag : Tags]
Now == State(layers, out, current_tag)

\* cells go to the innermost of the layers ls, or behind what is on the stream.
LayersWith(ls, cells) ==
  IF ls = <<>> THEN <<>> ELSE <<[Head(ls) EXCEPT !.data = @ \o cells]>> \o Tail(ls)
OutWith(ls, s, cells) == IF ls = <<>> THEN s \o cells ELSE s

Sent(ls, s, cells, t) == State(LayersWith(ls, cells), OutWith(ls, s, cells), t)

LEMMA SendsIs ==
  ASSUME NEW cells, NEW ls, Sends(cells, ls)
  PROVE  layers' = LayersWith(ls, cells) /\ out' = OutWith(ls, out, cells)
BY DEF Sends, LayersWith, OutWith

LEMMA StateFields ==
  ASSUME NEW ls, NEW s, NEW t
  PROVE  State(ls, s, t).layers = ls /\ State(ls, s, t).out = s /\ State(ls, s, t).tag = t
BY DEF State

LEMMA StatesTyped ==
  ASSUME NEW ls \in Seq(Layers), NEW s \in Seq(Cells), NEW t \in Tags
  PROVE  State(ls, s, t) \in States
BY DEF State, States

LEMMA StatesHave ==
  ASSUME NEW st \in States
  PROVE  /\ st.layers \in Seq(Layers) /\ st.out \in Seq(Cells) /\ st.tag \in Tags
         /\ st = State(st.layers, st.out, st.tag)
BY DEF State, States

\* What has been put in front is what is in front.
LEMMA Pushed ==
  ASSUME NEW S, NEW x \in S, NEW xs \in Seq(S)
  PROVE  /\ <<x>> \o xs \in Seq(S) /\ <<x>> \o xs # <<>>
         /\ Head(<<x>> \o xs) = x /\ Tail(<<x>> \o xs) = xs
<1> DEFINE all == <<x>> \o xs
<1>1. /\ all \in Seq(S) /\ Len(all) = Len(xs) + 1 /\ Len(xs) \in Nat /\ all[1] = x
      /\ \A i \in 1 .. Len(xs) + 1 :
           i # 1 => i - 1 \in 1 .. Len(xs) /\ all[i] = xs[i - 1]
  BY PushIndices
<1> HIDE DEF all
<1>2. all # <<>>
  BY <1>1, EmptySeq
<1>3. /\ Head(all) = x /\ Tail(all) \in Seq(S) /\ Len(Tail(all)) = Len(xs)
      /\ \A i \in 1 .. Len(xs) : Tail(all)[i] = all[i + 1]
  BY <1>1, <1>2, PopIndices
<1>4. \A i \in 1 .. Len(xs) : Tail(all)[i] = xs[i]
  <2> SUFFICES ASSUME NEW i \in 1 .. Len(xs)
               PROVE  Tail(all)[i] = xs[i]
    OBVIOUS
  <2>1. i + 1 \in 1 .. Len(xs) + 1 /\ i + 1 # 1 /\ (i + 1) - 1 = i
    BY <1>1
  <2>2. all[i + 1] = xs[(i + 1) - 1]
    BY <2>1, <1>1
  <2> QED BY <2>1, <2>2, <1>3
<1>5. Tail(all) = xs
  BY <1>3, <1>4, SeqEqual
<1> QED BY <1>1, <1>2, <1>3, <1>5 DEF all

\* More behind what there is in a layer.
With(l, cells) == [l EXCEPT !.data = @ \o cells]

LEMMA WithFacts ==
  ASSUME NEW l \in Layers, NEW a \in Seq(Cells), NEW b \in Seq(Cells)
  PROVE  /\ With(l, a) \in Layers /\ With(l, a).data = l.data \o a /\ With(l, a).tag = l.tag
         /\ With(l, <<>>) = l
         /\ With(With(l, a), b) = With(l, a \o b)
<1>1. l.tag \in Tags /\ l.data \in Seq(Cells) /\ l = [tag |-> l.tag, data |-> l.data]
  BY DEF Layers
<1>2. ASSUME NEW k \in Layers, NEW c
      PROVE  With(k, c) = [tag |-> k.tag, data |-> k.data \o c]
  <2> DEFINE d == k.data \o c
  <2>1. With(k, c) = [k EXCEPT !.data = d]
    BY DEF With
  <2> HIDE DEF d
  <2>2. [k EXCEPT !.data = d] = [tag |-> k.tag, data |-> d]
    BY DEF Layers
  <2> QED BY <2>1, <2>2 DEF d
<1>3. /\ l.data \o a \in Seq(Cells) /\ a \o b \in Seq(Cells)
      /\ (l.data \o a) \o b = l.data \o (a \o b)
  BY <1>1, ConcatProperties, ConcatAssociative
<1>4. l.data \o <<>> = l.data
  BY <1>1, ConcatEmptySeq
<1> DEFINE k == With(l, a)
<1>5. k = [tag |-> l.tag, data |-> l.data \o a]
  BY <1>2
<1>6. k \in Layers /\ k.data = l.data \o a /\ k.tag = l.tag
  <2> DEFINE d == l.data \o a
  <2>1. k = [tag |-> l.tag, data |-> d] /\ d \in Seq(Cells)
    BY <1>3, <1>5
  <2> HIDE DEF d, k
  <2> QED BY <1>1, <2>1 DEF Layers, d
<1>7. With(l, <<>>) = l
  <2>1. With(l, <<>>) = [tag |-> l.tag, data |-> l.data \o <<>>]
    BY <1>2
  <2> QED BY <2>1, <1>1, <1>4
<1>8. With(k, b) = With(l, a \o b)
  <2> HIDE DEF k
  <2>1. With(k, b) = [tag |-> k.tag, data |-> k.data \o b]
    BY <1>6, <1>2
  <2>2. With(l, a \o b) = [tag |-> l.tag, data |-> l.data \o (a \o b)]
    BY <1>2
  <2> QED BY <2>1, <2>2, <1>3, <1>6
<1> QED BY <1>6, <1>7, <1>8


LEMMA LayersWithFacts ==
  ASSUME NEW ls \in Seq(Layers), NEW a \in Seq(Cells)
  PROVE  /\ LayersWith(ls, a) \in Seq(Layers)
         /\ LayersWith(ls, a) = <<>> <=> ls = <<>>
         /\ \A l \in Layers : LayersWith(<<l>> \o ls, a) = <<With(l, a)>> \o ls
<1>1. ASSUME NEW l \in Layers
      PROVE  LayersWith(<<l>> \o ls, a) = <<With(l, a)>> \o ls
  <2> DEFINE all == <<l>> \o ls
  <2>1. all # <<>> /\ Head(all) = l /\ Tail(all) = ls
    BY Pushed
  <2> HIDE DEF all
  <2>2. LayersWith(all, a) = <<With(Head(all), a)>> \o Tail(all)
    BY <2>1 DEF LayersWith, With
  <2> QED BY <2>1, <2>2 DEF all
<1>2. CASE ls = <<>>
  BY <1>1, <1>2 DEF LayersWith
<1>3. CASE ls # <<>>
  <2> DEFINE l == With(Head(ls), a)
  <2>1. Head(ls) \in Layers /\ Tail(ls) \in Seq(Layers)
    BY <1>3, HeadTailProperties
  <2>2. l \in Layers
    BY <2>1, WithFacts
  <2>3. LayersWith(ls, a) = <<l>> \o Tail(ls)
    BY <1>3 DEF LayersWith, With
  <2> HIDE DEF l
  <2>4. <<l>> \o Tail(ls) \in Seq(Layers) /\ <<l>> \o Tail(ls) # <<>>
    BY <2>1, <2>2, Pushed
  <2> QED BY <1>1, <1>3, <2>3, <2>4
<1> QED BY <1>2, <1>3

LEMMA LayersTwice ==
  ASSUME NEW ls \in Seq(Layers), NEW a \in Seq(Cells), NEW b \in Seq(Cells)
  PROVE  /\ LayersWith(ls, <<>>) = ls
         /\ LayersWith(LayersWith(ls, a), b) = LayersWith(ls, a \o b)
<1>1. CASE ls = <<>>
  BY <1>1 DEF LayersWith
<1>2. CASE ls # <<>>
  <2> DEFINE l == Head(ls)
             rest == Tail(ls)
             none == <<>>
  <2>1. l \in Layers /\ rest \in Seq(Layers)
    BY <1>2, HeadTailProperties
  <2>2. ls = <<l>> \o rest
    <3>1. /\ l = ls[1] /\ Len(ls) \in Nat /\ Len(ls) >= 1 /\ Len(rest) = Len(ls) - 1
          /\ \A i \in 1 .. Len(ls) - 1 : rest[i] = ls[i + 1]
      BY <1>2, PopIndices
    <3> HIDE DEF l, rest
    <3> DEFINE all == <<l>> \o rest
    <3>2. /\ all \in Seq(Layers) /\ Len(all) = Len(rest) + 1 /\ all[1] = l
          /\ \A i \in 1 .. Len(rest) + 1 :
               i # 1 => i - 1 \in 1 .. Len(rest) /\ all[i] = rest[i - 1]
      BY <2>1, PushIndices
    <3> HIDE DEF all
    <3>3. Len(all) = Len(ls)
      BY <3>1, <3>2
    <3>4. ASSUME NEW i \in 1 .. Len(all)
          PROVE  all[i] = ls[i]
      <4>1. CASE i = 1
        BY <4>1, <3>1, <3>2
      <4>2. CASE i # 1
        <5>1. i \in 1 .. Len(rest) + 1 /\ i - 1 \in 1 .. Len(ls) - 1 /\ (i - 1) + 1 = i
          BY <4>2, <3>1, <3>2
        <5>2. all[i] = rest[i - 1] /\ rest[i - 1] = ls[(i - 1) + 1]
          BY <5>1, <4>2, <3>1, <3>2
        <5> QED BY <5>1, <5>2
      <4> QED BY <4>1, <4>2
    <3>5. all = ls
      BY <3>2, <3>3, <3>4, SeqEqual
    <3> QED BY <3>5 DEF all
  <2>3. none \in Seq(Cells) /\ a \o b \in Seq(Cells)
    BY ConcatProperties
  <2> HIDE DEF l, rest, none
  <2>4. \A c \in Seq(Cells) : LayersWith(ls, c) = <<With(l, c)>> \o rest
    BY <2>1, <2>2, LayersWithFacts
  <2>5. With(l, none) = l /\ With(l, a) \in Layers /\ With(With(l, a), b) = With(l, a \o b)
    BY <2>1, WithFacts DEF none
  <2>6. LayersWith(ls, none) = ls
    BY <2>2, <2>3, <2>4, <2>5
  <2>7. LayersWith(LayersWith(ls, a), b) = LayersWith(ls, a \o b)
    <3>1. LayersWith(<<With(l, a)>> \o rest, b) = <<With(With(l, a), b)>> \o rest
      BY <2>1, <2>5, LayersWithFacts
    <3> QED BY <3>1, <2>3, <2>4, <2>5
  <2> QED BY <2>6, <2>7 DEF none
<1> QED BY <1>1, <1>2

LEMMA OutWithFacts ==
  ASSUME NEW ls \in Seq(Layers), NEW s \in Seq(Cells), NEW a \in Seq(Cells), NEW b \in Seq(Cells)
  PROVE  /\ OutWith(ls, s, a) \in Seq(Cells)
         /\ OutWith(ls, s, <<>>) = s
         /\ OutWith(LayersWith(ls, a), OutWith(ls, s, a), b) = OutWith(ls, s, a \o b)
<1>1. LayersWith(ls, a) = <<>> <=> ls = <<>>
  BY LayersWithFacts
<1>2. s \o a \in Seq(Cells) /\ (s \o a) \o b = s \o (a \o b)
  BY ConcatProperties, ConcatAssociative
<1>3. s \o <<>> = s
  BY ConcatEmptySeq
<1> QED BY <1>1, <1>2, <1>3 DEF OutWith

LEMMA SentFacts ==
  ASSUME NEW ls \in Seq(Layers), NEW s \in Seq(Cells), NEW a \in Seq(Cells), NEW t \in Tags
  PROVE  /\ Sent(ls, s, a, t) \in States
         /\ Sent(ls, s, <<>>, t) = State(ls, s, t)
<1>1. LayersWith(ls, a) \in Seq(Layers) /\ OutWith(ls, s, a) \in Seq(Cells)
  BY LayersWithFacts, OutWithFacts
<1>2. Sent(ls, s, a, t) \in States
  BY <1>1, StatesTyped DEF Sent
<1>3. LayersWith(ls, <<>>) = ls /\ OutWith(ls, s, <<>>) = s
  BY LayersTwice, OutWithFacts
<1> QED BY <1>2, <1>3 DEF Sent

-----------------------------------------------------------------------------

\* Objects written one after the other; a layer closed.
Writes(os, st) ==
  LET w == Emitted[os][st.tag] IN Sent(st.layers, st.out, w.cells, w.pending)
Passes(st) ==
  IF st.layers = <<>> THEN st
  ELSE Sent(Tail(st.layers), st.out, Finished(Head(st.layers)), st.tag)

\* What a call will have done.
After(f, st) ==
  CASE f.call = "write" -> Writes(<<f.object>>, st)
    [] f.call = "fields" -> Writes(f.objects, st)
    [] f.call \in Closers -> Passes(st)

LEMMA AfterWrite ==
  ASSUME NEW o, NEW st
  PROVE  After(Write(o), st) = Writes(<<o>>, st)
BY DEF After, Write, Closers

LEMMA AfterFields ==
  ASSUME NEW os, NEW st
  PROVE  After(Fields(os), st) = Writes(os, st)
BY DEF After, Fields, Closers

LEMMA AfterClosing ==
  ASSUME NEW f, Closes(f), NEW st
  PROVE  After(f, st) = Passes(st)
BY DEF After, Closes, Closers

LEMMA WritesTyped ==
  ASSUME NEW os \in Seq(Objects), NEW st \in States
  PROVE  Writes(os, st) \in States
<1>1. st.layers \in Seq(Layers) /\ st.out \in Seq(Cells) /\ st.tag \in Tags
  BY StatesHave
<1> DEFINE w == Emitted[os][st.tag]
<1>2. w.cells \in Seq(Cells) /\ w.pending \in Tags
  BY <1>1, EmittedTyped
<1>3. Writes(os, st) = Sent(st.layers, st.out, w.cells, w.pending)
  BY DEF Writes
<1> HIDE DEF w
<1> QED BY <1>1, <1>2, <1>3, SentFacts

LEMMA PassesTyped ==
  ASSUME NEW st \in States
  PROVE  Passes(st) \in States
<1>1. st.layers \in Seq(Layers) /\ st.out \in Seq(Cells) /\ st.tag \in Tags
  BY StatesHave
<1>2. CASE st.layers = <<>>
  BY <1>2 DEF Passes
<1>3. CASE st.layers # <<>>
  <2>1. Head(st.layers) \in Layers /\ Tail(st.layers) \in Seq(Layers)
    BY <1>1, <1>3, HeadTailProperties
  <2>2. TRUE \in BOOLEAN
    BY Zenon
  <2>3. Finished(Head(st.layers)) \in Seq(Cells)
    BY <2>1, <2>2, LayerFacts, WrappedFacts DEF Finished
  <2> QED BY <1>1, <1>3, <2>1, <2>3, SentFacts DEF Passes
<1> QED BY <1>2, <1>3

LEMMA AfterTyped ==
  ASSUME NEW f \in Frames, NEW st \in States
  PROVE  After(f, st) \in States
<1>1. CASE f.call = "write"
  <2>1. After(f, st) = Writes(<<f.object>>, st)
    BY <1>1 DEF After, Closers
  <2>2. f.object \in Objects
    BY <1>1, FrameParts
  <2> DEFINE o == f.object
             one == <<o>>
  <2>3. one \in Seq(Objects)
    <3> HIDE DEF o
    <3> QED BY <2>2 DEF o
  <2> HIDE DEF one
  <2>4. Writes(one, st) \in States
    BY <2>3, WritesTyped
  <2> QED BY <2>1, <2>4 DEF one
<1>2. CASE f.call = "fields"
  <2>1. After(f, st) = Writes(f.objects, st)
    BY <1>2 DEF After, Closers
  <2>2. f.objects \in Seq(Objects)
    BY <1>2, FrameParts
  <2> QED BY <2>1, <2>2, WritesTyped
<1>3. CASE Closes(f)
  BY <1>3, AfterClosing, PassesTyped
<1>4. f.call = "write" \/ f.call = "fields" \/ Closes(f)
  BY DEF Frames, Closes, Closers
<1> QED BY <1>1, <1>2, <1>3, <1>4


\* Nothing is written; one object after the other is.
LEMMA WritesNone ==
  ASSUME NEW st \in States
  PROVE  Writes(<<>>, st) = st
<1>1. st.layers \in Seq(Layers) /\ st.out \in Seq(Cells) /\ st.tag \in Tags
      /\ st = State(st.layers, st.out, st.tag)
  BY StatesHave
<1>2. Emitted[<<>>][st.tag] = [cells |-> <<>>, pending |-> st.tag]
  BY <1>1, EmittedNone DEF Nothing
<1>3. Writes(<<>>, st) = Sent(st.layers, st.out, <<>>, st.tag)
  BY <1>2 DEF Writes
<1>4. <<>> \in Seq(Cells)
  OBVIOUS
<1>5. Sent(st.layers, st.out, <<>>, st.tag) = State(st.layers, st.out, st.tag)
  BY <1>1, <1>4, SentFacts
<1> QED BY <1>1, <1>3, <1>5

LEMMA WritesNext ==
  ASSUME NEW os \in Seq(Objects), os # <<>>, NEW st \in States
  PROVE  Writes(os, st) = Writes(Tail(os), Writes(<<Head(os)>>, st))
<1> DEFINE ls == st.layers
           s == st.out
           one == <<Head(os)>>
           first == Emitted[one][st.tag]
           rest == Emitted[Tail(os)][first.pending]
<1>1. ls \in Seq(Layers) /\ s \in Seq(Cells) /\ st.tag \in Tags
  BY StatesHave
<1>2. one \in Seq(Objects) /\ Tail(os) \in Seq(Objects)
  BY HeadTailProperties
<1>3. Emitted[os][st.tag] = [cells |-> first.cells \o rest.cells, pending |-> rest.pending]
  BY <1>1, EmittedNext
<1>4. Writes(os, st) = Sent(ls, s, first.cells \o rest.cells, rest.pending)
  <2> DEFINE w == Emitted[os][st.tag]
  <2>1. Writes(os, st) = Sent(ls, s, w.cells, w.pending)
    BY DEF Writes
  <2> DEFINE cells == first.cells \o rest.cells
             pending == rest.pending
  <2>2. w = [cells |-> cells, pending |-> pending]
    BY <1>3
  <2> HIDE DEF w, cells, pending
  <2>3. w.cells = cells /\ w.pending = pending
    BY <2>2
  <2>4. Writes(os, st) = Sent(ls, s, cells, pending)
    BY <2>1, <2>3
  <2> QED BY <2>4 DEF cells, pending
<1>5. Writes(one, st) = State(LayersWith(ls, first.cells), OutWith(ls, s, first.cells), first.pending)
  BY DEF Writes, Sent
<1> HIDE DEF one
<1>6. first.cells \in Seq(Cells) /\ first.pending \in Tags
  BY <1>1, <1>2, EmittedTyped
<1> DEFINE after == Writes(one, st)
<1>7. /\ after.layers = LayersWith(ls, first.cells) /\ after.out = OutWith(ls, s, first.cells)
      /\ after.tag = first.pending
  BY <1>5, StateFields
<1> HIDE DEF after
<1>8. Writes(Tail(os), after) = Sent(after.layers, after.out, rest.cells, rest.pending)
  <2> HIDE DEF first
  <2> QED BY <1>7 DEF Writes
<1> HIDE DEF first
<1>9. rest.cells \in Seq(Cells)
  BY <1>2, <1>6, EmittedTyped
<1> HIDE DEF rest, ls, s
<1>10. LayersWith(LayersWith(ls, first.cells), rest.cells) = LayersWith(ls, first.cells \o rest.cells)
  BY <1>1, <1>6, <1>9, LayersTwice
<1>11. OutWith(LayersWith(ls, first.cells), OutWith(ls, s, first.cells), rest.cells)
         = OutWith(ls, s, first.cells \o rest.cells)
  BY <1>1, <1>6, <1>9, OutWithFacts
<1>12. Writes(Tail(os), after) = Sent(ls, s, first.cells \o rest.cells, rest.pending)
  BY <1>7, <1>8, <1>10, <1>11 DEF Sent
<1> QED BY <1>4, <1>12 DEF after, one

\* What is enclosed goes into a layer of its own, that is passed on then.
LEMMA EnclosedPasses ==
  ASSUME NEW ls \in Seq(Layers), NEW s \in Seq(Cells), NEW t \in Tags, NEW w \in Results
  PROVE  Sent(ls, s, Enclosed(t, w).cells, Enclosed(t, w).pending)
           = Passes(Sent(<<Layer(t)>> \o ls, s, w.cells, w.pending))
<1>1. w.cells \in Seq(Cells) /\ w.pending \in Tags
  BY DEF Results
<1> DEFINE l == Layer(t)
           k == With(l, w.cells)
           all == <<l>> \o ls
           with == <<k>> \o ls
<1>2. l \in Layers /\ l.tag = t /\ l.data = <<>>
  BY DEF Layer, Layers
<1> HIDE DEF l
<1>3. k \in Layers /\ k.tag = t /\ k.data = w.cells
  <2>1. k \in Layers /\ k.tag = l.tag /\ k.data = l.data \o w.cells
    BY <1>1, <1>2, WithFacts
  <2>2. <<>> \o w.cells = w.cells
    BY <1>1, ConcatEmptySeq
  <2> QED BY <2>1, <2>2, <1>2
<1>4. Finished(k) = Enclosed(t, w).cells /\ Enclosed(t, w).pending = w.pending
  <2> HIDE DEF k
  <2>1. Enclosed(t, w).cells = Wrapped(t, TRUE, w.cells)
    BY DEF Enclosed
  <2>2. Enclosed(t, w).pending = w.pending
    BY DEF Enclosed
  <2>3. Finished(k) = Wrapped(t, TRUE, w.cells)
    BY <1>3, Zenon DEF Finished
  <2> QED BY <2>1, <2>2, <2>3
<1>5. LayersWith(all, w.cells) = with
  BY <1>1, <1>2, LayersWithFacts
<1>6. all # <<>>
  BY <1>2, Pushed
<1> HIDE DEF k
<1>7. with # <<>> /\ Head(with) = k /\ Tail(with) = ls
  BY <1>3, Pushed
<1> HIDE DEF all, with
<1>8. OutWith(all, s, w.cells) = s
  BY <1>6 DEF OutWith
<1> DEFINE st == State(with, s, w.pending)
<1>9. Sent(all, s, w.cells, w.pending) = st
  BY <1>5, <1>8 DEF Sent
<1>10. st.layers = with /\ st.out = s /\ st.tag = w.pending
  BY StateFields
<1> HIDE DEF st
<1>11. Passes(st) = Sent(ls, s, Finished(k), w.pending)
  BY <1>7, <1>10 DEF Passes
<1> QED BY <1>4, <1>9, <1>11 DEF all, l

-----------------------------------------------------------------------------

\* What comes of writing an object, by its kind, as its steps go about it.
LEMMA OneWritten ==
  ASSUME NEW o \in Objects, NEW st \in States
  PROVE  LET w == Own(Emitted, o, st.tag) IN
         Writes(<<o>>, st) = Sent(st.layers, st.out, w.cells, w.pending)
<1>1. st.tag \in Tags
  BY StatesHave
<1>2. Emitted[<<o>>][st.tag] = Own(Emitted, o, st.tag)
  BY <1>1, EmittedOne
<1> QED BY <1>2 DEF Writes

LEMMA PrimitiveWritten ==
  ASSUME NEW o \in Objects, o.kind = "primitive", NEW st \in States
  PROVE  LET t == IF st.tag = NoTag THEN o.tag ELSE st.tag IN
         Writes(<<o>>, st) = Sent(st.layers, st.out, Wrapped(t, FALSE, Octets(o.octets)), NoTag)
<1> DEFINE cells == Wrapped(IF st.tag = NoTag THEN o.tag ELSE st.tag, FALSE, Octets(o.octets))
           w == Own(Emitted, o, st.tag)
<1>1. w = [cells |-> cells, pending |-> NoTag]
  BY OwnPrimitive
<1>2. Writes(<<o>>, st) = Sent(st.layers, st.out, w.cells, w.pending)
  BY OneWritten
<1> HIDE DEF cells, w
<1>3. w.cells = cells /\ w.pending = NoTag
  BY <1>1
<1> QED BY <1>2, <1>3 DEF cells

LEMMA TrailingWritten ==
  ASSUME NEW o \in Objects, o.kind = "trailing", NEW st \in States
  PROVE  Writes(<<o>>, st) = Sent(st.layers, st.out, o.cells, st.tag)
<1> DEFINE w == Own(Emitted, o, st.tag)
<1>1. w = [cells |-> o.cells, pending |-> st.tag]
  BY OwnTrailing
<1>2. Writes(<<o>>, st) = Sent(st.layers, st.out, w.cells, w.pending)
  BY OneWritten
<1> HIDE DEF w
<1>3. w.cells = o.cells /\ w.pending = st.tag
  BY <1>1
<1> QED BY <1>2, <1>3

LEMMA PartsWritten ==
  ASSUME NEW o \in Objects, o.kind \in {"object", "optional", "choice"}, NEW st \in States
  PROVE  Writes(<<o>>, st) = Writes(o.of, st)
<1>1. Own(Emitted, o, st.tag) = Emitted[o.of][st.tag]
  BY OwnParts
<1> QED BY <1>1, OneWritten DEF Writes

LEMMA AbsentWritten ==
  ASSUME NEW o \in Objects, o.kind \in {"implicit", "explicit"}, Absent(o.of), NEW st \in States
  PROVE  Writes(<<o>>, st) = st
<1> DEFINE w == Own(Emitted, o, st.tag)
<1>1. w = Nothing(st.tag)
  BY OwnImplicit, OwnExplicit
<1>2. Writes(<<o>>, st) = Sent(st.layers, st.out, w.cells, w.pending)
  BY OneWritten
<1> HIDE DEF w
<1>3. w.cells = <<>> /\ w.pending = st.tag
  BY <1>1 DEF Nothing
<1>4. st.layers \in Seq(Layers) /\ st.out \in Seq(Cells) /\ st.tag \in Tags
      /\ st = State(st.layers, st.out, st.tag)
  BY StatesHave
<1>5. <<>> \in Seq(Cells)
  OBVIOUS
<1>6. Sent(st.layers, st.out, <<>>, st.tag) = State(st.layers, st.out, st.tag)
  BY <1>4, <1>5, SentFacts
<1> QED BY <1>2, <1>3, <1>4, <1>6

LEMMA ImplicitWritten ==
  ASSUME NEW o \in Objects, o.kind = "implicit", ~Absent(o.of), NEW st \in States
  PROVE  Writes(<<o>>, st) = Writes(<<o.of>>, State(st.layers, st.out, Context(o.tag)))
<1>1. Own(Emitted, o, st.tag) = Emitted[<<o.of>>][Context(o.tag)]
  BY OwnImplicit
<1> DEFINE as == State(st.layers, st.out, Context(o.tag))
<1>2. as.layers = st.layers /\ as.out = st.out /\ as.tag = Context(o.tag)
  BY StateFields
<1> HIDE DEF as
<1>3. Writes(<<o>>, st) = Writes(<<o.of>>, as)
  BY <1>1, <1>2, OneWritten DEF Writes
<1> QED BY <1>3 DEF as

LEMMA SequenceWritten ==
  ASSUME NEW o \in Objects, o.kind = "sequence", NEW st \in States
  PROVE  LET t == IF st.tag = NoTag THEN o.tag ELSE st.tag IN
         Writes(<<o>>, st) = Passes(Writes(o.of, State(<<Layer(t)>> \o st.layers, st.out, NoTag)))
<1> DEFINE t == IF st.tag = NoTag THEN o.tag ELSE st.tag
           w == Emitted[o.of][NoTag]
           all == <<Layer(t)>> \o st.layers
           in == State(all, st.out, NoTag)
<1>1. st.layers \in Seq(Layers) /\ st.out \in Seq(Cells) /\ st.tag \in Tags
  BY StatesHave
<1>2. WellFormed(o)
  BY SerialiserAssumption DEF SerialiserAssumption
<1>3. t \in Tags /\ o.of \in Seq(Objects)
  BY <1>1, <1>2 DEF WellFormed
<1>4. w \in Results
  BY <1>3, EmittedTyped, TagFacts
<1>5. Own(Emitted, o, st.tag) = Enclosed(t, w)
  BY OwnSequence
<1>6. Writes(<<o>>, st) = Sent(st.layers, st.out, Enclosed(t, w).cells, Enclosed(t, w).pending)
  BY <1>5, OneWritten
<1>7. in.layers = all /\ in.out = st.out /\ in.tag = NoTag
  <2> HIDE DEF all
  <2> QED BY StateFields
<1> HIDE DEF in
<1>8. Writes(o.of, in) = Sent(<<Layer(t)>> \o st.layers, st.out, w.cells, w.pending)
  BY <1>7 DEF Writes
<1> HIDE DEF t, w
<1>9. Writes(<<o>>, st) = Passes(Writes(o.of, in))
  BY <1>1, <1>3, <1>4, <1>6, <1>8, EnclosedPasses
<1> QED BY <1>9 DEF in, t

LEMMA ExplicitWritten ==
  ASSUME NEW o \in Objects, o.kind = "explicit", ~Absent(o.of), NEW st \in States
  PROVE  Writes(<<o>>, st)
           = Passes(Writes(<<o.of>>, State(<<Layer(Context(o.tag))>> \o st.layers, st.out, st.tag)))
<1> DEFINE t == Context(o.tag)
           one == <<o.of>>
           w == Emitted[one][st.tag]
           all == <<Layer(t)>> \o st.layers
           in == State(all, st.out, st.tag)
<1>1. st.layers \in Seq(Layers) /\ st.out \in Seq(Cells) /\ st.tag \in Tags
  BY StatesHave
<1>2. WellFormed(o)
  BY SerialiserAssumption DEF SerialiserAssumption
<1>3. t \in Tags
  BY <1>2, TagFacts DEF WellFormed
<1>4. one \in Seq(Objects)
  <2>1. o.of \in Objects
    BY <1>2 DEF WellFormed
  <2> DEFINE p == o.of
  <2> HIDE DEF p
  <2>2. <<p>> \in Seq(Objects)
    BY <2>1 DEF p
  <2> QED BY <2>2 DEF p
<1>5. Own(Emitted, o, st.tag) = Enclosed(t, w)
  BY OwnExplicit
<1> HIDE DEF one
<1>6. w \in Results
  BY <1>1, <1>4, EmittedTyped
<1>7. Writes(<<o>>, st) = Sent(st.layers, st.out, Enclosed(t, w).cells, Enclosed(t, w).pending)
  BY <1>5, OneWritten
<1>8. in.layers = all /\ in.out = st.out /\ in.tag = st.tag
  <2> HIDE DEF all
  <2> QED BY StateFields
<1> HIDE DEF in
<1>9. Writes(one, in) = Sent(<<Layer(t)>> \o st.layers, st.out, w.cells, w.pending)
  BY <1>8 DEF Writes
<1> HIDE DEF t, w
<1>10. Writes(<<o>>, st) = Passes(Writes(one, in))
  BY <1>1, <1>3, <1>6, <1>7, <1>9, EnclosedPasses
<1> QED BY <1>10 DEF in, t, one


-----------------------------------------------------------------------------

\* The calls fs, one returning after the other, lead from st to goal.
Leads(trace, fs, st, goal) ==
  /\ trace \in [1 .. Len(fs) + 1 -> States]
  /\ trace[1] = st
  /\ trace[Len(fs) + 1] = goal
  /\ \A i \in 1 .. Len(fs) : trace[i + 1] = After(fs[i], trace[i])

Reaches(st, fs, goal) == \E trace : Leads(trace, fs, st, goal)

LEMMA ReachesNone ==
  ASSUME NEW st, NEW goal, NEW fs, fs = <<>>, Reaches(st, fs, goal)
  PROVE  st = goal
<1>1. Len(fs) = 0
  OBVIOUS
<1> QED BY <1>1 DEF Reaches, Leads

LEMMA ReachesItself ==
  ASSUME NEW st \in States
  PROVE  Reaches(st, <<>>, st)
<1> DEFINE trace == [i \in 1 .. 1 |-> st]
           none == <<>>
<1>1. Len(none) = 0
  OBVIOUS
<1>2. trace \in [1 .. 1 -> States] /\ trace[1] = st
  OBVIOUS
<1> HIDE DEF trace, none
<1>3. Leads(trace, none, st, st)
  BY <1>1, <1>2 DEF Leads
<1> QED BY <1>3 DEF Reaches, none

\* The call on top returns.
LEMMA ReachesRest ==
  ASSUME NEW fs \in Seq(Frames), fs # <<>>, NEW st, NEW goal, Reaches(st, fs, goal)
  PROVE  Reaches(After(Head(fs), st), Tail(fs), goal)
<1>1. PICK trace : Leads(trace, fs, st, goal)
  BY DEF Reaches
<1> DEFINE rest == Tail(fs)
<1>2. /\ Head(fs) = fs[1] /\ Len(fs) \in Nat /\ Len(fs) >= 1
      /\ Len(rest) = Len(fs) - 1
      /\ \A i \in 1 .. Len(fs) - 1 : rest[i] = fs[i + 1]
  BY PopIndices
<1> HIDE DEF rest
<1> DEFINE n == Len(fs)
<1>3. /\ trace \in [1 .. n + 1 -> States] /\ trace[1] = st /\ trace[n + 1] = goal
      /\ \A i \in 1 .. n : trace[i + 1] = After(fs[i], trace[i])
  BY <1>1 DEF Leads
<1>4. n \in Nat /\ n >= 1 /\ Len(rest) = n - 1
  BY <1>2
<1> HIDE DEF n
<1> DEFINE later == [i \in 1 .. n |-> trace[i + 1]]
<1>5. later \in [1 .. n -> States]
  BY <1>3, <1>4
<1>6. later[1] = After(Head(fs), st)
  <2>1. 1 \in 1 .. n /\ trace[1 + 1] = After(fs[1], trace[1])
    BY <1>3, <1>4
  <2> QED BY <2>1, <1>2, <1>3
<1>7. later[n] = goal
  BY <1>3, <1>4
<1>8. ASSUME NEW i \in 1 .. n - 1
      PROVE  later[i + 1] = After(rest[i], later[i])
  <2>1. i \in 1 .. n /\ i + 1 \in 1 .. n
    BY <1>4
  <2>2. trace[(i + 1) + 1] = After(fs[i + 1], trace[i + 1])
    BY <2>1, <1>3
  <2>3. rest[i] = fs[i + 1]
    BY <1>2 DEF n
  <2>4. later[i + 1] = trace[(i + 1) + 1] /\ later[i] = trace[i + 1]
    BY <2>1
  <2> QED BY <2>2, <2>3, <2>4
<1> HIDE DEF later
<1>9. Len(rest) + 1 = n
  BY <1>4
<1>10. Leads(later, rest, After(Head(fs), st), goal)
  BY <1>4, <1>5, <1>6, <1>7, <1>8, <1>9 DEF Leads
<1> QED BY <1>10 DEF Reaches, rest

\* A call is put on top.
LEMMA ReachesOn ==
  ASSUME NEW f \in Frames, NEW fs \in Seq(Frames), NEW st \in States, NEW goal,
         Reaches(After(f, st), fs, goal)
  PROVE  Reaches(st, <<f>> \o fs, goal)
<1>1. PICK trace : Leads(trace, fs, After(f, st), goal)
  BY DEF Reaches
<1> DEFINE all == <<f>> \o fs
           n == Len(fs)
<1>2. /\ Len(all) = n + 1 /\ n \in Nat /\ all[1] = f
      /\ \A i \in 1 .. n + 1 : i # 1 => i - 1 \in 1 .. n /\ all[i] = fs[i - 1]
  BY PushIndices
<1>3. /\ trace \in [1 .. n + 1 -> States] /\ trace[1] = After(f, st) /\ trace[n + 1] = goal
      /\ \A i \in 1 .. n : trace[i + 1] = After(fs[i], trace[i])
  BY <1>1 DEF Leads
<1> HIDE DEF all, n
<1> DEFINE whole == [i \in 1 .. n + 2 |-> IF i = 1 THEN st ELSE trace[i - 1]]
<1>4. whole \in [1 .. n + 2 -> States]
  BY <1>2, <1>3
<1>5. whole[1] = st /\ whole[n + 2] = goal
  BY <1>2, <1>3
<1>6. ASSUME NEW i \in 1 .. n + 1
      PROVE  whole[i + 1] = After(all[i], whole[i])
  <2>1. i + 1 \in 1 .. n + 2 /\ i \in 1 .. n + 2 /\ i + 1 # 1 /\ (i + 1) - 1 = i
    BY <1>2
  <2>2. whole[i + 1] = trace[i]
    BY <2>1
  <2>3. CASE i = 1
    BY <2>1, <2>2, <2>3, <1>2, <1>3
  <2>4. CASE i # 1
    <3>1. i - 1 \in 1 .. n /\ all[i] = fs[i - 1] /\ (i - 1) + 1 = i
      BY <2>4, <1>2
    <3>2. trace[(i - 1) + 1] = After(fs[i - 1], trace[i - 1])
      BY <3>1, <1>3
    <3>3. whole[i] = trace[i - 1]
      BY <2>1, <2>4
    <3> QED BY <2>2, <3>1, <3>2, <3>3
  <2> QED BY <2>3, <2>4
<1> HIDE DEF whole
<1>7. Len(all) + 1 = n + 2
  BY <1>2
<1>8. Leads(whole, all, st, goal)
  BY <1>2, <1>4, <1>5, <1>6, <1>7 DEF Leads
<1> QED BY <1>8 DEF Reaches, all

\* Two calls are.
LEMMA ReachesOnTwo ==
  ASSUME NEW f \in Frames, NEW g \in Frames, NEW fs \in Seq(Frames), NEW st \in States, NEW goal,
         Reaches(After(g, After(f, st)), fs, goal)
  PROVE  Reaches(st, <<f, g>> \o fs, goal)
<1>1. After(f, st) \in States
  BY AfterTyped
<1> DEFINE gs == <<g>> \o fs
<1>2. gs \in Seq(Frames)
  BY Pushed
<1>3. Reaches(After(f, st), gs, goal)
  BY <1>1, ReachesOn
<1>4. <<f, g>> \o fs = <<f>> \o gs
  BY TwoFrames
<1> HIDE DEF gs
<1>5. Reaches(st, <<f>> \o gs, goal)
  BY <1>2, <1>3, ReachesOn
<1> QED BY <1>4, <1>5


-----------------------------------------------------------------------------
(***************************************************************************)
(* A call writes what it should: at any time what is left to run of it     *)
(* leads to what should come of its object, from where it was made.        *)
(***************************************************************************)

\* Where the call should end, if it was made with the layers ls.
Meant(ls) == Writes(<<call.case.object>>, State(ls, call.out, call.tag))

OnCourse == \E ls \in Seq(Layers) : Len(ls) = call.layers /\ Reaches(Now, frames, Meant(ls))

OutputInv ==
  /\ call.out \in Seq(Cells) /\ call.tag \in Tags
  /\ status = "running" => OnCourse
  /\ OutputIsWritten

LEMMA NowFacts ==
  ASSUME Inv
  PROVE  Now \in States /\ Now.layers = layers /\ Now.out = out /\ Now.tag = current_tag
<1>1. Now \in States
  BY StateFacts, StatesTyped DEF Now
<1> QED BY <1>1, StateFields DEF Now

\* The same behind a step that keeps Inv.
LEMMA NowFactsAfter ==
  ASSUME Inv'
  PROVE  Now' \in States /\ Now' = State(layers', out', current_tag')
<1>1. layers' \in Seq(Layers) /\ out' \in Seq(Cells) /\ current_tag' \in Tags
  BY DEF Inv, TypeOK
<1>2. Now' = State(layers', out', current_tag')
  BY DEF Now
<1> QED BY <1>1, <1>2, StatesTyped

\* A step of a call that does not throw.
LEMMA CourseKept ==
  ASSUME OutputInv, status = "running", status' = "running", UNCHANGED <<outcome, call>>,
         \A goal : Reaches(Now, frames, goal) => Reaches(Now', frames', goal)
  PROVE  OutputInv'
<1>1. call' = call
  OBVIOUS
<1>2. PICK ls \in Seq(Layers) : Len(ls) = call.layers /\ Reaches(Now, frames, Meant(ls))
  BY DEF OutputInv, OnCourse
<1>3. Meant(ls)' = Meant(ls)
  BY <1>1 DEF Meant
<1>4. Reaches(Now', frames', Meant(ls)')
  BY <1>2, <1>3
<1>5. OnCourse'
  BY <1>1, <1>2, <1>4 DEF OnCourse
<1>6. call'.out \in Seq(Cells) /\ call'.tag \in Tags
  BY <1>1 DEF OutputInv
<1>7. OutputIsWritten'
  BY DEF OutputIsWritten
<1> QED BY <1>5, <1>6, <1>7 DEF OutputInv

\* A step that throws, or ends the program.
LEMMA CourseLeft ==
  ASSUME OutputInv, status' \in {"throwing", "terminated"}, UNCHANGED call
  PROVE  OutputInv'
BY DEF OutputInv, OutputIsWritten

\* The call on top is over.
LEMMA CallDone ==
  ASSUME Inv, OutputInv, status = "running", frames # <<>>, UNCHANGED <<status, outcome, call>>,
         Now' = After(Top, Now), frames' = Rest
  PROVE  OutputInv'
<1>1. frames \in Seq(Frames)
  BY StateFacts
<1>2. ASSUME NEW goal, Reaches(Now, frames, goal)
      PROVE  Reaches(Now', frames', goal)
  <2>1. Reaches(After(Top, Now), Rest, goal)
    BY <1>1, <1>2, ReachesRest DEF Top, Rest
  <2> QED BY <2>1
<1> QED BY <1>2, CourseKept

\* The call on top goes on with another one, or with two.
LEMMA CallGoesOn ==
  ASSUME Inv, OutputInv, Inv', status = "running", frames # <<>>, UNCHANGED <<status, outcome, call>>,
         NEW f \in Frames, frames' = <<f>> \o Rest, After(f, Now') = After(Top, Now)
  PROVE  OutputInv'
<1>1. frames \in Seq(Frames) /\ Rest \in Seq(Frames) /\ Now' \in States
  BY StateFacts, TopFacts, NowFactsAfter
<1>2. ASSUME NEW goal, Reaches(Now, frames, goal)
      PROVE  Reaches(Now', frames', goal)
  <2>1. Reaches(After(Top, Now), Rest, goal)
    BY <1>1, <1>2, ReachesRest DEF Top, Rest
  <2>2. Reaches(After(f, Now'), Rest, goal)
    BY <2>1
  <2>3. Reaches(Now', <<f>> \o Rest, goal)
    BY <1>1, <2>2, ReachesOn
  <2> QED BY <2>3
<1> QED BY <1>2, CourseKept

LEMMA CallGoesOnTwice ==
  ASSUME Inv, OutputInv, Inv', status = "running", frames # <<>>, UNCHANGED <<status, outcome, call>>,
         NEW f \in Frames, NEW g \in Frames, frames' = <<f, g>> \o Rest,
         After(g, After(f, Now')) = After(Top, Now)
  PROVE  OutputInv'
<1>1. frames \in Seq(Frames) /\ Rest \in Seq(Frames) /\ Now' \in States
  BY StateFacts, TopFacts, NowFactsAfter
<1>2. ASSUME NEW goal, Reaches(Now, frames, goal)
      PROVE  Reaches(Now', frames', goal)
  <2>1. Reaches(After(Top, Now), Rest, goal)
    BY <1>1, <1>2, ReachesRest DEF Top, Rest
  <2>2. Reaches(After(g, After(f, Now')), Rest, goal)
    BY <2>1
  <2>3. Reaches(Now', <<f, g>> \o Rest, goal)
    BY <1>1, <2>2, ReachesOnTwo
  <2> QED BY <2>3
<1> QED BY <1>2, CourseKept

-----------------------------------------------------------------------------

LEMMA TopWritten ==
  ASSUME NEW k, Writing(k)
  PROVE  After(Top, Now) = Writes(<<Top.object>>, Now)
<1>1. Top.call = "write"
  BY DEF Writing
<1> QED BY <1>1 DEF After, Closers

LEMMA SentNow ==
  ASSUME NEW cells, NEW ls, Sends(cells, ls)
  PROVE  Now' = Sent(ls, out, cells, current_tag')
BY SendsIs DEF Now, Sent

LEMMA WritePrimitiveOnCourse ==
  ASSUME Inv, OutputInv, WritePrimitive
  PROVE  OutputInv'
<1> DEFINE o == Top.object
           cells == Wrapped(TagOr(o.tag), FALSE, Octets(o.octets))
<1>1. /\ frames # <<>> /\ status = "running" /\ o \in Objects /\ o.kind = "primitive"
      /\ Writing("primitive")
  BY WritingFacts DEF WritePrimitive
<1>2. current_tag' = NoTag /\ UNCHANGED <<outcome, call>>
  BY DEF WritePrimitive, history
<1>3. After(Top, Now) = Sent(layers, out, cells, NoTag)
  <2>1. /\ Now \in States /\ Now.layers = layers /\ Now.out = out /\ Now.tag = current_tag
    BY NowFacts
  <2>2. cells = Wrapped(IF Now.tag = NoTag THEN o.tag ELSE Now.tag, FALSE, Octets(o.octets))
    BY <2>1, Zenon DEF TagOr
  <2>3. Writes(<<o>>, Now)
          = Sent(Now.layers, Now.out,
                 Wrapped(IF Now.tag = NoTag THEN o.tag ELSE Now.tag, FALSE, Octets(o.octets)), NoTag)
    BY <1>1, <2>1, PrimitiveWritten
  <2>4. After(Top, Now) = Writes(<<o>>, Now)
    BY <1>1, TopWritten
  <2> HIDE DEF o, cells
  <2> QED BY <2>1, <2>2, <2>3, <2>4, Zenon
<1>4. CASE Sends(cells, layers) /\ frames' = Rest /\ UNCHANGED status
  <2> HIDE DEF cells
  <2>1. Now' = After(Top, Now)
    BY <1>2, <1>3, <1>4, SentNow
  <2> QED BY <2>1, <1>1, <1>2, <1>4, CallDone
<1>5. CASE status' = "throwing"
  BY <1>2, <1>5, CourseLeft
<1> QED BY <1>4, <1>5 DEF WritePrimitive, Throw

LEMMA WriteTrailingOnCourse ==
  ASSUME Inv, OutputInv, WriteTrailing
  PROVE  OutputInv'
<1> DEFINE o == Top.object
<1>1. /\ frames # <<>> /\ status = "running" /\ o \in Objects /\ o.kind = "trailing"
      /\ Writing("trailing")
  BY WritingFacts DEF WriteTrailing
<1>2. current_tag' = current_tag /\ UNCHANGED <<outcome, call>>
  BY DEF WriteTrailing, history
<1>3. After(Top, Now) = Sent(layers, out, o.cells, current_tag)
  <2>1. Now \in States /\ Now.layers = layers /\ Now.out = out /\ Now.tag = current_tag
    BY NowFacts
  <2>2. Writes(<<o>>, Now) = Sent(Now.layers, Now.out, o.cells, Now.tag)
    BY <1>1, <2>1, TrailingWritten
  <2> QED BY <1>1, <2>1, <2>2, TopWritten
<1>4. CASE Sends(o.cells, layers) /\ frames' = Rest /\ UNCHANGED status
  <2>1. Now' = After(Top, Now)
    BY <1>2, <1>3, <1>4, SentNow
  <2> QED BY <2>1, <1>1, <1>2, <1>4, CallDone
<1>5. CASE status' = "throwing"
  BY <1>2, <1>5, CourseLeft
<1> QED BY <1>4, <1>5 DEF WriteTrailing, Throw


\* The layer a step opens.
LEMMA OpenedNow ==
  ASSUME NEW t, NEW inside, Open(t, inside)
  PROVE  /\ Now' = State(<<Layer(t)>> \o layers, out, current_tag')
         /\ frames' = inside \o Rest
         /\ UNCHANGED <<status, outcome, call>>
BY DEF Open, Now, history

LEMMA WriteSequenceOnCourse ==
  ASSUME Inv, OutputInv, WriteSequence
  PROVE  OutputInv'
<1> DEFINE o == Top.object
           t == TagOr(o.tag)
           f == Fields(o.of)
           g == EndSequence(Depth)
<1>1. /\ frames # <<>> /\ status = "running" /\ o \in Objects /\ o.kind = "sequence"
      /\ Writing("sequence") /\ o.of \in Seq(Objects)
  BY WritingFacts DEF WriteSequence, WellFormed
<1>2. f \in Frames /\ g \in Frames /\ Closes(g)
  BY <1>1, FieldsFrame, ClosingFrames, DepthFacts
<1>3. Open(t, <<f, g>>) /\ current_tag' = NoTag
  BY DEF WriteSequence
<1>4. Now \in States /\ Now.layers = layers /\ Now.out = out /\ Now.tag = current_tag
  BY NowFacts
<1>5. t = IF Now.tag = NoTag THEN o.tag ELSE Now.tag
  BY <1>4, Zenon DEF TagOr
<1>6. Writes(<<o>>, Now)
        = Passes(Writes(o.of, State(<<Layer(IF Now.tag = NoTag THEN o.tag ELSE Now.tag)>> \o Now.layers,
                                    Now.out, NoTag)))
  BY <1>1, <1>4, SequenceWritten
<1>7. After(Top, Now) = Writes(<<o>>, Now)
  BY <1>1, TopWritten
<1>8. After(f, Now') = Writes(o.of, Now')
  BY AfterFields
<1> HIDE DEF o, t, f, g
<1>9. Now' = State(<<Layer(t)>> \o layers, out, NoTag)
  BY <1>3, OpenedNow
<1>10. After(Top, Now) = Passes(Writes(o.of, Now'))
  BY <1>4, <1>5, <1>6, <1>7, <1>9, Zenon
<1>11. After(g, After(f, Now')) = After(Top, Now)
  <2> DEFINE st == After(f, Now')
  <2>1. After(g, st) = Passes(st)
    BY <1>2, AfterClosing
  <2>2. st = Writes(o.of, Now')
    BY <1>8
  <2> HIDE DEF st
  <2>3. After(g, st) = After(Top, Now)
    BY <2>1, <2>2, <1>10
  <2> QED BY <2>3 DEF st
<1>12. frames' = <<f, g>> \o Rest /\ UNCHANGED <<status, outcome, call>>
  BY <1>3, OpenedNow
<1>13. Inv'
  BY WriteSequenceKeeps
<1> QED BY <1>1, <1>2, <1>11, <1>12, <1>13, CallGoesOnTwice

LEMMA WriteExplicitOnCourse ==
  ASSUME Inv, OutputInv, WriteExplicit
  PROVE  OutputInv'
<1> DEFINE o == Top.object
           t == Context(o.tag)
           f == Write(o.of)
           g == EndExplicit(Depth)
<1>1. /\ frames # <<>> /\ status = "running" /\ o \in Objects /\ o.kind = "explicit"
      /\ Writing("explicit") /\ o.of \in Objects /\ ~Absent(o.of)
  BY WritingFacts DEF WriteExplicit, WellFormed
<1>2. f \in Frames /\ g \in Frames /\ Closes(g)
  BY <1>1, WriteFrame, ClosingFrames, DepthFacts
<1>3. Open(t, <<f, g>>) /\ current_tag' = current_tag
  BY DEF WriteExplicit
<1>4. Now \in States /\ Now.layers = layers /\ Now.out = out /\ Now.tag = current_tag
  BY NowFacts
<1>5. Writes(<<o>>, Now)
        = Passes(Writes(<<o.of>>, State(<<Layer(Context(o.tag))>> \o Now.layers, Now.out, Now.tag)))
  BY <1>1, <1>4, ExplicitWritten
<1>6. After(Top, Now) = Writes(<<o>>, Now)
  BY <1>1, TopWritten
<1>7. After(f, Now') = Writes(<<o.of>>, Now')
  BY AfterWrite
<1>8. Now' = State(<<Layer(t)>> \o layers, out, current_tag)
  <2> HIDE DEF t, f, g
  <2> QED BY <1>3, OpenedNow
<1>9. After(Top, Now) = Passes(Writes(<<o.of>>, Now'))
  BY <1>4, <1>5, <1>6, <1>8, Zenon
<1>10. After(g, After(f, Now')) = After(Top, Now)
  <2> DEFINE st == After(f, Now')
  <2>1. After(g, st) = Passes(st)
    <3> HIDE DEF st, g
    <3> QED BY <1>2, AfterClosing
  <2>2. st = Writes(<<o.of>>, Now')
    BY <1>7
  <2> HIDE DEF st, g, o
  <2>3. After(g, st) = After(Top, Now)
    BY <2>1, <2>2, <1>9
  <2> QED BY <2>3 DEF st
<1> HIDE DEF t, f, g
<1>11. frames' = <<f, g>> \o Rest /\ UNCHANGED <<status, outcome, call>>
  BY <1>3, OpenedNow
<1>12. Inv'
  BY WriteExplicitKeeps
<1> QED BY <1>1, <1>2, <1>10, <1>11, <1>12, CallGoesOnTwice

LEMMA WriteImplicitOnCourse ==
  ASSUME Inv, OutputInv, WriteImplicit
  PROVE  OutputInv'
<1> DEFINE o == Top.object
           f == Write(o.of)
<1>1. /\ frames # <<>> /\ status = "running" /\ o \in Objects /\ o.kind = "implicit"
      /\ Writing("implicit") /\ o.of \in Objects /\ ~Absent(o.of)
  BY WritingFacts DEF WriteImplicit, WellFormed
<1>2. f \in Frames
  BY <1>1, WriteFrame
<1>3. /\ current_tag' = Context(o.tag) /\ layers' = layers /\ out' = out
      /\ frames' = <<f>> \o Rest /\ UNCHANGED <<status, outcome, call>>
  BY DEF WriteImplicit, encoder, history
<1>4. Now \in States /\ Now.layers = layers /\ Now.out = out
  BY NowFacts
<1>5. Writes(<<o>>, Now) = Writes(<<o.of>>, State(Now.layers, Now.out, Context(o.tag)))
  BY <1>1, <1>4, ImplicitWritten
<1>6. Now' = State(layers, out, Context(o.tag))
  BY <1>3 DEF Now
<1>7. After(f, Now') = Writes(<<o.of>>, Now')
  BY AfterWrite
<1>8. After(Top, Now) = Writes(<<o>>, Now)
  BY <1>1, TopWritten
<1>9. Inv'
  BY WriteImplicitKeeps
<1> HIDE DEF o, f
<1>10. After(f, Now') = After(Top, Now)
  BY <1>4, <1>5, <1>6, <1>7, <1>8, Zenon
<1> QED BY <1>1, <1>2, <1>3, <1>9, <1>10, CallGoesOn

LEMMA WriteTaggedAbsentOnCourse ==
  ASSUME Inv, OutputInv, WriteTaggedAbsent
  PROVE  OutputInv'
<1> DEFINE o == Top.object
<1>1. PICK k \in {"implicit", "explicit"} : Writing(k)
  BY DEF WriteTaggedAbsent
<1>2. frames # <<>> /\ status = "running" /\ o \in Objects /\ o.kind = k
  BY <1>1, WritingFacts
<1>3. /\ Absent(o.of) /\ frames' = Rest /\ layers' = layers /\ out' = out
      /\ current_tag' = current_tag /\ UNCHANGED <<status, outcome, call>>
  BY DEF WriteTaggedAbsent, encoder, history
<1>4. Now \in States /\ Now' = Now
  BY <1>3, NowFacts DEF Now
<1>5. After(Top, Now) = Now
  BY <1>1, <1>2, <1>3, <1>4, TopWritten, AbsentWritten
<1> QED BY <1>2, <1>3, <1>4, <1>5, CallDone

LEMMA WritePartsOnCourse ==
  ASSUME Inv, OutputInv, NEW k \in {"object", "optional", "choice"}, Writing(k), Inv',
         frames' = <<Fields(Top.object.of)>> \o Rest,
         UNCHANGED <<encoder, current_tag, status, outcome, history>>
  PROVE  OutputInv'
<1> DEFINE o == Top.object
           f == Fields(o.of)
<1>1. /\ frames # <<>> /\ status = "running" /\ o \in Objects /\ o.kind = k
      /\ o.of \in Seq(Objects)
  BY WritingFacts DEF WellFormed
<1>2. f \in Frames
  BY <1>1, FieldsFrame
<1>3. Now' = Now /\ Now \in States /\ UNCHANGED <<status, outcome, call>>
  BY NowFacts DEF Now, encoder, history
<1>4. After(f, Now') = Writes(o.of, Now)
  BY <1>3, AfterFields
<1>5. After(Top, Now) = Writes(o.of, Now)
  BY <1>1, <1>3, TopWritten, PartsWritten
<1>6. frames' = <<f>> \o Rest
  OBVIOUS
<1> HIDE DEF f
<1> QED BY <1>1, <1>2, <1>3, <1>4, <1>5, <1>6, CallGoesOn

LEMMA WriteChoiceOnCourse ==
  ASSUME Inv, OutputInv, WriteChoice
  PROVE  OutputInv'
<1>1. Writing("choice") /\ UNCHANGED <<encoder, current_tag, outcome, history>>
  BY DEF WriteChoice
<1>2. CASE Top.object.of = <<>>
  <2>1. status' = "throwing"
    BY <1>2 DEF WriteChoice, Throw
  <2>2. UNCHANGED call
    BY <1>1 DEF history
  <2> QED BY <2>1, <2>2, CourseLeft
<1>3. CASE Top.object.of # <<>>
  <2>1. frames' = <<Fields(Top.object.of)>> \o Rest /\ UNCHANGED status
    BY <1>3 DEF WriteChoice
  <2>2. Inv'
    BY WriteChoiceKeeps
  <2> QED BY <1>1, <2>1, <2>2, WritePartsOnCourse
<1> QED BY <1>2, <1>3

LEMMA NextFieldOnCourse ==
  ASSUME Inv, OutputInv, NextField
  PROVE  OutputInv'
<1> DEFINE os == Top.objects
<1>1. frames # <<>> /\ status = "running" /\ Top.call = "fields"
  BY DEF NextField, running
<1>2. os \in Seq(Objects) /\ Rest \in Seq(Frames)
  BY <1>1, TopFacts, FrameParts
<1>3. Now' = Now /\ Now \in States /\ UNCHANGED <<status, outcome, call>>
  BY NowFacts DEF NextField, Now, encoder, history
<1>4. After(Top, Now) = Writes(os, Now)
  BY <1>1 DEF After, Closers
<1>5. CASE os = <<>>
  <2>1. frames' = <<>> \o Rest
    BY <1>5 DEF NextField
  <2>2. frames' = Rest
    BY <2>1, <1>2, ConcatEmptySeq
  <2>3. After(Top, Now) = Now
    BY <1>3, <1>4, <1>5, WritesNone
  <2> QED BY <2>2, <2>3, <1>1, <1>3, CallDone
<1>6. CASE os # <<>>
  <2> DEFINE f == Write(Head(os))
             g == Fields(Tail(os))
  <2>1. Head(os) \in Objects /\ Tail(os) \in Seq(Objects)
    BY <1>2, <1>6, HeadTailProperties
  <2>2. f \in Frames /\ g \in Frames
    BY <2>1, WriteFrame, FieldsFrame
  <2>3. frames' = <<f, g>> \o Rest
    BY <1>6 DEF NextField
  <2>4. After(f, Now') = Writes(<<Head(os)>>, Now)
    BY <1>3, AfterWrite
  <2>5. After(g, After(f, Now')) = Writes(Tail(os), Writes(<<Head(os)>>, Now))
    BY <2>4, AfterFields
  <2>6. After(g, After(f, Now')) = After(Top, Now)
    BY <2>5, <1>2, <1>3, <1>4, <1>6, WritesNext
  <2>7. Inv'
    BY NextFieldKeeps
  <2> HIDE DEF f, g
  <2> QED BY <2>2, <2>3, <2>6, <2>7, <1>1, <1>3, CallGoesOnTwice
<1> QED BY <1>5, <1>6

LEMMA CloseOnCourse ==
  ASSUME Inv, OutputInv, frames # <<>>, Closes(Top), layers # <<>>, status = "running",
         Sends(Finished(Head(layers)), Tail(layers)), frames' = Rest,
         UNCHANGED <<current_tag, status, outcome, call>>
  PROVE  OutputInv'
<1>1. Now \in States /\ Now.layers = layers /\ Now.out = out /\ Now.tag = current_tag
  BY NowFacts
<1>2. After(Top, Now) = Passes(Now)
  BY AfterClosing
<1>3. Passes(Now) = Sent(Tail(layers), out, Finished(Head(layers)), current_tag)
  BY <1>1 DEF Passes
<1>4. Now' = Sent(Tail(layers), out, Finished(Head(layers)), current_tag)
  <2> DEFINE cells == Finished(Head(layers))
             ls == Tail(layers)
  <2> HIDE DEF cells, ls
  <2>1. Now' = Sent(ls, out, cells, current_tag')
    BY SentNow DEF cells, ls
  <2> QED BY <2>1 DEF cells, ls
<1> QED BY <1>2, <1>3, <1>4, CallDone


LEMMA CloseSequenceOnCourse ==
  ASSUME Inv, OutputInv, CloseSequence
  PROVE  OutputInv'
<1>1. /\ frames # <<>> /\ Closes(Top) /\ layers # <<>> /\ status \in {"running", "throwing"}
      /\ UNCHANGED <<current_tag, outcome, call>>
  BY DEF CloseSequence, Closes, Closers, history
<1>2. CASE Sends(Finished(Head(layers)), Tail(layers)) /\ frames' = Rest /\ UNCHANGED status
  <2>1. CASE status = "running"
    BY <1>1, <1>2, <2>1, CloseOnCourse
  <2>2. CASE status = "throwing"
    BY <1>1, <1>2, <2>2, CourseLeft
  <2> QED BY <1>1, <2>1, <2>2
<1>3. CASE status' = "terminated"
  BY <1>1, <1>3, CourseLeft
<1> QED BY <1>2, <1>3 DEF CloseSequence

LEMMA CloseExplicitOnCourse ==
  ASSUME Inv, OutputInv, CloseExplicit
  PROVE  OutputInv'
<1>1. /\ frames # <<>> /\ Closes(Top) /\ layers # <<>> /\ status = "running"
      /\ UNCHANGED <<current_tag, outcome, call>>
  BY DEF CloseExplicit, running, Closes, Closers, history
<1>2. CASE Sends(Finished(Head(layers)), Tail(layers)) /\ frames' = Rest /\ UNCHANGED status
  BY <1>1, <1>2, CloseOnCourse
<1>3. CASE status' = "throwing"
  BY <1>1, <1>3, CourseLeft
<1> QED BY <1>2, <1>3 DEF CloseExplicit, Throw

LEMMA UnwindOnCourse ==
  ASSUME OutputInv, Unwind
  PROVE  OutputInv'
<1>1. status' = "throwing" /\ UNCHANGED call
  BY DEF Unwind
<1> QED BY <1>1, CourseLeft

\* A call returns: it is where it should be.
LEMMA ReturnOnCourse ==
  ASSUME Inv, OutputInv, Return
  PROVE  OutputInv'
<1>1. /\ frames = <<>> /\ status \in {"running", "throwing"} /\ status' = "idle"
      /\ outcome' = (IF status = "running" THEN "ok" ELSE "thrown")
      /\ layers' = layers /\ out' = out /\ current_tag' = current_tag /\ call' = call
  BY DEF Return, encoder, history
<1>2. call'.out \in Seq(Cells) /\ call'.tag \in Tags
  BY <1>1 DEF OutputInv
<1>3. CASE status = "throwing"
  <2>1. outcome' # "ok"
    BY <1>1, <1>3
  <2>2. OutputIsWritten'
    BY <2>1 DEF OutputIsWritten
  <2> QED BY <1>1, <1>2, <2>2 DEF OutputInv
<1>4. CASE status = "running"
  <2> DEFINE os == <<call.case.object>>
             w == Emitted[os][call.tag]
  <2>1. PICK ls \in Seq(Layers) : Len(ls) = call.layers /\ Reaches(Now, frames, Meant(ls))
    BY <1>4 DEF OutputInv, OnCourse
  <2>2. Now = Meant(ls)
    BY <2>1, <1>1, ReachesNone
  <2> DEFINE start == State(ls, call.out, call.tag)
  <2>3. start.layers = ls /\ start.out = call.out /\ start.tag = call.tag
    BY StateFields
  <2>4. Meant(ls) = Writes(os, start)
    BY DEF Meant
  <2> HIDE DEF start, os
  <2>5. Meant(ls) = Sent(ls, call.out, w.cells, w.pending)
    BY <2>3, <2>4 DEF Writes
  <2> HIDE DEF w
  <2>6. Now.out = OutWith(ls, call.out, w.cells) /\ Now.tag = w.pending
    BY <2>2, <2>5, StateFields DEF Sent
  <2>7. out = OutWith(ls, call.out, w.cells) /\ current_tag = w.pending
    BY <2>6, NowFacts
  <2>8. ls = <<>> <=> call.layers = 0
    BY <2>1, EmptySeq, LenProperties
  <2>9. Len(ls) \in Nat
    BY LenProperties
  <2>10. /\ call.layers = 0 => out = call.out \o w.cells
         /\ call.layers > 0 => out = call.out
    <3>1. CASE ls = <<>>
      <4>1. out = call.out \o w.cells /\ call.layers = 0
        BY <2>7, <2>8, <3>1 DEF OutWith
      <4> QED BY <4>1
    <3>2. CASE ls # <<>>
      <4>1. out = call.out /\ call.layers # 0
        BY <2>7, <2>8, <3>2 DEF OutWith
      <4> QED BY <4>1
    <3> QED BY <3>1, <3>2
  <2>11. Emitted[<<call'.case.object>>][call'.tag] = w
    BY <1>1 DEF w, os
  <2>12. OutputIsWritten'
    BY <1>1, <2>7, <2>10, <2>11 DEF OutputIsWritten
  <2> QED BY <1>1, <1>2, <2>12 DEF OutputInv
<1> QED BY <1>1, <1>3, <1>4

LEMMA CallOnCourse ==
  ASSUME Inv, OutputInv, NEW c \in Cases, NEW fresh \in BOOLEAN, Call(c, fresh)
  PROVE  OutputInv'
<1>1. /\ status' = "running" /\ frames' = <<Write(c.object)>> /\ out' = out
      /\ call' = [case |-> c, out |-> out, layers |-> Len(layers'), tag |-> current_tag',
                  failures |-> failures]
  BY DEF Call
<1>2. /\ call'.case = c /\ call'.out = out /\ call'.layers = Len(layers') /\ call'.tag = current_tag'
  BY <1>1
<1>3. Inv'
  BY CallKeeps
<1>4. Now' \in States /\ Now' = State(layers', out', current_tag')
  BY <1>3, NowFactsAfter
<1>5. layers' \in Seq(Layers) /\ current_tag' \in Tags /\ out \in Seq(Cells)
  BY <1>3, StateFacts DEF Inv, TypeOK
<1>6. c.object \in Objects
  BY SerialiserAssumption DEF SerialiserAssumption
<1> DEFINE f == Write(c.object)
           none == <<>>
           goal == After(f, Now')
<1>7. f \in Frames
  BY <1>6, WriteFrame
<1>8. goal = Writes(<<c.object>>, State(layers', out, current_tag'))
  BY <1>1, <1>4, AfterWrite
<1>9. PICK ls \in Seq(Layers) : ls = layers'
  BY <1>5
<1>10. Meant(ls)' = goal
  <2> HIDE DEF goal
  <2>1. Meant(ls)' = Writes(<<call'.case.object>>, State(ls, call'.out, call'.tag))
    BY DEF Meant
  <2> QED BY <2>1, <1>2, <1>8, <1>9
<1>11. Reaches(Now', frames', goal)
  <2>1. goal \in States
    BY <1>4, <1>7, AfterTyped
  <2>2. none \in Seq(Frames)
    OBVIOUS
  <2>3. <<f>> \o none = <<f>>
    <3> HIDE DEF f
    <3>1. <<f>> \in Seq(Frames)
      BY <1>7
    <3> QED BY <3>1, ConcatEmptySeq
  <2>4. Reaches(goal, none, goal)
    BY <2>1, ReachesItself
  <2> HIDE DEF none, f
  <2>5. Reaches(Now', <<f>> \o none, goal)
    BY <2>2, <2>4, <1>4, <1>7, ReachesOn
  <2>6. frames' = <<f>>
    BY <1>1 DEF f
  <2> HIDE DEF goal
  <2> QED BY <2>3, <2>5, <2>6
<1> HIDE DEF goal
<1>12. Len(ls) = call'.layers
  BY <1>2, <1>9
<1>13. OnCourse'
  BY <1>10, <1>11, <1>12 DEF OnCourse
<1>14. OutputIsWritten'
  BY <1>1 DEF OutputIsWritten
<1>15. call'.out \in Seq(Cells) /\ call'.tag \in Tags
  BY <1>2, <1>5
<1> QED BY <1>13, <1>14, <1>15 DEF OutputInv

LEMMA StutterOnCourse ==
  ASSUME OutputInv, UNCHANGED vars
  PROVE  OutputInv'
<1>1. /\ layers' = layers /\ out' = out /\ current_tag' = current_tag /\ frames' = frames
      /\ status' = status /\ outcome' = outcome /\ call' = call
  BY DEF vars
<1>2. OutputIsWritten'
  BY <1>1 DEF OutputInv, OutputIsWritten
<1>3. status' = "running" => OnCourse'
  BY <1>1 DEF OutputInv, OnCourse, Now, Meant
<1> QED BY <1>1, <1>2, <1>3 DEF OutputInv

LEMMA NextOnCourse ==
  ASSUME Inv, OutputInv, [Next]_vars
  PROVE  OutputInv'
<1>1. CASE Step
  <2>1. CASE WriteParts
    <3>1. Writing("optional") \/ Writing("object")
      BY <2>1 DEF WriteParts
    <3>2. /\ frames' = <<Fields(Top.object.of)>> \o Rest
          /\ UNCHANGED <<encoder, current_tag, status, outcome, history>>
      BY <2>1 DEF WriteParts
    <3>3. Inv'
      BY <2>1, WritePartsKeeps
    <3> QED BY <3>1, <3>2, <3>3, WritePartsOnCourse
  <2> QED BY <1>1, <2>1, WritePrimitiveOnCourse, WriteSequenceOnCourse, WriteImplicitOnCourse,
        WriteExplicitOnCourse, WriteTaggedAbsentOnCourse, WriteChoiceOnCourse,
        WriteTrailingOnCourse, NextFieldOnCourse, CloseSequenceOnCourse, CloseExplicitOnCourse,
        UnwindOnCourse, ReturnOnCourse DEF Step
<1>2. CASE \E c \in Cases, fresh \in BOOLEAN : Call(c, fresh)
  BY <1>2, CallOnCourse
<1>3. CASE UNCHANGED vars
  BY <1>3, StutterOnCourse
<1> QED BY <1>1, <1>2, <1>3 DEF Next, Stopped

\* A call that returns has written what it should, whatever the object, on a
\* serialiser in any state: what comes of the object under the tag that was
\* pending is behind what was on the stream, nothing else is, and no tag is
\* left pending but one that nothing written was to use.  With layers that an
\* earlier exception has left, nothing reaches the stream
\* (serialiser.hpp:48-101, asn_der_encoder.hpp:158-168).
THEOREM OutputIsAsMeant == Spec => []OutputIsWritten
<1>1. Init => Inv /\ OutputInv
  <2> SUFFICES ASSUME Init
               PROVE  Inv /\ OutputInv
    OBVIOUS
  <2>1. status = "idle" /\ outcome = "none" /\ call.out = <<>> /\ call.tag = NoTag
    BY DEF Init
  <2>2. call.out \in Seq(Cells) /\ call.tag \in Tags
    BY <2>1, TagFacts
  <2> QED BY <2>1, <2>2, InitInv DEF OutputInv, OutputIsWritten
<1>2. Inv /\ OutputInv /\ [Next]_vars => Inv' /\ OutputInv'
  BY NextInv, NextOnCourse
<1>3. OutputInv => OutputIsWritten
  BY DEF OutputInv
<1> QED BY <1>1, <1>2, <1>3, PTL DEF Spec
=============================================================================
