----------------------------- MODULE Serialiser -----------------------------
(***************************************************************************)
(* Encoding: the serialiser, the DER encoder underneath and the C++ call   *)
(* stack between them.  A sequence is collected in a layer, because its    *)
(* length comes first, and passed on when it closes; an exception closes   *)
(* the sequences it passes, but not the explicit tags, and a stream that   *)
(* fails makes closing one throw in turn.                                  *)
(*                                                                         *)
(* An object is what its serialise member will do: a tree of the calls it  *)
(* makes.  A serialiser is used for one call after the other, as in        *)
(* s & a; s & b, or built anew for each, as asn_der_serialise does.        *)
(***************************************************************************)
EXTENDS Integers, Sequences, Der

CONSTANTS
  Objects,      \* everything that is written, with all it is made of
  Cases,        \* what calls are made with, each with its object
  MaxCalls,     \* bound: how many calls are made
  MaxFailures   \* bound: how often the stream fails

VARIABLES
  layers,       \* layers_: the open sequences and explicit tags, innermost first
  out,          \* what the stream has taken
  current_tag,  \* current_tag_
  frames,       \* what is left to run of every call, innermost first
  status,       \* idle, running, throwing or terminated
  outcome,      \* how the last call came out
  failures,     \* history: how often the stream has failed
  leaked,       \* history: how many layers exceptions have left behind
  calls,        \* history: how many calls have been made
  call          \* history: the last one, and what there was before it

encoder == <<layers, out, failures>>
history == <<leaked, calls, call>>
vars == <<layers, out, current_tag, frames, status, outcome, failures, leaked, calls, call>>

\* What the members of o have to be, by its kind.  An object with a choice is
\* written under the tag of its alternative; encodes says whether a value can
\* be encoded at all (a subnormal real cannot).
WellFormed(o) ==
  /\ o.kind \in {"primitive", "sequence", "object", "optional", "choice",
                 "implicit", "explicit", "trailing"}
  /\ o.kind \in {"primitive", "sequence"} => o.tag \in Tags
  /\ o.kind = "primitive" => o.octets \in Seq(0 .. 255) /\ o.encodes \in BOOLEAN
  /\ o.kind \in {"implicit", "explicit"} => o.tag \in Nat /\ o.of \in Objects
  /\ o.kind \in {"sequence", "object", "optional", "choice"} => o.of \in Seq(Objects)
  /\ o.kind = "trailing" => o.cells \in Seq(Cells)

ASSUME SerialiserAssumption ==
  /\ MaxCalls \in Nat
  /\ MaxFailures \in Nat
  /\ Cases # {}
  /\ \A o \in Objects : WellFormed(o)
  /\ \A c \in Cases : c.object \in Objects

\* use_current_tag with the tag the type has of itself.
TagOr(default) == IF current_tag = NoTag THEN default ELSE current_tag

\* A layer of the encoder: seq_struct.
Layer(t) == [tag |-> t, data |-> <<>>]
Layers == [tag : Tags, data : Seq(Cells)]

\* Frames of the call stack.
Write(o) == [call |-> "write", object |-> o]
Fields(os) == [call |-> "fields", objects |-> os]

\* depth, a history: how many layers calls were to close once this one was.
EndSequence(d) == [call |-> "end sequence", depth |-> d]
EndExplicit(d) == [call |-> "end explicit", depth |-> d]

Frames ==
  [call : {"write"}, object : Objects]
  \cup [call : {"fields"}, objects : Seq(Objects)]
  \cup [call : {"end sequence", "end explicit"}, depth : Nat]

running == status = "running" /\ frames # <<>>
Top == Head(frames)
Rest == Tail(frames)

\* Writing an object of kind k is what comes next.
Writing(k) == running /\ Top.call = "write" /\ Top.object.kind = k

Init ==
  /\ layers = <<>>
  /\ out = <<>>
  /\ current_tag = NoTag
  /\ frames = <<>>
  /\ status = "idle"
  /\ outcome = "none"
  /\ failures = 0
  /\ leaked = 0
  /\ calls = 0
  /\ call = [case |-> CHOOSE c \in Cases : TRUE,
             out |-> <<>>, layers |-> 0, tag |-> NoTag, failures |-> 0]

-----------------------------------------------------------------------------

Throw == status' = "throwing" /\ frames' = Rest

\* write: cells go to the innermost of the layers ls, or to the stream.
Sends(cells, ls) ==
  /\ UNCHANGED failures
  /\ \/ /\ ls # <<>>
        /\ layers' = <<[Head(ls) EXCEPT !.data = @ \o cells]>> \o Tail(ls)
        /\ UNCHANGED out
     \/ /\ ls = <<>>
        /\ layers' = <<>>
        /\ out' = out \o cells

\* What the stream may have taken of cells when it fails.
Partly(cells) ==
  { SubSeq(cells, 1, n) : n \in 0 .. Len(cells) - 1 } \cup
  { Append(SubSeq(cells, 1, n - 1), Stub) :
      n \in { k \in 1 .. Len(cells) : cells[k].is = "header" } }

\* write throws, because the stream does not take what it is given.
SendFails(cells, ls) ==
  /\ ls = <<>>
  /\ layers' = <<>>
  /\ failures < MaxFailures
  /\ failures' = failures + 1
  /\ \E part \in Partly(cells) : out' = out \o part

\* asn_der_serialise with a serialiser of its own, or operator& of one there is.
Call(c, fresh) ==
  /\ status = "idle"
  /\ calls < MaxCalls
  /\ calls' = calls + 1
  /\ status' = "running"
  /\ frames' = <<Write(c.object)>>
  /\ layers' = IF fresh THEN <<>> ELSE layers
  /\ current_tag' = IF fresh THEN NoTag ELSE current_tag
  /\ leaked' = IF fresh THEN 0 ELSE leaked
  /\ call' = [case |-> c, out |-> out, layers |-> Len(layers'), tag |-> current_tag',
              failures |-> failures]
  /\ UNCHANGED <<out, outcome, failures>>

\* Mutant: the header is written before the value is looked at.
WritePrimitive_header_first ==
  LET o == Top.object
      cells == Wrapped(TagOr(o.tag), FALSE, Octets(o.octets))
  IN
  /\ Writing("primitive")
  /\ current_tag' = NoTag
  /\ UNCHANGED <<outcome, history>>
  /\ \/ ~o.encodes /\ Sends(<<Head(cells)>>, layers) /\ Throw
     \/ o.encodes /\ Sends(cells, layers) /\ frames' = Rest /\ UNCHANGED status
     \/ o.encodes /\ SendFails(cells, layers) /\ Throw

\* encode of bool, integers, reals, times, strings and octet_vector.
WritePrimitive ==
  LET o == Top.object
      cells == Wrapped(TagOr(o.tag), FALSE, Octets(o.octets))
  IN
  /\ Writing("primitive")
  /\ current_tag' = NoTag
  /\ UNCHANGED <<outcome, history>>
  /\ \/ ~o.encodes /\ Throw /\ UNCHANGED encoder
     \/ o.encodes /\ Sends(cells, layers) /\ frames' = Rest /\ UNCHANGED status
     \/ o.encodes /\ SendFails(cells, layers) /\ Throw

\* push: inside is what the caller goes on with.
Open(t, inside) ==
  /\ layers' = <<Layer(t)>> \o layers
  /\ frames' = inside \o Rest
  /\ UNCHANGED <<out, failures, status, outcome, history>>

Depth == Len(layers) - leaked + 1

\* sequence::sequence, also that of a container, and what is written in it.
WriteSequence ==
  /\ Writing("sequence")
  /\ current_tag' = NoTag
  /\ Open(TagOr(Top.object.tag), <<Fields(Top.object.of), EndSequence(Depth)>>)

\* An optional that is not there is not written, and neither is its tag.
Absent(o) == o.kind = "optional" /\ o.of = <<>>

\* handle_tag of an implicit tag.
WriteImplicit ==
  /\ Writing("implicit")
  /\ ~Absent(Top.object.of)
  /\ current_tag' = Context(Top.object.tag)
  /\ frames' = <<Write(Top.object.of)>> \o Rest
  /\ UNCHANGED <<encoder, status, outcome, history>>

\* handle_tag of an explicit tag.
WriteExplicit ==
  /\ Writing("explicit")
  /\ ~Absent(Top.object.of)
  /\ Open(Context(Top.object.tag), <<Write(Top.object.of), EndExplicit(Depth)>>)
  /\ UNCHANGED current_tag

\* Mutant: the tag of an optional is opened, as the deserialiser does it,
\* before it is known whether there is something in it.
WriteTaggedAbsent_opens ==
  /\ Writing("implicit") \/ Writing("explicit")
  /\ Absent(Top.object.of)
  /\ frames' = Rest
  /\ layers' = <<Layer(Context(Top.object.tag))>> \o layers
  /\ UNCHANGED <<out, failures, current_tag, status, outcome, history>>

\* Mutant: the implicit tag of an optional is kept, as the deserialiser does
\* it, before it is known whether there is something in it.
WriteTaggedAbsent_keeps ==
  /\ Writing("implicit") \/ Writing("explicit")
  /\ Absent(Top.object.of)
  /\ frames' = Rest
  /\ current_tag' = Context(Top.object.tag)
  /\ UNCHANGED <<encoder, status, outcome, history>>

\* handle of an object_with_tag whose optional is not there.
WriteTaggedAbsent ==
  /\ Writing("implicit") \/ Writing("explicit")
  /\ Absent(Top.object.of)
  /\ frames' = Rest
  /\ UNCHANGED <<encoder, current_tag, status, outcome, history>>

\* An optional, or a serialise member that opens no sequence.
WriteParts ==
  /\ Writing("optional") \/ Writing("object")
  /\ frames' = <<Fields(Top.object.of)>> \o Rest
  /\ UNCHANGED <<encoder, current_tag, status, outcome, history>>

\* choice_impl::serialise: the alternative that has the type of the value,
\* or an exception.
WriteChoice ==
  /\ Writing("choice")
  /\ IF Top.object.of = <<>>
     THEN Throw
     ELSE frames' = <<Fields(Top.object.of)>> \o Rest /\ UNCHANGED status
  /\ UNCHANGED <<encoder, current_tag, outcome, history>>

\* encode of trailing_data: as it is, whatever tag is pending.
WriteTrailing ==
  /\ Writing("trailing")
  /\ UNCHANGED <<current_tag, outcome, history>>
  /\ \/ Sends(Top.object.cells, layers) /\ frames' = Rest /\ UNCHANGED status
     \/ SendFails(Top.object.cells, layers) /\ Throw

\* The next operand of s & a & b, the next element of a container.
NextField ==
  /\ running
  /\ Top.call = "fields"
  /\ frames' = (IF Top.objects = <<>> THEN <<>>
                ELSE <<Write(Head(Top.objects)), Fields(Tail(Top.objects))>>) \o Rest
  /\ UNCHANGED <<encoder, current_tag, status, outcome, history>>

\* A finished layer as it is passed on.
Finished(l) == Wrapped(l.tag, TRUE, l.data)

\* Mutant: the destructor keeps the exception to itself, as the
\* deserialiser's does.
CloseSequence_quiet ==
  /\ status \in {"running", "throwing"}
  /\ frames # <<>>
  /\ Top.call = "end sequence"
  /\ layers # <<>>
  /\ \/ Sends(Finished(Head(layers)), Tail(layers))
     \/ SendFails(Finished(Head(layers)), Tail(layers))
  /\ frames' = Rest
  /\ UNCHANGED <<current_tag, status, outcome, history>>

\* ~sequence, reached normally or by an exception: an exception out of it
\* ends the program.
CloseSequence ==
  /\ status \in {"running", "throwing"}
  /\ frames # <<>>
  /\ Top.call = "end sequence"
  /\ layers # <<>>
  /\ \/ Sends(Finished(Head(layers)), Tail(layers)) /\ frames' = Rest /\ UNCHANGED status
     \/ /\ SendFails(Finished(Head(layers)), Tail(layers))
        /\ frames' = <<>>
        /\ status' = "terminated"
  /\ UNCHANGED <<current_tag, outcome, history>>

\* end_explicit_tag is a call like any other.
CloseExplicit ==
  /\ running
  /\ Top.call = "end explicit"
  /\ layers # <<>>
  /\ \/ Sends(Finished(Head(layers)), Tail(layers)) /\ frames' = Rest /\ UNCHANGED status
     \/ SendFails(Finished(Head(layers)), Tail(layers)) /\ Throw
  /\ UNCHANGED <<current_tag, outcome, history>>

\* Mutant: an exception makes the encoder start over.
Unwind_resets ==
  /\ status = "throwing"
  /\ frames # <<>>
  /\ Top.call # "end sequence"
  /\ frames' = Rest
  /\ layers' = <<>>
  /\ UNCHANGED <<out, failures, current_tag, status, outcome, history>>

\* Every other call an exception passes just ends: the layer of an explicit
\* tag stays.
Unwind ==
  /\ status = "throwing"
  /\ frames # <<>>
  /\ Top.call # "end sequence"
  /\ frames' = Rest
  /\ leaked' = IF Top.call = "end explicit" THEN leaked + 1 ELSE leaked
  /\ UNCHANGED <<encoder, current_tag, status, outcome, calls, call>>

\* The call is over.
Return ==
  /\ frames = <<>>
  /\ status \in {"running", "throwing"}
  /\ status' = "idle"
  /\ outcome' = IF status = "running" THEN "ok" ELSE "thrown"
  /\ UNCHANGED <<encoder, current_tag, frames, history>>

Step ==
  \/ WritePrimitive \/ WriteSequence \/ WriteImplicit \/ WriteExplicit
  \/ WriteTaggedAbsent \/ WriteParts \/ WriteChoice \/ WriteTrailing
  \/ NextField \/ CloseSequence \/ CloseExplicit \/ Unwind \/ Return

\* The program has ended, or makes no more calls.
Stopped ==
  /\ status = "terminated" \/ (status = "idle" /\ calls = MaxCalls)
  /\ UNCHANGED vars

Next ==
  \/ Step
  \/ \E c \in Cases, fresh \in BOOLEAN : Call(c, fresh)
  \/ Stopped

Spec == Init /\ [][Next]_vars

-----------------------------------------------------------------------------

Statuses == {"idle", "running", "throwing", "terminated"}

TypeOK ==
  /\ layers \in Seq(Layers)
  /\ out \in Seq(Cells)
  /\ current_tag \in Tags
  /\ frames \in Seq(Frames)
  /\ status \in Statuses
  /\ outcome \in {"none", "ok", "thrown"}
  /\ failures \in Nat
  /\ leaked \in Nat
  /\ calls \in Nat
  /\ call.case \in Cases /\ call.failures \in Nat /\ call.failures <= failures

\* Every call that will still close a layer finds it there, however many
\* explicit tags an exception has passed: the assert of pop never fails
\* (asn_der_encoder.hpp:175).
LayersOpen ==
  \A i \in 1 .. Len(frames) :
    frames[i].call \in Closers =>
      /\ frames[i].depth \in 1 .. Len(layers)
      /\ \A j \in 1 .. Len(frames) :
           i < j /\ frames[j].call \in Closers => frames[j].depth < frames[i].depth

\* Between calls the only layers are those of explicit tags an exception has
\* passed: without exceptions everything written has reached the stream
\* (asn_der_encoder.hpp:84-103).
NothingHeldBack == status = "idle" => Len(layers) = leaked

\* A stream that fails is never taken for one that took everything: the
\* caller gets the exception, or the program ends (asn_der_encoder.hpp:160).
FailureReported ==
  failures > call.failures =>
    \/ status \in {"throwing", "terminated"}
    \/ status = "idle" /\ outcome = "thrown"

\* What is written as it is are values (what an earlier reader kept).
TrailingWhole == \A o \in Objects : o.kind = "trailing" => Whole(o.cells)

\* As long as the stream takes what it is given, what is on it are whole
\* values whose headers say how long they are, also when exceptions have cut
\* sequences short or left layers behind (asn_der_encoder.hpp:84-91).
OutputWhole == failures = 0 => Whole(out)
=============================================================================
