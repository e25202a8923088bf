---------------------------- MODULE Deserialiser ----------------------------
(***************************************************************************)
(* Decoding one message: the deserialiser, the DER decoder underneath and  *)
(* the C++ call stack between them.  What makes this hard is that errors   *)
(* are exceptions: an optional swallows one and goes on, a sequence closes *)
(* itself in its destructor while one passes, an explicit tag does not.    *)
(*                                                                         *)
(* A message is a sequence of cells (Der), and positions and lengths count *)
(* cells.  Values stay octets: what number they stand for is not looked at *)
(* here.                                                                   *)
(*                                                                         *)
(* The input is read as buffered_stream promises (PeekableStream): octets  *)
(* up to read_pos have been taken from the stream and are kept while a     *)
(* peek may go back to them, and a read that fails loses the rest.         *)
(***************************************************************************)
EXTENDS Integers, Sequences, Der

CONSTANTS
  Cases,         \* the inputs: what is read, and as what type
  Types,         \* the types there are, with all they are made of
  MaxStructure,  \* max_structure_size
  MaxItems       \* bound: how much of the decoded object is recorded

VARIABLES
  input,        \* the member of Cases being decoded
  cursor,       \* s_.pos()
  read_pos,     \* how far the stream underneath has been read
  limit,        \* where the stream ends, or what a failed read left of it
  seq_pos,      \* seq_pos_: where the open scopes end, innermost first
  current_tag,  \* current_tag_
  ex,           \* whether ex_ holds an exception
  frames,       \* what is left to run of every call, innermost first
  status,       \* running, throwing, done, failed or misaligned
  items,        \* the object built so far, flattened
  leaked        \* history: how many scopes exceptions have left behind

stream == <<cursor, read_pos, limit>>
vars == <<input, cursor, read_pos, limit, seq_pos, current_tag, ex, frames, status, items,
          leaked>>

Larger(a, b) == IF a > b THEN a ELSE b

-----------------------------------------------------------------------------

\* use_current_tag with the tag the type has of itself.
TagOr(default) == IF current_tag = NoTag THEN default ELSE current_tag

\* A choice reads an alternative as if it were tagged implicitly.
AsImplicit(alt) == [kind |-> "implicit", tag |-> alt.tag, of |-> alt.of]

\* What the members of T have to be, by its kind.
WellFormed(T) ==
  /\ T.kind \in {"primitive", "sequence"} => T.tag \in Tags
  /\ T.kind \in {"implicit", "explicit"} => T.tag \in Nat
  /\ T.kind \in {"implicit", "explicit", "optional", "container"} => T.of \in Types
  /\ T.kind \in {"sequence", "object"} => T.fields \in Seq(Types)
  /\ T.kind = "choice" => \A i \in 1 .. Len(T.alts) : AsImplicit(T.alts[i]) \in Types

ASSUME DeserialiserAssumption ==
  /\ MaxStructure \in Nat
  /\ MaxItems \in Nat
  /\ \A T \in Types : WellFormed(T)
  /\ \A c \in Cases : c.message \in Seq(Cells) /\ c.type \in Types

\* What a decoded object is recorded as.
Some == [is |-> "some"]
Absent == [is |-> "absent"]
Begin == [is |-> "begin"]
End == [is |-> "end"]
Value(octets) == [is |-> "value", octets |-> octets]
Chosen(n) == [is |-> "chosen", tag |-> n]

Items ==
  {Some, Absent, Begin, End}
  \cup [is : {"value"}, octets : Seq(Cells)]
  \cup [is : {"chosen"}, tag : Nat]

Noted(sofar, item) == IF Len(sofar) < MaxItems THEN Append(sofar, item) ELSE sofar
Record(item) == Noted(items, item)

\* Frames of the call stack.
Read(T) == [call |-> "read", type |-> T]
Fields(ts) == [call |-> "fields", types |-> ts]
Loop(T) == [call |-> "loop", type |-> T]
Amp == [call |-> "amp"]
StartExplicit(n, T) == [call |-> "start explicit", tag |-> n, type |-> T]

\* depth, a history: how many scopes calls were to close once this one was.
EndSequence(d) == [call |-> "end sequence", depth |-> d]
EndExplicit(d) == [call |-> "end explicit", depth |-> d]

\* The peek guard of an optional and its catch clause; sofar is the object
\* without the value that is tried, depth how many scopes were open.
EndOptional(pos, sofar, d) ==
  [call |-> "end optional", mark |-> pos, items |-> sofar, depth |-> d]

Frames ==
  [call : {"read", "loop"}, type : Types]
  \cup [call : {"fields"}, types : Seq(Types)]
  \cup [call : {"amp"}]
  \cup [call : {"start explicit"}, tag : Nat, type : Types]
  \cup [call : {"end sequence", "end explicit"}, depth : Nat]
  \cup [call : {"end optional"}, mark : Nat, items : Seq(Items), depth : Nat]

running == status = "running" /\ frames # <<>>
Top == Head(frames)
Rest == Tail(frames)

\* Reading a value of a type whose kind is k is what comes next.
Reading(k) == running /\ Top.call = "read" /\ Top.type.kind = k

Init ==
  /\ input \in Cases
  /\ cursor = 0
  /\ read_pos = 0
  /\ limit = Len(input.message)
  /\ seq_pos = <<>>
  /\ current_tag = NoTag
  /\ ex = FALSE
  /\ frames = <<Read(input.type), Amp>>
  /\ status = "running"
  /\ items = <<>>
  /\ leaked = 0

-----------------------------------------------------------------------------

\* The stream.
Take(c) ==
  /\ cursor' = c
  /\ read_pos' = Larger(read_pos, c)
  /\ UNCHANGED limit

\* A read from c that cannot be served.  What had been read before is still
\* buffered and is taken; the rest of the stream is gone.
Lose(c) ==
  /\ cursor' = Larger(read_pos, c)
  /\ read_pos' = Larger(read_pos, c)
  /\ limit' = Larger(read_pos, c)

Throw == status' = "throwing" /\ frames' = Rest

\* Mutant: the end is noticed only once it is behind.
is_end_of_sequence_late == seq_pos # <<>> /\ Head(seq_pos) < cursor

\* Mutant: only the very end is the end.
is_end_of_sequence_exact == seq_pos # <<>> /\ Head(seq_pos) = cursor

\* is_end_of_sequence
is_end_of_sequence == seq_pos # <<>> /\ Head(seq_pos) <= cursor

Cell == input.message[cursor + 1]

\* decode_header finds a header of at most max_structure_size.
HeaderHere == cursor < limit /\ Cell.is = "header" /\ Cell.len <= MaxStructure

\* decode_header(asn_class, tag) returns.
Matches(t) == ~is_end_of_sequence /\ HeaderHere /\ Cell.tag = t

\* decode_header(asn_class, tag) throws: before it reads anything at the end
\* of a scope, on a header too big or of another type after reading it, at
\* the end of the stream.  Octets of content taken for a header are not
\* followed any further.
HeaderFails(t) ==
  /\ ~Matches(t)
  /\ frames' = Rest
  /\ IF is_end_of_sequence \/ cursor = limit
     THEN status' = "throwing" /\ UNCHANGED stream
     ELSE /\ status' = IF Cell.is = "octet" THEN "misaligned" ELSE "throwing"
          /\ Take(cursor + 1)

Content(n) == SubSeq(input.message, cursor + 2, cursor + 1 + n)

\* decode_integer: an unsigned type refuses a first octet with the sign bit.
Refuses(T, octets) ==
  /\ ~T.signed
  /\ octets # <<>>
  /\ octets[1].is = "octet"
  /\ octets[1].val >= 128

\* decode of bool, integers, integer, string and octet_vector: T.lengths are
\* the lengths it lets through.
ReadPrimitive ==
  LET T == Top.type
      t == TagOr(T.tag)
      len == Cell.len
  IN
  /\ Reading("primitive")
  /\ current_tag' = NoTag
  /\ UNCHANGED <<input, leaked, seq_pos, ex>>
  /\ \/ HeaderFails(t) /\ UNCHANGED items
     \/ /\ Matches(t)
        /\ len \notin T.lengths
        /\ Take(cursor + 1)
        /\ Throw
        /\ UNCHANGED items
     \/ /\ Matches(t)
        /\ len \in T.lengths
        /\ cursor + 1 + len > limit
        /\ Lose(cursor + 1)
        /\ Throw
        /\ UNCHANGED items
     \/ /\ Matches(t)
        /\ len \in T.lengths
        /\ cursor + 1 + len <= limit
        /\ Take(cursor + 1 + len)
        /\ IF Refuses(T, Content(len))
           THEN Throw /\ UNCHANGED items
           ELSE /\ items' = Record(Value(Content(len)))
                /\ frames' = Rest
                /\ UNCHANGED status

\* How many scopes calls will close once there is one more.
Depth == Len(seq_pos) - leaked + 1

\* Mutant: the destructor closes the scope although it was never opened.
OpenScope_closed_anyway(t, inside) ==
  IF Matches(t) /\ Cell.constructed
  THEN /\ Take(cursor + 1)
       /\ seq_pos' = <<cursor + 1 + Cell.len>> \o seq_pos
       /\ frames' = inside \o Rest
       /\ UNCHANGED status
  ELSE /\ frames' = <<inside[Len(inside)]>> \o Rest
       /\ status' = "throwing"
       /\ UNCHANGED <<stream, seq_pos>>

\* start_sequence and start_explicit_tag of the decoder; inside is what the
\* caller goes on with.
OpenScope(t, inside) ==
  \/ /\ Matches(t)
     /\ Cell.constructed
     /\ Take(cursor + 1)
     /\ seq_pos' = <<cursor + 1 + Cell.len>> \o seq_pos
     /\ frames' = inside \o Rest
     /\ UNCHANGED status
  \/ /\ Matches(t)
     /\ ~Cell.constructed
     /\ Take(cursor + 1)
     /\ Throw
     /\ UNCHANGED seq_pos
  \/ HeaderFails(t) /\ UNCHANGED seq_pos

\* sequence::sequence, then what serialise reads, then ~sequence.
ReadSequence ==
  /\ Reading("sequence")
  /\ current_tag' = NoTag
  /\ OpenScope(TagOr(Top.type.tag), <<Fields(Top.type.fields), EndSequence(Depth)>>)
  /\ UNCHANGED <<input, leaked, ex, items>>

\* container_serialise of vector, deque, set and map.
ReadContainer ==
  /\ Reading("container")
  /\ current_tag' = NoTag
  /\ OpenScope(TagOr(SequenceTag), <<Loop(Top.type.of), EndSequence(Depth)>>)
  /\ items' = Record(Begin)
  /\ UNCHANGED <<input, leaked, ex>>

\* A serialise member function that opens no sequence.
ReadObject ==
  /\ Reading("object")
  /\ frames' = <<Fields(Top.type.fields)>> \o Rest
  /\ UNCHANGED <<input, leaked, stream, seq_pos, current_tag, ex, status, items>>

\* handle_tag of an implicit tag.
ReadImplicit ==
  /\ Reading("implicit")
  /\ current_tag' = Context(Top.type.tag)
  /\ frames' = <<Read(Top.type.of), Amp>> \o Rest
  /\ UNCHANGED <<input, leaked, stream, seq_pos, ex, status, items>>

\* handle_tag of an explicit tag.
ReadExplicit ==
  /\ Reading("explicit")
  /\ Top.type.of.kind # "optional"
  /\ frames' = <<StartExplicit(Top.type.tag, Top.type.of)>> \o Rest
  /\ UNCHANGED <<input, leaked, stream, seq_pos, current_tag, ex, status, items>>

Guard == EndOptional(cursor, items, Len(seq_pos))

\* handle of an optional: the peek guard is built.
ReadOptional ==
  /\ Reading("optional")
  /\ frames' = <<Read(Top.type.of), Amp, Guard>> \o Rest
  /\ items' = Record(Some)
  /\ UNCHANGED <<input, leaked, stream, seq_pos, current_tag, ex, status>>

\* handle of an optional with an explicit tag: the guard is built first.
ReadExplicitOptional ==
  /\ Reading("explicit")
  /\ Top.type.of.kind = "optional"
  /\ frames' = <<StartExplicit(Top.type.tag, Top.type.of.of), Guard>> \o Rest
  /\ items' = Record(Some)
  /\ UNCHANGED <<input, leaked, stream, seq_pos, current_tag, ex, status>>

OpenExplicit ==
  /\ running
  /\ Top.call = "start explicit"
  /\ OpenScope(Context(Top.tag), <<Read(Top.type), Amp, EndExplicit(Depth)>>)
  /\ UNCHANGED <<input, leaked, current_tag, ex, items>>

\* decode of trailing_data: all there is up to the end of the scope.
ReadTrailing ==
  LET n == Head(seq_pos) - cursor IN
  /\ Reading("trailing")
  /\ seq_pos # <<>>
  /\ UNCHANGED <<input, leaked, seq_pos, current_tag, ex>>
  /\ \/ /\ n > 0
        /\ cursor + n > limit
        /\ Lose(cursor)
        /\ Throw
        /\ UNCHANGED items
     \/ /\ n <= 0 \/ cursor + n <= limit
        /\ Take(Larger(cursor, Head(seq_pos)))
        /\ items' = Record(Value(SubSeq(input.message, cursor + 1, cursor + n)))
        /\ frames' = Rest
        /\ UNCHANGED status

\* The alternatives of a choice whose tag has the number peeked at; its class
\* is not looked at.
Alternatives(T) == { i \in 1 .. Len(T.alts) : HeaderHere /\ T.alts[i].tag = Cell.tag.tag }

\* choice_impl::deserialise: next_tag peeks at the header, visit goes on as
\* if the first alternative that has its number were tagged implicitly.
ReadChoice ==
  LET T == Top.type IN
  /\ Reading("choice")
  /\ UNCHANGED <<input, leaked, seq_pos, current_tag, ex, cursor, limit>>
  /\ \/ /\ Alternatives(T) = {}
        /\ read_pos' = IF cursor = limit THEN read_pos ELSE Larger(read_pos, cursor + 1)
        /\ frames' = Rest
        /\ status' = IF cursor < limit /\ Cell.is = "octet" THEN "misaligned" ELSE "throwing"
        /\ UNCHANGED items
     \/ /\ \E i \in Alternatives(T) :
             /\ \A j \in Alternatives(T) : i <= j
             /\ frames' = <<Read(AsImplicit(T.alts[i])), Amp>> \o Rest
             /\ items' = Record(Chosen(T.alts[i].tag))
        /\ read_pos' = Larger(read_pos, cursor + 1)
        /\ UNCHANGED status

-----------------------------------------------------------------------------

\* The next operand of s & a & b.
NextField ==
  /\ running
  /\ Top.call = "fields"
  /\ frames' = (IF Top.types = <<>> THEN <<>>
                ELSE <<Read(Head(Top.types)), Amp, Fields(Tail(Top.types))>>) \o Rest
  /\ UNCHANGED <<input, leaked, stream, seq_pos, current_tag, ex, status, items>>

\* The loop of container_serialise.
NextElement ==
  /\ running
  /\ Top.call = "loop"
  /\ IF is_end_of_sequence
     THEN frames' = Rest /\ items' = Record(End)
     ELSE frames' = <<Read(Top.type), Amp>> \o frames /\ UNCHANGED items
  /\ UNCHANGED <<input, leaked, stream, seq_pos, current_tag, ex, status>>

\* operator& looks for an exception a destructor has left behind.
Ampersand ==
  /\ running
  /\ Top.call = "amp"
  /\ frames' = Rest
  /\ ex' = FALSE
  /\ status' = IF ex THEN "throwing" ELSE "running"
  /\ UNCHANGED <<input, leaked, stream, seq_pos, current_tag, items>>

\* Mutant: the position moves to the end of the scope unread.
Pop_unread ==
  /\ seq_pos # <<>>
  /\ seq_pos' = Tail(seq_pos)
  /\ Take(Larger(cursor, Head(seq_pos)))

\* Mutant: the rest of the scope is not skipped.
Pop_stays ==
  /\ seq_pos # <<>>
  /\ seq_pos' = Tail(seq_pos)
  /\ UNCHANGED stream

\* pop: forget the innermost scope and skip what is left of it, octet by
\* octet, as far as the stream goes.
Pop ==
  /\ seq_pos # <<>>
  /\ seq_pos' = Tail(seq_pos)
  /\ IF Head(seq_pos) > limit THEN Take(limit) ELSE Take(Larger(cursor, Head(seq_pos)))

\* pop reads past the end of the stream.
PopFails == Head(seq_pos) > limit

\* Mutant: what pop throws is lost.
CloseSequence_silent ==
  /\ status \in {"running", "throwing"}
  /\ frames # <<>>
  /\ Top.call = "end sequence"
  /\ Pop
  /\ frames' = Rest
  /\ UNCHANGED <<input, leaked, current_tag, status, ex, items>>

\* Mutant: the scope is left open when an exception passes.
CloseSequence_on_return ==
  /\ status \in {"running", "throwing"}
  /\ frames # <<>>
  /\ Top.call = "end sequence"
  /\ IF status = "running"
     THEN Pop /\ ex' = (ex \/ PopFails)
     ELSE UNCHANGED <<stream, seq_pos, ex>>
  /\ frames' = Rest
  /\ UNCHANGED <<input, leaked, current_tag, status, items>>

\* ~sequence, reached normally or by an exception: end_sequence keeps what
\* pop throws in ex_.
CloseSequence ==
  /\ status \in {"running", "throwing"}
  /\ frames # <<>>
  /\ Top.call = "end sequence"
  /\ Pop
  /\ ex' = (ex \/ PopFails)
  /\ frames' = Rest
  /\ UNCHANGED <<input, leaked, current_tag, status, items>>

\* end_explicit_tag is a call like any other.
CloseExplicit ==
  /\ running
  /\ Top.call = "end explicit"
  /\ Pop
  /\ frames' = Rest
  /\ status' = IF PopFails THEN "throwing" ELSE "running"
  /\ UNCHANGED <<input, leaked, current_tag, ex, items>>

\* The guard of an optional that was there commits.
KeepOptional ==
  /\ running
  /\ Top.call = "end optional"
  /\ frames' = Rest
  /\ UNCHANGED <<input, leaked, stream, seq_pos, current_tag, ex, status, items>>

\* Mutant: the position is not put back.
CatchOptional_commits ==
  /\ status = "throwing"
  /\ frames # <<>>
  /\ Top.call = "end optional"
  /\ items' = Noted(Top.items, Absent)
  /\ frames' = Rest
  /\ status' = "running"
  /\ UNCHANGED <<input, leaked, stream, seq_pos, current_tag, ex>>

\* The guard of an optional puts the position back when an exception passes,
\* and handle swallows the exception.
CatchOptional ==
  /\ status = "throwing"
  /\ frames # <<>>
  /\ Top.call = "end optional"
  /\ cursor' = Top.mark
  /\ items' = Noted(Top.items, Absent)
  /\ frames' = Rest
  /\ status' = "running"
  /\ UNCHANGED <<input, leaked, read_pos, limit, seq_pos, current_tag, ex>>

\* Every other call an exception passes just ends: the scope of an explicit
\* tag stays open.
Unwind ==
  /\ status = "throwing"
  /\ frames # <<>>
  /\ Top.call \notin {"end sequence", "end optional"}
  /\ frames' = Rest
  /\ leaked' = IF Top.call = "end explicit" THEN leaked + 1 ELSE leaked
  /\ UNCHANGED <<input, stream, seq_pos, current_tag, ex, status, items>>

\* The outermost operator& is done.
Return ==
  /\ frames = <<>>
  /\ \/ status = "running" /\ status' = "done"
     \/ status = "throwing" /\ status' = "failed"
  /\ UNCHANGED <<input, leaked, stream, seq_pos, current_tag, ex, frames, items>>

Step ==
  \/ ReadPrimitive \/ ReadSequence \/ ReadContainer \/ ReadObject
  \/ ReadImplicit \/ ReadExplicit \/ ReadOptional \/ ReadExplicitOptional
  \/ OpenExplicit \/ ReadTrailing \/ ReadChoice
  \/ NextField \/ NextElement \/ Ampersand
  \/ CloseSequence \/ CloseExplicit
  \/ KeepOptional \/ CatchOptional \/ Unwind \/ Return

Stopped == status \in {"done", "failed", "misaligned"} /\ UNCHANGED vars

Next == Step \/ Stopped

\* One thread runs the decoder until it returns or throws.
Spec == Init /\ [][Next]_vars /\ WF_vars(Step)

-----------------------------------------------------------------------------

Statuses == {"running", "throwing", "done", "failed", "misaligned"}

StreamOK ==
  /\ cursor \in Nat /\ read_pos \in Nat /\ limit \in Nat
  /\ cursor <= read_pos
  /\ read_pos <= limit
  /\ limit <= Len(input.message)

\* A guard puts the position back to where something has been read before.
MarksBehind ==
  \A i \in 1 .. Len(frames) :
    frames[i].call = "end optional" => frames[i].mark <= read_pos

TypeOK ==
  /\ input \in Cases
  /\ StreamOK
  /\ seq_pos \in Seq(Nat)
  /\ frames \in Seq(Frames)
  /\ MarksBehind
  /\ current_tag \in Tags
  /\ ex \in BOOLEAN
  /\ status \in Statuses
  /\ items \in Seq(Items)
  /\ leaked \in Nat

\* Every call that will still close a scope finds it open, however many
\* exceptions pass and are swallowed before: the assert of pop never fails
\* (asn_der_decoder.hpp:179).  In the end nothing else is open but the scopes
\* of explicit tags an exception has passed.
ScopesOpen ==
  /\ \A i \in 1 .. Len(frames) :
       frames[i].call \in Closers =>
         /\ frames[i].depth \in 1 .. Len(seq_pos)
         /\ \A j \in 1 .. Len(frames) :
              i < j /\ frames[j].call \in Closers => frames[j].depth < frames[i].depth
  /\ frames = <<>> => Len(seq_pos) = leaked

\* No header is ever read out of the middle of a value, whatever type the
\* input is read as and however much of its end it lacks: the position the
\* guards put back and the scopes skip to is always between two values
\* (decoder.hpp:48-50, asn_der_decoder.hpp:178-184).
HeadersAligned == Nested(input.message) => status # "misaligned"

\* The outermost value announces more than there is.
Overruns(m) == m # <<>> /\ m[1].is = "header" /\ 1 + m[1].len > Len(m)

\* A sequence that is cut short is never taken for a whole one, whatever the
\* optionals in it swallow: what its destructor cannot skip is thrown in the
\* end (deserialiser.hpp:108-114, asn_der_decoder.hpp:178-184).  Where a scope
\* was left behind, it is closed in place of one around it.
OverrunReported ==
  input.type.kind \in {"sequence", "container"} /\ Overruns(input.message) /\ leaked = 0
    => status # "done"

\* An optional that was not there leaves nothing behind: the position is what
\* it was before it was tried, no scope it opened is still open, and no tag
\* meant for it waits for the next value (deserialiser.hpp:79-94).
OptionalLeavesNoTrace ==
  [][input.kind \in {"own", "extended"} /\ CatchOptional
       => /\ cursor' = Top.mark
          /\ Len(seq_pos') = Top.depth
          /\ current_tag' = NoTag]_vars

\* What was written is read back, every part of it and nothing else.
RoundTrip ==
  input.kind = "own" => /\ status = "done" => items = input.expected
                        /\ status # "failed"

\* A message of a newer type, that has fields behind those the reader knows,
\* is read as far as the reader knows it (asn_der_decoder.hpp:178-184: pop
\* skips what is left of a scope).
ExtensionsSkipped ==
  input.kind = "extended" => /\ status = "done" => items = input.expected
                             /\ status # "failed"

\* A sequence whose octets are cut short is never taken for a whole one, even
\* where every value missing is optional (deserialiser.hpp:108-114,
\* helpers.hpp:42-48: the destructor's exception reaches the caller).
TruncationReported == input.kind = "truncated" => status # "done"
=============================================================================
