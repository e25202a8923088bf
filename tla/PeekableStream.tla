--------------------------- MODULE PeekableStream ---------------------------
(***************************************************************************)
(* What a buffered_stream promises its only user, the DER decoder: a       *)
(* cursor over the octets of one message that can be marked, moved forward *)
(* and put back, marks nesting like the guards that own them.  A reader    *)
(* never sees where an octet is kept.                                      *)
(***************************************************************************)
EXTENDS Integers, Sequences

CONSTANTS
  Data,      \* the octets of the message, a sequence
  MaxRead    \* bound: the longest read or look-ahead asked for

VARIABLES
  cursor,    \* how many octets of the message lie behind the reader
  end,       \* how far the reader can still get
  marks,     \* positions of the outstanding peeks, innermost last
  void,      \* the contract no longer binds, see Void
  result     \* what the last call did, as the reader sees it

vars == <<cursor, end, marks, void, result>>

None == [outcome |-> "none", octets |-> <<>>]
Ok(octets) == [outcome |-> "ok", octets |-> octets]
EndOfStream == [outcome |-> "end of stream", octets |-> <<>>]

Ended(keep) == [outcome |-> IF keep THEN "kept" ELSE "put back", octets |-> <<>>]

Init ==
  /\ cursor = 0
  /\ end = Len(Data)
  /\ marks = <<>>
  /\ void = FALSE
  /\ result = None

\* A read that can be served returns exactly the next n octets.
Read(n) ==
  /\ ~void
  /\ cursor + n <= end
  /\ cursor' = cursor + n
  /\ result' = Ok(SubSeq(Data, cursor + 1, cursor + n))
  /\ UNCHANGED <<end, marks, void>>

\* A read that cannot be served reports it.  It may lose octets ahead of
\* the reader, never one that was already passed.
ReadPastEnd(n) ==
  /\ ~void
  /\ cursor + n > end
  /\ end' \in cursor .. end
  /\ cursor' = end'
  /\ result' = EndOfStream
  /\ UNCHANGED <<marks, void>>

\* Asking whether n octets are there moves nothing.
Require(n) ==
  /\ ~void
  /\ cursor + n <= end
  /\ result' = Ok(<<>>)
  /\ UNCHANGED <<cursor, end, marks, void>>

Mark ==
  /\ ~void
  /\ marks' = Append(marks, cursor)
  /\ result' = None
  /\ UNCHANGED <<cursor, end, void>>

\* Dropping the innermost mark keeps the position or returns to the mark.
Unmark(keep) ==
  /\ ~void
  /\ marks # <<>>
  /\ cursor' = IF keep THEN cursor ELSE marks[Len(marks)]
  /\ marks' = SubSeq(marks, 1, Len(marks) - 1)
  /\ result' = Ended(keep)
  /\ UNCHANGED <<end, void>>

\* Asking for more octets than there are voids the contract: the caller is
\* told, and has to build a new stream.
RequirePastEnd(n) ==
  /\ ~void
  /\ cursor + n > end
  /\ result' = EndOfStream
  /\ void'

\* Nothing is promised after that.
Void == void /\ void'

Next ==
  \/ \E n \in 0 .. MaxRead :
       Read(n) \/ ReadPastEnd(n) \/ Require(n) \/ RequirePastEnd(n)
  \/ Mark
  \/ \E keep \in BOOLEAN : Unmark(keep)
  \/ Void

Spec == Init /\ [][Next]_vars
=============================================================================
