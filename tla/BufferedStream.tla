--------------------------- MODULE BufferedStream ---------------------------
(***************************************************************************)
(* buffered_stream<octet_span_istream>: the decoder's view of its input.   *)
(* It reads straight from the stream until somebody peeks; what is read    *)
(* under a peek, or looked ahead for by readable_bytes, is kept in buffer  *)
(* so that the position can be put back.  The stream underneath is         *)
(* octet_span_istream, which moves to its end when a read fails.           *)
(***************************************************************************)
EXTENDS Integers, Sequences

CONSTANTS
  Data,      \* the octets of the message
  Zero,      \* the octet vector::resize fills with
  MaxRead,   \* bound: the longest read or look-ahead
  MaxPeeks   \* bound: how deep peeks nest

ASSUME BufferedStreamAssumption ==
  /\ Data \in Seq(Nat)
  /\ Zero \in Nat
  /\ MaxRead \in Nat
  /\ MaxPeeks \in Nat

VARIABLES
  read_pos,        \* octet_span_istream::read_pos_
  buffer,          \* buffer_
  look_ahead_pos,  \* look_ahead_pos_
  real_pos,        \* real_pos_
  guards,          \* positions saved by the live peek guards, innermost last
  failed,          \* history: a readable_bytes call has thrown
  result           \* history: what the last call did, as the decoder sees it

vars == <<read_pos, buffer, look_ahead_pos, real_pos, guards, failed, result>>

None == [outcome |-> "none", octets |-> <<>>]
Ok(octets) == [outcome |-> "ok", octets |-> octets]
EndOfStream == [outcome |-> "end of stream", octets |-> <<>>]

Ended(keep) == [outcome |-> IF keep THEN "kept" ELSE "put back", octets |-> <<>>]

Init ==
  /\ read_pos = 0
  /\ buffer = <<>>
  /\ look_ahead_pos = 0
  /\ real_pos = 0
  /\ guards = <<>>
  /\ failed = FALSE
  /\ result = None

\* peek_count_ counts the guards that are alive.
is_peeking == guards # <<>>

pos == real_pos + look_ahead_pos

\* Octets in the buffer ahead of the reader.
Unread == Len(buffer) - look_ahead_pos

\* How many of s octets the buffer can serve.
FromBuffer(s) == IF s <= Unread THEN s ELSE Unread

\* octet_span_istream::read: all of n octets, or none of them.
StreamHas(n) == read_pos + n <= Len(Data)
StreamOctets(n) == SubSeq(Data, read_pos + 1, read_pos + n)

\* Mutant: peek_count_ is not looked at.
Drained_under_peek(rs) ==
  /\ look_ahead_pos < Len(buffer)
  /\ look_ahead_pos + rs = Len(buffer)

\* read_from_buffer has drained the buffer and nobody will come back to it.
Drained(rs) ==
  /\ look_ahead_pos < Len(buffer)
  /\ look_ahead_pos + rs = Len(buffer)
  /\ ~is_peeking

\* Mutant: the flush adds what this call read, not all the buffer held.
AfterBuffer_adds_read(rs) ==
  IF Drained(rs)
  THEN [buffer |-> <<>>, look_ahead_pos |-> 0, real_pos |-> real_pos + rs]
  ELSE [buffer |-> buffer, look_ahead_pos |-> look_ahead_pos + rs,
        real_pos |-> real_pos]

\* read_from_buffer: take rs octets, dropping the buffer once drained.
AfterBuffer(rs) ==
  IF Drained(rs)
  THEN [buffer |-> <<>>, look_ahead_pos |-> 0,
        real_pos |-> real_pos + look_ahead_pos + rs]
  ELSE [buffer |-> buffer, look_ahead_pos |-> look_ahead_pos + rs,
        real_pos |-> real_pos]

Buffered(rs) == SubSeq(buffer, look_ahead_pos + 1, look_ahead_pos + rs)

\* read, all of it served by read_from_buffer.
ReadBuffered(s) ==
  /\ FromBuffer(s) = s
  /\ LET b == AfterBuffer(s) IN
       /\ buffer' = b.buffer
       /\ look_ahead_pos' = b.look_ahead_pos
       /\ real_pos' = b.real_pos
  /\ result' = Ok(Buffered(s))
  /\ UNCHANGED <<read_pos, guards, failed>>

\* read, the rest served by read_from_stream: kept for a rewind if peeking.
ReadThrough(s) ==
  LET rs == FromBuffer(s)
      b == AfterBuffer(rs)
      more == s - rs
  IN
  /\ rs # s
  /\ StreamHas(more)
  /\ read_pos' = read_pos + more
  /\ IF is_peeking
     THEN /\ buffer' = b.buffer \o StreamOctets(more)
          /\ look_ahead_pos' = b.look_ahead_pos + more
          /\ real_pos' = b.real_pos
     ELSE /\ real_pos' = b.real_pos + more
          /\ buffer' = b.buffer
          /\ look_ahead_pos' = b.look_ahead_pos
  /\ result' = Ok(Buffered(rs) \o StreamOctets(more))
  /\ UNCHANGED <<guards, failed>>

\* Mutant: octet_span_istream moves on although the octets are not there.
ReadFails_moves_on(s) ==
  LET rs == FromBuffer(s)
      b == AfterBuffer(rs)
  IN
  /\ rs # s
  /\ ~StreamHas(s - rs)
  /\ read_pos' = read_pos + (s - rs)
  /\ buffer' = b.buffer
  /\ look_ahead_pos' = b.look_ahead_pos
  /\ real_pos' = b.real_pos
  /\ result' = EndOfStream
  /\ UNCHANGED <<guards, failed>>

\* read, the stream throwing: what came from the buffer is already taken.
ReadFails(s) ==
  LET rs == FromBuffer(s)
      b == AfterBuffer(rs)
  IN
  /\ rs # s
  /\ ~StreamHas(s - rs)
  /\ read_pos' = Len(Data)
  /\ buffer' = b.buffer
  /\ look_ahead_pos' = b.look_ahead_pos
  /\ real_pos' = b.real_pos
  /\ result' = EndOfStream
  /\ UNCHANGED <<guards, failed>>

Read(s) == ReadBuffered(s) \/ ReadThrough(s) \/ ReadFails(s)

\* readable_bytes: the missing octets are read behind the buffered ones.
ReadableBytes(s) ==
  LET more == s - FromBuffer(s) IN
  /\ more > 0 => StreamHas(more)
  /\ buffer' = buffer \o StreamOctets(more)
  /\ read_pos' = read_pos + more
  /\ result' = Ok(<<>>)
  /\ UNCHANGED <<look_ahead_pos, real_pos, guards, failed>>

\* readable_bytes throwing: the buffer was resized before the read failed.
\* Bound: one failed look-ahead, as each one makes the buffer grow.
ReadableBytesFails(s) ==
  LET more == s - FromBuffer(s) IN
  /\ ~failed
  /\ more > 0
  /\ ~StreamHas(more)
  /\ buffer' = buffer \o [i \in 1 .. more |-> Zero]
  /\ read_pos' = Len(Data)
  /\ failed' = TRUE
  /\ result' = EndOfStream
  /\ UNCHANGED <<look_ahead_pos, real_pos, guards>>

\* A guard is built: it keeps the position start_peek returns.
StartPeek ==
  /\ Len(guards) < MaxPeeks
  /\ guards' = Append(guards, look_ahead_pos)
  /\ result' = None
  /\ UNCHANGED <<read_pos, buffer, look_ahead_pos, real_pos, failed>>

\* Mutant: the position is never put back.
EndPeek_commits(commit) ==
  /\ is_peeking
  /\ guards' = SubSeq(guards, 1, Len(guards) - 1)
  /\ result' = Ended(commit)
  /\ UNCHANGED <<read_pos, buffer, look_ahead_pos, real_pos, failed>>

\* A guard is destroyed: stream_peek_guard never commits, peek_guard commits
\* unless it is destroyed by an exception.
EndPeek(commit) ==
  /\ is_peeking
  /\ look_ahead_pos' = IF commit THEN look_ahead_pos ELSE guards[Len(guards)]
  /\ guards' = SubSeq(guards, 1, Len(guards) - 1)
  /\ result' = Ended(commit)
  /\ UNCHANGED <<read_pos, buffer, real_pos, failed>>

Next ==
  \/ \E s \in 0 .. MaxRead : Read(s)
  \/ \E s \in 0 .. MaxRead : ReadableBytes(s)
  \/ \E s \in 0 .. MaxRead : ReadableBytesFails(s)
  \/ StartPeek
  \/ \E commit \in BOOLEAN : EndPeek(commit)

Spec == Init /\ [][Next]_vars

-----------------------------------------------------------------------------

Results == [outcome : {"none", "ok", "end of stream", "kept", "put back"},
            octets : Seq(Nat)]

TypeOK ==
  /\ read_pos \in 0 .. Len(Data)
  /\ buffer \in Seq(Nat)
  /\ look_ahead_pos \in Nat
  /\ real_pos \in Nat
  /\ guards \in Seq(Nat)
  /\ failed \in BOOLEAN
  /\ result \in Results

\* Where the octets start that somebody may still read: at the outermost
\* guard if there is one, at the reader if not.
Floor == IF is_peeking THEN guards[1] ELSE look_ahead_pos

\* No reader and no guard points behind the end of the buffer, and a guard
\* never points ahead of one built after it, nor ahead of the reader.
\* (start_peek and end_peek keep bare offsets into a vector that read_from_
\* buffer may clear in between, buffered_stream.hpp:45-49,90-101.)
PositionsNest ==
  /\ look_ahead_pos <= Len(buffer)
  /\ \A i \in 1 .. Len(guards) :
       /\ guards[i] <= look_ahead_pos
       /\ \A j \in 1 .. Len(guards) : i <= j => guards[i] <= guards[j]

\* Buffered octets continue where the stream underneath has got to, unless a
\* failed read threw the rest of the message away.
BufferMeetsStream ==
  \/ real_pos + Len(buffer) = read_pos
  \/ read_pos = Len(Data) /\ real_pos + Len(buffer) <= read_pos

\* Every octet that may still be read out of the buffer, ahead of the reader
\* or after putting back any live guard, is the message's octet there.
BufferIsGenuine ==
  \A i \in 1 .. Len(buffer) : Floor < i => buffer[i] = Data[real_pos + i]

\* Until a look-ahead fails, the buffer and the stream underneath together
\* are the unread message: read_from_buffer, read_from_stream and
\* readable_bytes each move only part of the bookkeeping
\* (buffered_stream.hpp:39-84).
BufferCoherent == ~failed => BufferMeetsStream /\ BufferIsGenuine

-----------------------------------------------------------------------------

\* How far the decoder can still get: a failed read leaves nothing to be had
\* behind the buffer.
Reach == IF read_pos = Len(Data) THEN real_pos + Len(buffer) ELSE Len(Data)

\* Where in the message the live guards would put the reader back to.
Marks == [i \in 1 .. Len(guards) |-> real_pos + guards[i]]

\* The contract this module implements.
P == INSTANCE PeekableStream WITH
       cursor <- pos, end <- Reach, marks <- Marks, void <- failed

\* A buffered_stream serves every read, rewind and look-ahead as a plain
\* cursor over the message would, wherever the octets are kept
\* (buffered_stream.hpp:25-105).
PeekableSpec == P!Spec
=============================================================================
