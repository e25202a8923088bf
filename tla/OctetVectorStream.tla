-------------------------- MODULE OctetVectorStream --------------------------
(***************************************************************************)
(* octet_vector_stream: an input stream and an output stream over one      *)
(* vector, which moves to other memory when it grows.  The input stream    *)
(* has a pointer into that memory and a size of its own, and both have to  *)
(* follow.                                                                 *)
(***************************************************************************)
EXTENDS Integers, Sequences

CONSTANTS
  Octets,    \* what octets there are
  MaxSize,   \* bound: how many octets the stream grows to
  MaxCall    \* bound: how many octets in one call

ASSUME OctetVectorStreamAssumption ==
  0 \in Octets /\ MaxSize \in Nat /\ MaxCall \in Nat

VARIABLES
  vec,         \* the vector
  data,        \* what data_ points to: vec, or memory it has left
  size,        \* size_
  read_pos,    \* read_pos_
  write_pos,   \* write_pos_
  result       \* what the last call returned

vars == <<vec, data, size, read_pos, write_pos, result>>

None == [outcome |-> "none", octets |-> <<>>]
Ok(octets) == [outcome |-> "ok", octets |-> octets]
Failed == [outcome |-> "failed", octets |-> <<>>]

Strings == UNION { [1 .. n -> Octets] : n \in 0 .. MaxCall }

\* Both constructors: writing starts at the end of the vector, or before it.
Init ==
  /\ vec \in Strings
  /\ write_pos \in 0 .. Len(vec)
  /\ size = write_pos
  /\ data = "vec"
  /\ read_pos = 0
  /\ result = None

\* octet_vector_ostream::write: over what there is, growing as needed.
Overwritten(s) ==
  [i \in 1 .. IF write_pos + Len(s) > Len(vec) THEN write_pos + Len(s) ELSE Len(vec) |->
     IF i \in write_pos + 1 .. write_pos + Len(s) THEN s[i - write_pos] ELSE vec[i]]

\* Mutant: the size follows, the pointer does not.
Write_dangling(s) ==
  /\ write_pos + Len(s) <= MaxSize
  /\ vec' = IF s = <<>> THEN vec ELSE Overwritten(s)
  /\ data' \in {data} \cup { d \in {"freed"} : Len(vec') > Len(vec) }
  /\ write_pos' = write_pos + Len(s)
  /\ size' = write_pos'
  /\ result' = Ok(<<>>)
  /\ UNCHANGED read_pos

\* Mutant: the size is that of the vector.
Write_whole(s) ==
  /\ write_pos + Len(s) <= MaxSize
  /\ vec' = IF s = <<>> THEN vec ELSE Overwritten(s)
  /\ data' = "vec"
  /\ write_pos' = write_pos + Len(s)
  /\ size' = Len(vec')
  /\ result' = Ok(<<>>)
  /\ UNCHANGED read_pos

\* octet_vector_stream::write: pointer and size are taken anew, even when
\* nothing is written.
Write(s) ==
  /\ write_pos + Len(s) <= MaxSize
  /\ vec' = IF s = <<>> THEN vec ELSE Overwritten(s)
  /\ data' = "vec"
  /\ write_pos' = write_pos + Len(s)
  /\ size' = write_pos'
  /\ result' = Ok(<<>>)
  /\ UNCHANGED read_pos

\* octet_span_istream::read of what there is; from memory the vector has left,
\* anything.
Read(n) ==
  /\ read_pos + n <= size
  /\ read_pos' = read_pos + n
  /\ \E s \in IF data = "vec" THEN {SubSeq(vec, read_pos + 1, read_pos + n)} ELSE [1 .. n -> Octets] :
       result' = Ok(s)
  /\ UNCHANGED <<vec, data, size, write_pos>>

\* Mutant: the position moves by what was asked for.
ReadFails_moves_on(n) ==
  /\ read_pos + n > size
  /\ read_pos' = read_pos + n
  /\ result' = Failed
  /\ UNCHANGED <<vec, data, size, write_pos>>

\* octet_span_istream::read of more than there is.
ReadFails(n) ==
  /\ read_pos + n > size
  /\ read_pos' = size
  /\ result' = Failed
  /\ UNCHANGED <<vec, data, size, write_pos>>

Next ==
  \/ \E s \in Strings : Write(s)
  \/ \E n \in 1 .. MaxCall : Read(n) \/ ReadFails(n)

Spec == Init /\ [][Next]_vars

-----------------------------------------------------------------------------

\* Whatever fails, the next octet read is one that has been written or the one
\* after them (octet_vector_stream.cpp:21-27).
TypeOK ==
  /\ vec \in Seq(Octets)
  /\ data \in {"vec", "freed"}
  /\ size \in Nat /\ read_pos \in Nat /\ write_pos \in Nat
  /\ read_pos <= size /\ write_pos <= Len(vec)

Q == INSTANCE OctetQueue WITH log <- SubSeq(vec, 1, write_pos), taken <- read_pos

\* However reads and writes follow each other, the stream is a queue of octets
\* (octet_vector_stream.cpp:18-71).
QueueSpec == Q!Spec
=============================================================================
