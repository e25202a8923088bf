----------------------------- MODULE OctetQueue -----------------------------
(***************************************************************************)
(* What an octet_vector_stream promises whoever writes to it and reads     *)
(* from it: octets come out in the order they went in, each once; a read   *)
(* that asks for more than there is fails and drops what there is.         *)
(***************************************************************************)
EXTENDS Integers, Sequences

CONSTANTS
  Octets,    \* what octets there are
  MaxCall    \* bound: how many in one call

VARIABLES
  log,       \* all that has been written
  taken,     \* how many of those have been read or dropped
  result     \* what the last call returned

vars == <<log, taken, result>>

None == [outcome |-> "none", octets |-> <<>>]
Ok(octets) == [outcome |-> "ok", octets |-> octets]
Failed == [outcome |-> "failed", octets |-> <<>>]

Strings == UNION { [1 .. n -> Octets] : n \in 0 .. MaxCall }

\* Vectors may hold octets before there is a stream.
Init ==
  /\ log \in Seq(Octets)
  /\ taken = 0
  /\ result = None

Write(s) ==
  /\ log' = log \o s
  /\ result' = Ok(<<>>)
  /\ UNCHANGED taken

Read(n) ==
  /\ taken + n <= Len(log)
  /\ taken' = taken + n
  /\ result' = Ok(SubSeq(log, taken + 1, taken + n))
  /\ UNCHANGED log

ReadTooMuch(n) ==
  /\ taken + n > Len(log)
  /\ taken' = Len(log)
  /\ result' = Failed
  /\ UNCHANGED log

Next ==
  \/ \E s \in Strings : Write(s)
  \/ \E n \in 1 .. MaxCall : Read(n) \/ ReadTooMuch(n)

Spec == Init /\ [][Next]_vars
=============================================================================
