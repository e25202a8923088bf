----------------------------- MODULE DerMessages -----------------------------
(***************************************************************************)
(* Inputs for the deserialiser, made of what the serialiser writes, and    *)
(* what a reader should record for them.                                   *)
(***************************************************************************)
EXTENDS Deserialiser, DerWriting

\* What the reader should record.
RECURSIVE Recorded(_, _)
RecordedAll(ts, vs) ==
  FlattenSeq([i \in 1 .. Len(vs) |-> Recorded(ts[i], vs[i])])

Recorded(T, v) ==
  CASE T.kind = "primitive" -> <<Value(Octets(v))>>
    [] T.kind \in {"sequence", "object"} -> RecordedAll(T.fields, v)
    [] T.kind = "container" ->
         <<Begin>> \o RecordedAll([i \in 1 .. Len(v) |-> T.of], v) \o <<End>>
    [] T.kind \in {"implicit", "explicit"} -> Recorded(T.of, v)
    [] T.kind = "optional" ->
         IF v = <<>> THEN <<Absent>> ELSE <<Some>> \o Recorded(T.of, v[1])
    [] T.kind = "choice" ->
         <<Chosen(T.alts[v[1]].tag)>> \o Recorded(T.alts[v[1]].of, v[2])
    [] T.kind = "trailing" -> <<Value(v)>>

-----------------------------------------------------------------------------

\* Inputs for the deserialiser.
Case(kind, T, message, expected) ==
  [kind |-> kind, type |-> T, message |-> message, expected |-> expected]

Own(T, v) == Case("own", T, Message(T, v), Recorded(T, v))

\* Written as a type whose values start with those of T.
Extended(T, v, W, w) == Case("extended", T, Message(W, w), Recorded(T, v))

\* All of a message but its end; a cut may fall inside a header.
Cut(m, n) == SubSeq(m, 1, n)
CutInside(m, n) == Append(SubSeq(m, 1, n - 1), Stub)

Truncated(T, v) ==
  LET m == Message(T, v) IN
  { Case("truncated", T, Cut(m, n), <<>>) : n \in 0 .. Len(m) - 1 } \cup
  { Case("truncated", T, CutInside(m, n), <<>>) :
      n \in { k \in 1 .. Len(m) : m[k].is = "header" } }

\* A message with one header that announces another length.
Damaged(T, v) ==
  LET m == Message(T, v)
      relabelled(i, n) == [m EXCEPT ![i].len = n]
  IN
  { Case("damaged", T, relabelled(i, m[i].len + d), <<>>) :
      i \in HeadersOf(m), d \in {1, 2} } \cup
  { Case("damaged", T, relabelled(i, m[i].len - 1), <<>>) :
      i \in { k \in HeadersOf(m) : m[k].len > 0 } }

\* Written as one type, read as another.
Foreign(T, W, w) == Case("foreign", T, Message(W, w), <<>>)
=============================================================================
