------------------------- MODULE SerialiserMessages -------------------------
(***************************************************************************)
(* The serialiser's steps against what should come of them: a case is an   *)
(* object together with the type and the value it stands for.              *)
(***************************************************************************)
EXTENDS SerialiserOutput, DerWriting

\* The calls the serialise member of T makes for v.
RECURSIVE Node(_, _)
Nodes(ts, vs) == [i \in 1 .. Len(vs) |-> Node(ts[i], vs[i])]

Node(T, v) ==
  CASE T.kind = "primitive" ->
         [kind |-> "primitive", tag |-> T.tag, octets |-> v, encodes |-> TRUE]
    [] T.kind = "sequence" ->
         [kind |-> "sequence", tag |-> T.tag, of |-> Nodes(T.fields, v)]
    [] T.kind = "container" ->
         [kind |-> "sequence", tag |-> SequenceTag, of |-> [i \in 1 .. Len(v) |-> Node(T.of, v[i])]]
    [] T.kind = "object" -> [kind |-> "object", of |-> Nodes(T.fields, v)]
    [] T.kind \in {"implicit", "explicit"} ->
         [kind |-> T.kind, tag |-> T.tag, of |-> Node(T.of, v)]
    [] T.kind = "optional" ->
         [kind |-> "optional", of |-> [i \in 1 .. Len(v) |-> Node(T.of, v[i])]]
    [] T.kind = "choice" ->
         [kind |-> "choice",
          of |-> <<[kind |-> "implicit", tag |-> T.alts[v[1]].tag, of |-> Node(T.alts[v[1]].of, v[2])]>>]
    [] T.kind = "trailing" -> [kind |-> "trailing", cells |-> v]
    [] T.kind = "unencodable" ->
         [kind |-> "primitive", tag |-> T.tag, octets |-> v, encodes |-> FALSE]
    [] T.kind = "no choice" -> [kind |-> "choice", of |-> <<>>]

Case(T, v) == [type |-> T, value |-> v, object |-> Node(T, v)]

\* Every object an object is made of, and itself.
RECURSIVE Parts(_)
Parts(o) ==
  {o} \cup
  CASE o.kind \in {"implicit", "explicit"} -> Parts(o.of)
    [] o.kind \in {"sequence", "object", "optional", "choice"} ->
         UNION { Parts(o.of[i]) : i \in DOMAIN o.of }
    [] OTHER -> {}

\* How many those are, each as often as it occurs, without itself.
RECURSIVE Inside(_)
Inside(o) ==
  CASE o.kind \in {"implicit", "explicit"} -> 1 + Inside(o.of)
    [] o.kind \in {"sequence", "object", "optional", "choice"} ->
         FoldLeft(LAMBDA n, p : n + 1 + Inside(p), 0, o.of)
    [] OTHER -> 0

Encodable(o) ==
  \A p \in Parts(o) : (p.kind = "primitive" => p.encodes) /\ (p.kind = "choice" => p.of # <<>>)

\* What should come of an object is what should be written for the value of
\* the type it stands for.
StandsFor(c) ==
  Encodable(c.object) =>
    \A t \in {NoTag, Context(9)} :
      Emitted[<<c.object>>][t] = Written(c.type, c.value, t)
=============================================================================
