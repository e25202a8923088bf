----------------------------- MODULE DerWriting -----------------------------
(***************************************************************************)
(* What should be on the stream once a value of a type has been written.   *)
(*                                                                         *)
(* A value is: of a primitive, its octets; of a sequence or object, a      *)
(* tuple of the fields' values; of a container, a sequence of values; of   *)
(* an optional, <<>> or <<v>>; of a choice, <<i, v>> for its i-th          *)
(* alternative; of trailing data, cells; of a tagged type, what it tags.   *)
(***************************************************************************)
EXTENDS Der, SequencesExt

\* The cells written for v, and the implicit tag still pending then
\* (current_tag_).
RECURSIVE Written(_, _, _)

\* s & v1 & v2 ..., the pending tag going to whoever uses it first.
WrittenAll(ts, vs, pending) ==
  FoldLeft(LAMBDA w, i : LET n == Written(ts[i], vs[i], w.pending)
                         IN [cells |-> w.cells \o n.cells, pending |-> n.pending],
           [cells |-> <<>>, pending |-> pending],
           [i \in 1 .. Len(vs) |-> i])

Written(T, v, pending) ==
  LET TagOf(default) == IF pending = NoTag THEN default ELSE pending
      Enclosed(default, w) ==
        [cells |-> Wrapped(TagOf(default), TRUE, w.cells), pending |-> w.pending]
  IN
  CASE T.kind = "primitive" ->
         [cells |-> Wrapped(TagOf(T.tag), FALSE, Octets(v)), pending |-> NoTag]
    [] T.kind = "sequence" ->
         Enclosed(T.tag, WrittenAll(T.fields, v, NoTag))
    [] T.kind = "container" ->
         Enclosed(SequenceTag, WrittenAll([i \in 1 .. Len(v) |-> T.of], v, NoTag))
    [] T.kind = "object" ->
         WrittenAll(T.fields, v, pending)
    [] T.kind = "implicit" ->
         IF T.of.kind = "optional" /\ v = <<>>
         THEN [cells |-> <<>>, pending |-> pending]
         ELSE Written(T.of, v, Context(T.tag))
    [] T.kind = "explicit" ->
         IF T.of.kind = "optional" /\ v = <<>>
         THEN [cells |-> <<>>, pending |-> pending]
         ELSE LET w == Written(T.of, v, pending)
              IN [cells |-> Wrapped(Context(T.tag), TRUE, w.cells),
                  pending |-> w.pending]
    [] T.kind = "optional" ->
         IF v = <<>> THEN [cells |-> <<>>, pending |-> pending]
         ELSE Written(T.of, v[1], pending)
    [] T.kind = "choice" ->
         Written(T.alts[v[1]].of, v[2], Context(T.alts[v[1]].tag))
    [] T.kind = "trailing" ->
         [cells |-> v, pending |-> pending]

Message(T, v) == Written(T, v, NoTag).cells
=============================================================================
