-------------------------- MODULE SerialiserOutput --------------------------
(***************************************************************************)
(* What should come of writing objects one after the other, said of the    *)
(* objects and not of the steps: the cells, and the implicit tag that is   *)
(* still pending behind them.                                              *)
(***************************************************************************)
EXTENDS Serialiser

CONSTANT Size   \* how many objects an object is made of

\* That of objects one after the other, with themselves.
Weight[os \in Seq(Objects)] ==
  IF os = <<>> THEN 0 ELSE 1 + Size[Head(os)] + Weight[Tail(os)]

\* Objects are made of others to a finite depth.
ASSUME SerialiserOutputAssumption ==
  /\ Size \in [Objects -> Nat]
  /\ \A o \in Objects :
       /\ o.kind \in {"implicit", "explicit"} => Size[o.of] < Size[o]
       /\ o.kind \in {"sequence", "object", "optional", "choice"} => Weight[o.of] <= Size[o]

Nothing(pending) == [cells |-> <<>>, pending |-> pending]
Enclosed(t, w) == [cells |-> Wrapped(t, TRUE, w.cells), pending |-> w.pending]

\* What comes of an object, of what comes of those it is made of.
Own(emitted, o, pending) ==
  LET TagOf(default) == IF pending = NoTag THEN default ELSE pending IN
  CASE o.kind = "primitive" ->
         [cells |-> Wrapped(TagOf(o.tag), FALSE, Octets(o.octets)), pending |-> NoTag]
    [] o.kind = "sequence" -> Enclosed(TagOf(o.tag), emitted[o.of][NoTag])
    [] o.kind \in {"object", "optional", "choice"} -> emitted[o.of][pending]
    [] o.kind = "implicit" ->
         IF Absent(o.of) THEN Nothing(pending) ELSE emitted[<<o.of>>][Context(o.tag)]
    [] o.kind = "explicit" ->
         IF Absent(o.of) THEN Nothing(pending)
         ELSE Enclosed(Context(o.tag), emitted[<<o.of>>][pending])
    [] o.kind = "trailing" -> [cells |-> o.cells, pending |-> pending]

\* s & a & b: what is pending behind one is pending in front of the next.
Emitted[os \in Seq(Objects)] ==
  [pending \in Tags |->
     IF os = <<>> THEN Nothing(pending)
     ELSE LET own == Own(Emitted, Head(os), pending)
              rest == Emitted[Tail(os)][own.pending]
          IN [cells |-> own.cells \o rest.cells, pending |-> rest.pending]]

\* A call that returns has put on the stream what should be written for the
\* object, under the tag that was pending, all of it and nothing else, unless
\* an earlier exception has left a layer that swallows it; and no tag waits
\* for the next object but one that nothing written was to use
\* (serialiser.hpp:48-101, asn_der_encoder.hpp:158-168).
OutputIsWritten ==
  LET w == Emitted[<<call.case.object>>][call.tag] IN
  status = "idle" /\ outcome = "ok" =>
    /\ current_tag = w.pending
    /\ call.layers = 0 => out = call.out \o w.cells
    /\ call.layers > 0 => out = call.out
=============================================================================
