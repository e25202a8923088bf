------------------------------ MODULE DerTable ------------------------------
(***************************************************************************)
(* The table of DerReading for one goal and all that it is made of, built  *)
(* by recursion, and what it says of a loop that does not come further.    *)
(***************************************************************************)
EXTENDS DerReading, TLC

\* Whether a goal starts with another one.
Deeper(m, g) ==
  CASE g.frame.call = "read" ->
         LET T == g.frame.type IN
         CASE T.kind \in {"object", "implicit", "explicit", "optional"} -> TRUE
           [] T.kind = "sequence" -> Opens(m, g, OwnTag(g, T.tag))
           [] T.kind = "container" -> Opens(m, g, OwnTag(g, SequenceTag))
           [] T.kind = "choice" -> Candidates(m, g, T) # {}
           [] OTHER -> FALSE
    [] g.frame.call = "fields" -> g.frame.types # <<>>
    [] g.frame.call = "loop" -> ~AtEnd(g)
    [] g.frame.call = "start explicit" -> Opens(m, g, Context(g.frame.tag))

\* Whether it goes on once the first one came to r.  Nothing is said of a loop
\* whose element is read from nothing.
Further(g, r) ==
  /\ r.is = "got"
  /\ g.frame.call = "fields" \/ (g.frame.call = "loop" /\ r.at > g.at)

\* What the goal g comes to, and all the goals it is made of.
RECURSIVE TableFor(_, _)
TableFor(m, g) ==
  LET none == [x \in {} |-> Unsaid]
      inner == IF Deeper(m, g) THEN TableFor(m, First(m, g)) ELSE none
      r == Said(inner, First(m, g))
      outer == IF Deeper(m, g) /\ Further(g, r) THEN TableFor(m, Second(g, r)) ELSE none
      q == Said(outer, Second(g, r))
  IN inner @@ outer @@ (g :> Result(m, g, r, q))

-----------------------------------------------------------------------------

\* What one more element of the loop that is running comes to.
Element ==
  LET g == Goal(Read(Top.type), cursor, <<Head(seq_pos)>>, current_tag)
  IN Said(TableFor(input.message, g), g)

\* A loop stands within its sequence, before what is not read as an element.
Standing ==
  /\ running
  /\ Top.call = "loop"
  /\ cursor < Head(seq_pos)
  /\ ~(Element.is = "got" /\ Element.at > cursor)

\* Decoding comes to an end, whatever the message is read as and whatever
\* lengths its headers announce, unless a loop whose elements may be absent
\* stands before what is no element, within its sequence: it stays there for
\* ever (container.hpp:24).  What was written for the type, or a newer one,
\* never makes it, and an element that goes past the end of the sequence ends
\* the loop as well (asn_der_decoder.hpp:132).  Octets of content taken for a
\* header are not followed.
Termination ==
  \/ <>(status \in {"done", "failed", "misaligned"})
  \/ input.kind \notin {"own", "extended"} /\ []<>Standing
=============================================================================
