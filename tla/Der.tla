-------------------------------- MODULE Der --------------------------------
(***************************************************************************)
(* What the encoder and the decoder share: tags, and the cells a message   *)
(* is made of where its octets are not looked at.  A cell is a header (its *)
(* octets taken together), a stub (the first octets of a header that is    *)
(* cut off) or one octet of content; the length in a header counts cells.  *)
(***************************************************************************)
EXTENDS Integers, Sequences

\* A tag given in the program has the context specific class.
NoTag == [class |-> "none", tag |-> 0]
Universal(n) == [class |-> "universal", tag |-> n]
Context(n) == [class |-> "context", tag |-> n]
SequenceTag == Universal(16)

Header(t, n, con) == [is |-> "header", tag |-> t, len |-> n, constructed |-> con]
Stub == [is |-> "stub"]
OctetCell(v) == [is |-> "octet", val |-> v]

\* Mutant: octets are chars, that have a sign.
Octets_signed(v) ==
  [i \in 1 .. Len(v) |-> OctetCell(IF v[i] < 128 THEN v[i] ELSE v[i] - 256)]

Octets(v) == [i \in 1 .. Len(v) |-> OctetCell(v[i])]

\* A value as it is written: a header and what it announces.
Wrapped(t, con, cells) == <<Header(t, Len(cells), con)>> \o cells

Tags == [class : {"none", "universal", "context"}, tag : Nat]
Cells ==
  [is : {"header"}, tag : Tags, len : Nat, constructed : BOOLEAN]
  \cup [is : {"stub"}] \cup [is : {"octet"}, val : 0 .. 255]

\* The calls of either that close what they have opened.
Closers == {"end sequence", "end explicit"}

-----------------------------------------------------------------------------

\* The last cell of the value whose header is s[i].
LastOf(s, i) == i + s[i].len

HeadersOf(s) == { i \in DOMAIN s : s[i].is = "header" }

\* Values lie in each other or one behind the other: what is behind the header
\* of a constructed value are values that end where it does at the latest, and
\* octets are behind the header of another value, and nothing else is.  The
\* last value may lack its end.
Nested(s) ==
  /\ \A i \in HeadersOf(s), j \in DOMAIN s :
       i < j /\ j <= LastOf(s, i) =>
         IF s[i].constructed
         THEN j \in HeadersOf(s) => LastOf(s, j) <= LastOf(s, i)
         ELSE s[j].is # "header"
  /\ \A j \in DOMAIN s :
       s[j].is = "octet" => \E i \in HeadersOf(s) : ~s[i].constructed /\ i < j /\ j <= LastOf(s, i)

\* s is values one behind the other, whole to the innermost.
Whole(s) ==
  /\ Nested(s)
  /\ \A i \in DOMAIN s : s[i].is # "stub"
  /\ \A i \in HeadersOf(s) : LastOf(s, i) <= Len(s)
=============================================================================
