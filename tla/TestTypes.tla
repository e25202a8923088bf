----------------------------- MODULE TestTypes -----------------------------
(***************************************************************************)
(* Types, most of them those of the tests, and some values of them.        *)
(***************************************************************************)
EXTENDS Der, Sequences

Primitive(n, lengths, signed) ==
  [kind |-> "primitive", tag |-> Universal(n), lengths |-> lengths, signed |-> signed]
Integer == Primitive(2, 1 .. 2, TRUE)
Unsigned == Primitive(2, 1 .. 3, FALSE)
Bool == Primitive(1, {1}, TRUE)
String == Primitive(20, 0 .. 40, TRUE)
SequenceOf(fields) == [kind |-> "sequence", tag |-> SequenceTag, fields |-> fields]
Object(fields) == [kind |-> "object", fields |-> fields]
Container(T) == [kind |-> "container", of |-> T]
Optional(T) == [kind |-> "optional", of |-> T]
Implicit(n, T) == [kind |-> "implicit", tag |-> n, of |-> T]
Explicit(n, T) == [kind |-> "explicit", tag |-> n, of |-> T]
Trailing == [kind |-> "trailing"]
Choice(alts) == [kind |-> "choice", alts |-> alts]
Alternative(n, T) == [tag |-> n, of |-> T]

\* test/types.hpp
topt == SequenceOf(<<Integer, Implicit(1, Optional(Integer)), Explicit(2, Optional(Integer)), Integer>>)
test1 == SequenceOf(<<Integer>>)
test2 == SequenceOf(<<Implicit(1, Optional(topt))>>)
t2 == Object(<<Explicit(2, Integer)>>)
test_types == Choice(<<Alternative(1, test1), Alternative(2, test2)>>)

\* test_optional.cpp
containee == SequenceOf(<<Unsigned>>)
container == SequenceOf(<<Unsigned, Optional(containee)>>)

\* test_map.cpp
pair == SequenceOf(<<String, t2>>)

optInts == {<<>>, <<<<1>>>>}
toptValues == { <<<<1>>, a, b, <<0, 200>>>> : a \in optInts, b \in optInts }
containerValues == { <<<<0, 200>>, o>> : o \in {<<>>, <<<<<<7>>>>>>} }
UpTo2(S) == {<<>>} \cup { <<a>> : a \in S } \cup { <<a, b>> : a \in S, b \in S }

\* A field in front, a sequence of unknown trailing fields behind.
newer == SequenceOf(topt.fields \o <<String, Container(Integer)>>)
kept == SequenceOf(<<Integer, Trailing>>)
bothEnds == SequenceOf(<<topt, Integer>>)
bothEndsNewer == SequenceOf(<<newer, Integer>>)

\* Optionals that look like what follows them until they are read to the end.
lookalike == SequenceOf(<<Optional(SequenceOf(<<Bool>>)), test1>>)
nested == SequenceOf(<<Optional(SequenceOf(<<Integer, Optional(SequenceOf(<<Bool>>)), Bool>>)),
                       SequenceOf(<<Integer, lookalike>>)>>)
=============================================================================
