---------------------------- MODULE MCSerialiser ----------------------------
EXTENDS SerialiserMessages, TestTypes

\* A subnormal real, and a value of a type that is no alternative.
Subnormal == [kind |-> "unencodable", tag |-> Universal(9)]
NoAlternative == [kind |-> "no choice"]

\* Values that cannot be written, at the end of what has been.
inSequence == SequenceOf(<<Integer, Explicit(1, SequenceOf(<<Bool, Subnormal>>)), Integer>>)
inNested == SequenceOf(<<Bool, SequenceOf(<<Integer, Subnormal, Integer>>), String>>)
inTag == SequenceOf(<<Integer, SequenceOf(<<Bool, Explicit(2, Explicit(3, Subnormal))>>), Integer>>)
inChoice == SequenceOf(<<String, Implicit(4, NoAlternative)>>)

\* A tag that nothing uses, and one that passes on.
unused == SequenceOf(<<SequenceOf(<<Integer, Implicit(1, Trailing)>>), Integer>>)
waiting == Implicit(5, Object(<<Optional(Integer)>>))

MCCases ==
  { Case(topt, v) : v \in toptValues } \cup
  { Case(Container(container), v) : v \in {<<>>, <<<<<<0, 200>>, <<<<<<7>>>>>>>>, <<<<7>>, <<>>>>>>} } \cup
  { Case(Container(pair), <<<<<<>>, <<<<5>>>>>>>>),
    Case(test_types, <<2, <<<<<<<<1>>, <<>>, <<<<1>>>>, <<2>>>>>>>>>>),
    Case(Integer, <<9>>),
    Case(Implicit(6, t2), <<<<4>>>>),
    Case(Explicit(4, Container(Bool)), <<<<1>>, <<0>>>>),
    Case(inSequence, <<<<1>>, <<<<1>>, <<3>>>>, <<200>>>>),
    Case(inTag, <<<<1>>, <<<<1>>, <<3>>>>, <<2>>>>),
    Case(inNested, <<<<1>>, <<<<5>>, <<3>>, <<6>>>>, <<97>>>>),
    Case(inChoice, <<<<97>>, <<>>>>),
    Case(waiting, <<<<>>>>),
    Case(Implicit(7, NoAlternative), <<>>) } \cup
  { Case(unused, <<<<<<1>>, c>>, <<6>>>>) : c \in {<<>>, Written(Integer, <<9>>, NoTag).cells} }

MCObjects == UNION { Parts(c.object) : c \in MCCases }

MCSize == [o \in MCObjects |-> Inside(o)]

\* What the objects stand for.
ASSUME MCStandsFor == \A c \in MCCases : StandsFor(c)

\* The theorem about the output applies here.
ASSUME MCTrailingWhole == TrailingWhole
=============================================================================
