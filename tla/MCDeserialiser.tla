--------------------------- MODULE MCDeserialiser ---------------------------
EXTENDS DerMessages, DerTable, TestTypes

MCMaxStructure == 40
MCMaxItems == 16

\* Containers whose elements may be absent, and some of them that are not.
optionals == Container(Optional(Integer))
between == SequenceOf(<<optionals, Integer>>)
OptionalElements ==
  { <<optionals, <<>>>>, <<optionals, <<<<<<5>>>>, <<<<0, 200>>>>>>>>,
    <<Container(Optional(container)), <<<<<<<<7>>, <<<<<<7>>>>>>>>>>, <<<<<<0, 200>>, <<>>>>>>>>>>,
    <<Container(Implicit(1, Optional(Integer))), <<<<<<5>>>>, <<<<6>>>>>>>>,
    <<Container(optionals), <<<<<<<<5>>>>>>, <<>>, <<<<<<6>>>>>>>>>>,
    <<between, <<<<<<<<5>>>>, <<<<6>>>>>>, <<7>>>>>> }

OwnCases ==
  { Own(W[1], W[2]) : W \in OptionalElements } \cup
  { Own(Container(Explicit(2, Optional(Integer))), <<<<<<5>>>>, <<<<6>>>>>>) } \cup
  { Own(lookalike, <<o, <<<<5>>>>>>) : o \in {<<>>, <<<<<<1>>>>>>} } \cup
  { Own(nested, <<o, <<<<5>>, <<p, <<<<6>>>>>>>>>>) :
      o \in {<<>>} \cup { <<<<<<5>>, q, <<0>>>>>> : q \in {<<>>, <<<<<<1>>>>>>} },
      p \in {<<>>, <<<<<<1>>>>>>} } \cup
  { Own(topt, v) : v \in toptValues } \cup
  { Own(Container(container), v) : v \in UpTo2(containerValues) } \cup
  { Own(Container(topt), <<v, v>>) : v \in toptValues } \cup
  { Own(Container(pair), v) : v \in UpTo2({<<<<>>, <<<<5>>>>>>, <<<<97, 98>>, <<<<5>>>>>>}) } \cup
  { Own(Optional(topt), o) : o \in {<<>>} \cup { <<v>> : v \in toptValues } } \cup
  { Own(test_types, <<1, <<<<2>>>>>>), Own(test_types, <<2, <<<<>>>>>>) } \cup
  { Own(test_types, <<2, <<<<v>>>>>>) : v \in toptValues } \cup
  { Own(Implicit(3, kept), <<<<1>>, c>>) :
      c \in {<<>>, Message(Integer, <<9>>), Message(topt, <<<<1>>, <<>>, <<>>, <<2>>>>)} } \cup
  { Own(Explicit(4, Container(Bool)), <<<<1>>, <<0>>>>) } \cup
  { Own(SequenceOf(<<SequenceOf(<<Integer, Implicit(1, Trailing)>>), Integer>>), <<<<<<1>>, c>>, <<6>>>>) :
      c \in {<<>>, Message(Integer, <<9>>)} }

ExtendedCases ==
  { Extended(topt, v, newer, v \o <<<<97>>, <<<<1>>, <<2>>>>>>) : v \in toptValues } \cup
  { Extended(bothEnds, <<v, <<6>>>>, bothEndsNewer,
             <<v \o <<<<>>, <<>>>>, <<6>>>>) : v \in toptValues } \cup
  { Extended(Container(Optional(test1)), <<<<<<<<1>>>>>>, <<<<<<2>>>>>>>>,
             Container(Optional(topt)), <<<<v>>, <<<<<<2>>, <<>>, <<<<4>>>>, <<3>>>>>>>>) :
      v \in { w \in toptValues : w[1] = <<1>> } } \cup
  { Extended(Container(test1), <<<<<<1>>>>, <<<<2>>>>>>, Container(topt),
             <<<<<<1>>, <<>>, <<>>, <<3>>>>, <<<<2>>, <<>>, <<<<4>>>>, <<3>>>>>>) }

TruncatedCases ==
  UNION { Truncated(W[1], W[2]) : W \in OptionalElements } \cup
  UNION { Truncated(topt, v) : v \in toptValues } \cup
  UNION { Truncated(container, v) : v \in containerValues } \cup
  UNION { Truncated(Container(container), v) : v \in UpTo2(containerValues) } \cup
  Truncated(kept, <<<<1>>, Message(Integer, <<9>>)>>) \cup
  Truncated(test_types, <<2, <<<<<<<<1>>, <<<<1>>>>, <<<<1>>>>, <<2>>>>>>>>>>) \cup
  Truncated(Explicit(4, Container(Bool)), <<<<1>>, <<0>>>>)

\* Elements that go past the end of what is around them, or do not reach it.
DamagedCases ==
  UNION { Damaged(W[1], W[2]) : W \in OptionalElements } \cup
  Damaged(bothEnds, <<<<<<1>>, <<<<1>>>>, <<<<1>>>>, <<0, 200>>>>, <<6>>>>) \cup
  UNION { Damaged(Container(container), <<v, v>>) : v \in containerValues } \cup
  Damaged(kept, <<<<1>>, Message(Integer, <<9>>)>>) \cup
  Damaged(test_types, <<2, <<<<<<<<1>>, <<<<1>>>>, <<<<1>>>>, <<2>>>>>>>>>>)

\* Messages of other types: wrong tags, wrong lengths, wrong signs.
ForeignCases ==
  { Foreign(T, W, w) :
      T \in {topt, test1, test2, Container(container), Container(pair), test_types,
             kept, Optional(topt), Implicit(1, String), SequenceOf(<<Unsigned>>),
             optionals, Container(Optional(test1)), Container(Implicit(1, Optional(String))),
             between},
      <<W, w>> \in { <<topt, v>> : v \in toptValues } \cup
        { <<Container(container), v>> : v \in UpTo2(containerValues) } \cup
        { <<Container(pair), <<<<<<97, 98>>, <<<<5>>>>>>>>>>,
          <<SequenceOf(<<Integer, Implicit(1, String), Explicit(2, String), Integer>>),
            <<<<1>>, <<>>, <<97>>, <<2>>>>>>,
          <<Integer, <<200>>>>, <<SequenceOf(<<Integer>>), <<<<200>>>>>>,
          <<Implicit(1, test1), <<<<5>>>>>>, <<String, <<1, 2, 3>>>>,
          <<SequenceOf(<<String, String>>), <<[i \in 1 .. 20 |-> 1], [i \in 1 .. 20 |-> 1]>>>> } }

\* Every type a value of T may have a part of.
RECURSIVE Parts(_)
Parts(T) ==
  {T} \cup
  CASE T.kind \in {"sequence", "object"} -> UNION { Parts(T.fields[i]) : i \in DOMAIN T.fields }
    [] T.kind \in {"container", "optional", "implicit", "explicit"} -> Parts(T.of)
    [] T.kind = "choice" -> UNION { Parts(AsImplicit(T.alts[i])) : i \in DOMAIN T.alts }
    [] OTHER -> {}

TypesOf(cases) == UNION { Parts(c.type) : c \in cases }

MCCases == OwnCases \cup ExtendedCases \cup TruncatedCases \cup DamagedCases \cup ForeignCases
MCTypes == TypesOf(MCCases)

\* What has been written can be read back.
ASSUME MCLegible ==
  \A c \in OwnCases \cup ExtendedCases :
    Reads(TableFor(c.message, Goal(Read(c.type), 0, <<>>, NoTag)), c)

\* Whatever they are read as, what has been written is values in values.
ASSUME MCCasesNested == \A c \in Cases : c.kind # "damaged" => Nested(c.message)

\* A vector of objects with two optionals under one explicit tag, told apart
\* by what they tag: the first is tried, and fails, on what is the second.
either == SequenceOf(<<Explicit(2, Optional(Integer)), Explicit(2, Optional(String))>>)
eithers == [i \in 1 .. 3 |-> <<<<>>, <<<<97>>>>>>]
SharedTagCases == {Own(Container(either), eithers)}
SharedTagTypes == TypesOf(SharedTagCases)

\* An implicit tag on an optional t2, which has an explicit tag of its own
\* and only passes the implicit one on to its int.
retagged == SequenceOf(<<Implicit(1, Optional(t2)), Integer>>)
PassedTagCases == { Own(retagged, <<o, <<5>>>>) : o \in {<<>>, <<<<<<4>>>>>>} }
PassedTagTypes == TypesOf(PassedTagCases)
=============================================================================
