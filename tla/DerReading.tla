----------------------------- MODULE DerReading -----------------------------
(***************************************************************************)
(* What should come of reading a value, said of the message and not of the *)
(* steps: where the value ends, what is recorded of it and which tag is    *)
(* still pending then, or that it is not there.  There is no stack here,   *)
(* no exception and no position that is put back.                          *)
(*                                                                         *)
(* A goal is what a call is to read, at a position, before the end of the  *)
(* innermost scope (<<>> where no scope is open), under the pending tag.   *)
(* Nothing is said (Unsaid) of reading what makes the decoder lose its     *)
(* input, leave a scope open or leave a tag behind.                        *)
(***************************************************************************)
EXTENDS Deserialiser

Goal(f, at, end, tag) == [frame |-> f, at |-> at, end |-> end, tag |-> tag]

Got(at, tag, rec) == [is |-> "got", at |-> at, tag |-> tag, items |-> rec]
Refused == [is |-> "refused"]
Unsaid == [is |-> "unsaid"]

Results == [is : {"got"}, at : Nat, tag : Tags, items : Seq(Items)] \cup {Refused, Unsaid}

\* r is what came of the value behind some items.
Behind(before, r) == IF r.is = "got" THEN Got(r.at, r.tag, before \o r.items) ELSE r

-----------------------------------------------------------------------------

HeaderAt(m, g) ==
  g.at < Len(m) /\ m[g.at + 1].is = "header" /\ m[g.at + 1].len <= MaxStructure

AtEnd(g) == g.end # <<>> /\ g.end[1] <= g.at

\* The value of tag t is there.
Starts(m, g, t) == ~AtEnd(g) /\ HeaderAt(m, g) /\ m[g.at + 1].tag = t

Opens(m, g, t) == Starts(m, g, t) /\ m[g.at + 1].constructed

OwnTag(g, default) == IF g.tag = NoTag THEN default ELSE g.tag

\* The end of the value at the position, and reading f in it.
ValueEnd(m, g) == g.at + 1 + m[g.at + 1].len
Inside(m, g, f, tag) == Goal(f, g.at + 1, <<ValueEnd(m, g)>>, tag)

Candidates(m, g, T) ==
  { i \in 1 .. Len(T.alts) : HeaderAt(m, g) /\ T.alts[i].tag = m[g.at + 1].tag.tag }
Candidate(m, g, T) ==
  T.alts[CHOOSE i \in Candidates(m, g, T) : \A j \in Candidates(m, g, T) : i <= j]

\* What the goal g starts with: another goal.
FirstRead(m, g) ==
  LET T == g.frame.type
      same(f) == Goal(f, g.at, g.end, g.tag)
  IN
  CASE T.kind = "sequence" -> Inside(m, g, Fields(T.fields), NoTag)
    [] T.kind = "container" -> Inside(m, g, Loop(T.of), NoTag)
    [] T.kind = "object" -> same(Fields(T.fields))
    [] T.kind = "implicit" -> Goal(Read(T.of), g.at, g.end, Context(T.tag))
    [] T.kind = "explicit" ->
         same(StartExplicit(T.tag, IF T.of.kind = "optional" THEN T.of.of ELSE T.of))
    [] T.kind = "optional" -> same(Read(T.of))
    [] T.kind = "choice" -> same(Read(AsImplicit(Candidate(m, g, T))))

First(m, g) ==
  CASE g.frame.call = "read" -> FirstRead(m, g)
    [] g.frame.call = "fields" -> Goal(Read(Head(g.frame.types)), g.at, g.end, g.tag)
    [] g.frame.call = "loop" -> Goal(Read(g.frame.type), g.at, g.end, g.tag)
    [] g.frame.call = "start explicit" -> Inside(m, g, Read(g.frame.type), g.tag)

\* What it goes on with where the first one came to r.
Others(g) == IF g.frame.call = "fields" THEN Fields(Tail(g.frame.types)) ELSE g.frame
Second(g, r) == Goal(Others(g), r.at, g.end, r.tag)

-----------------------------------------------------------------------------

OfPrimitive(m, g, T) ==
  LET len == m[g.at + 1].len
      content == SubSeq(m, g.at + 2, g.at + 1 + len)
  IN
  IF ~Starts(m, g, OwnTag(g, T.tag)) \/ len \notin T.lengths THEN Refused
  ELSE IF ValueEnd(m, g) > Len(m) THEN Unsaid
  ELSE IF Refuses(T, content) THEN Refused
  ELSE Got(ValueEnd(m, g), NoTag, <<Value(content)>>)

\* A scope is left behind what has been read in it, at its end.
Skipped(m, g, r) ==
  IF ValueEnd(m, g) > Len(m) THEN Unsaid
  ELSE IF r.is = "got" THEN Got(Larger(r.at, ValueEnd(m, g)), r.tag, r.items)
  ELSE r

OfScope(m, g, t, r) == IF Opens(m, g, t) THEN Skipped(m, g, r) ELSE Refused

\* The end of an explicit tag is not reached where what it tags is refused.
OfExplicit(m, g, r) ==
  IF Opens(m, g, Context(g.frame.tag))
  THEN IF r = Refused THEN Unsaid ELSE Skipped(m, g, r)
  ELSE IF g.tag = NoTag THEN Refused ELSE Unsaid

OfOptional(g, r) ==
  IF r = Refused THEN Got(g.at, NoTag, <<Absent>>) ELSE Behind(<<Some>>, r)

OfChoice(m, g, T, r) ==
  IF Candidates(m, g, T) # {} THEN Behind(<<Chosen(Candidate(m, g, T).tag)>>, r)
  ELSE IF g.tag = NoTag THEN Refused
  ELSE Unsaid

OfTrailing(m, g) ==
  IF g.end = <<>> \/ g.end[1] > Len(m) THEN Unsaid
  ELSE Got(Larger(g.at, g.end[1]), g.tag, <<Value(SubSeq(m, g.at + 1, g.end[1]))>>)

OfRead(m, g, r) ==
  LET T == g.frame.type IN
  CASE T.kind = "primitive" -> OfPrimitive(m, g, T)
    [] T.kind = "sequence" -> OfScope(m, g, OwnTag(g, T.tag), r)
    [] T.kind = "container" -> OfScope(m, g, OwnTag(g, SequenceTag), Behind(<<Begin>>, r))
    [] T.kind \in {"object", "implicit"} -> r
    [] T.kind = "explicit" -> IF T.of.kind = "optional" THEN OfOptional(g, r) ELSE r
    [] T.kind = "optional" -> OfOptional(g, r)
    [] T.kind = "choice" -> OfChoice(m, g, T, r)
    [] T.kind = "trailing" -> OfTrailing(m, g)

\* One value behind the other: r is what came of the first, q of the others.
InTurn(r, q) == IF r.is = "got" THEN Behind(r.items, q) ELSE r

OfFields(g, r, q) == IF g.frame.types = <<>> THEN Got(g.at, g.tag, <<>>) ELSE InTurn(r, q)

OfLoop(g, r, q) == IF AtEnd(g) THEN Got(g.at, g.tag, <<End>>) ELSE InTurn(r, q)

\* What comes of g where the goals it starts and goes on with come to r and q.
Result(m, g, r, q) ==
  CASE g.frame.call = "read" -> OfRead(m, g, r)
    [] g.frame.call = "fields" -> OfFields(g, r, q)
    [] g.frame.call = "loop" -> OfLoop(g, r, q)
    [] g.frame.call = "start explicit" -> OfExplicit(m, g, r)

-----------------------------------------------------------------------------

\* A table says of some goals what they come to.
Said(table, g) == IF g \in DOMAIN table THEN table[g] ELSE Unsaid

\* It says of each what follows from what it says of others.
Consistent(m, table) ==
  \A g \in DOMAIN table :
    LET r == Said(table, First(m, g)) IN
    /\ table[g] \in Results
    /\ table[g] = Result(m, g, r, Said(table, Second(g, r)))

\* By the table the message of the case c is read as what is expected.
Reads(table, c) ==
  LET r == Said(table, Goal(Read(c.type), 0, <<>>, NoTag)) IN
  /\ Consistent(c.message, table)
  /\ r.is = "got"
  /\ r.items = c.expected
  /\ Len(c.expected) <= MaxItems

\* The case c can be read, as the grammar above says, as what is expected.
Legible(c) == \E table : Reads(table, c)
=============================================================================
