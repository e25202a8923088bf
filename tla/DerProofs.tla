------------------------------ MODULE DerProofs ------------------------------
(***************************************************************************)
(* What the proofs about DER rest on.  For the encoder and the decoder:    *)
(* stacks of calls some of which close what they have opened, layers of    *)
(* the one and scopes of the other, and messages made of values in values. *)
(* For the codecs of numbers: powers of two, the highest bit of a number,  *)
(* its digits to the base of a power of two, and the word they are put     *)
(* together to again.                                                      *)
(***************************************************************************)
EXTENDS Der, DerOctets, SequenceTheorems, FiniteSetTheorems, WellFoundedInduction, TLAPS

Closes(f) == f.call \in Closers
DepthOf(f) == f.depth

\* The calls in fs close n layers, innermost first: each of them one of its
\* own, and each layer has a call that will close it.
Scoped(fs, n) ==
  \A i \in 1 .. Len(fs) :
    Closes(fs[i]) =>
      /\ DepthOf(fs[i]) \in 1 .. n
      /\ \A j \in 1 .. Len(fs) : i < j /\ Closes(fs[j]) => DepthOf(fs[j]) < DepthOf(fs[i])

Closed(fs, n) == \A d \in 1 .. n : \E i \in 1 .. Len(fs) : Closes(fs[i]) /\ DepthOf(fs[i]) = d

\* A stack of frames out of S that closes n layers.
Stack(S, fs, n) == fs \in Seq(S) /\ Scoped(fs, n) /\ Closed(fs, n)

-----------------------------------------------------------------------------

\* Putting frames on a stack.
LEMMA PushIndices ==
  ASSUME NEW S, NEW fs \in Seq(S), NEW f \in S
  PROVE  /\ <<f>> \o fs \in Seq(S)
         /\ Len(<<f>> \o fs) = Len(fs) + 1
         /\ Len(fs) \in Nat
         /\ (<<f>> \o fs)[1] = f
         /\ \A i \in 1 .. Len(fs) + 1 :
              i # 1 => i - 1 \in 1 .. Len(fs) /\ (<<f>> \o fs)[i] = fs[i - 1]
OBVIOUS

LEMMA PushPlain ==
  ASSUME NEW S, NEW fs \in Seq(S), NEW n \in Nat, Stack(S, fs, n), NEW f \in S, ~Closes(f)
  PROVE  Stack(S, <<f>> \o fs, n)
<1> DEFINE gs == <<f>> \o fs
<1>1. Scoped(fs, n) /\ Closed(fs, n)
  BY DEF Stack
<1>2. /\ gs \in Seq(S) /\ Len(gs) = Len(fs) + 1 /\ Len(fs) \in Nat
      /\ gs[1] = f
      /\ \A i \in 1 .. Len(fs) + 1 :
           i # 1 => i - 1 \in 1 .. Len(fs) /\ gs[i] = fs[i - 1]
  BY PushIndices
<1> HIDE DEF gs
<1>3. Scoped(gs, n)
  <2> SUFFICES ASSUME NEW i \in 1 .. Len(gs), Closes(gs[i])
               PROVE  /\ DepthOf(gs[i]) \in 1 .. n
                      /\ \A j \in 1 .. Len(gs) :
                           i < j /\ Closes(gs[j]) => DepthOf(gs[j]) < DepthOf(gs[i])
    BY DEF Scoped
  <2>1. i # 1 /\ i - 1 \in 1 .. Len(fs) /\ gs[i] = fs[i - 1]
    BY <1>2
  <2>2. DepthOf(fs[i - 1]) \in 1 .. n
    BY <2>1, <1>1 DEF Scoped
  <2>3. ASSUME NEW j \in 1 .. Len(gs), i < j, Closes(gs[j])
        PROVE  DepthOf(gs[j]) < DepthOf(gs[i])
    <3>1. j - 1 \in 1 .. Len(fs) /\ gs[j] = fs[j - 1] /\ i - 1 < j - 1
      BY <1>2, <2>1, <2>3
    <3> QED BY <3>1, <2>1, <2>3, <1>1 DEF Scoped
  <2> QED BY <2>1, <2>2, <2>3
<1>4. Closed(gs, n)
  <2> SUFFICES ASSUME NEW d \in 1 .. n
               PROVE  \E i \in 1 .. Len(gs) : Closes(gs[i]) /\ DepthOf(gs[i]) = d
    BY DEF Closed
  <2>1. PICK i \in 1 .. Len(fs) : Closes(fs[i]) /\ DepthOf(fs[i]) = d
    BY <1>1 DEF Closed
  <2>2. i + 1 \in 1 .. Len(gs) /\ gs[i + 1] = fs[i]
    BY <1>2
  <2> QED BY <2>1, <2>2
<1> QED BY <1>2, <1>3, <1>4 DEF Stack, gs

LEMMA PushCloser ==
  ASSUME NEW S, NEW fs \in Seq(S), NEW n \in Nat, Stack(S, fs, n),
         NEW f \in S, Closes(f), DepthOf(f) = n + 1
  PROVE  Stack(S, <<f>> \o fs, n + 1)
<1> DEFINE gs == <<f>> \o fs
<1>1. Scoped(fs, n) /\ Closed(fs, n)
  BY DEF Stack
<1>2. /\ gs \in Seq(S) /\ Len(gs) = Len(fs) + 1 /\ Len(fs) \in Nat
      /\ gs[1] = f
      /\ \A i \in 1 .. Len(fs) + 1 :
           i # 1 => i - 1 \in 1 .. Len(fs) /\ gs[i] = fs[i - 1]
  BY PushIndices
<1> HIDE DEF gs
<1>3. \A k \in 1 .. Len(fs) : Closes(fs[k]) => DepthOf(fs[k]) \in 1 .. n
  BY <1>1 DEF Scoped
<1>4. Scoped(gs, n + 1)
  <2> SUFFICES ASSUME NEW i \in 1 .. Len(gs), Closes(gs[i])
               PROVE  /\ DepthOf(gs[i]) \in 1 .. n + 1
                      /\ \A j \in 1 .. Len(gs) :
                           i < j /\ Closes(gs[j]) => DepthOf(gs[j]) < DepthOf(gs[i])
    BY DEF Scoped
  <2>1. CASE i = 1
    <3>1. gs[i] = f /\ DepthOf(gs[i]) = n + 1
      BY <1>2, <2>1
    <3>2. ASSUME NEW j \in 1 .. Len(gs), i < j, Closes(gs[j])
          PROVE  DepthOf(gs[j]) < n + 1
      <4>1. j - 1 \in 1 .. Len(fs) /\ gs[j] = fs[j - 1]
        BY <1>2, <2>1, <3>2
      <4>2. DepthOf(gs[j]) \in 1 .. n
        BY <4>1, <1>3, <3>2
      <4> QED BY <4>2
    <3> QED BY <3>1, <3>2
  <2>2. CASE i # 1
    <3>1. i - 1 \in 1 .. Len(fs) /\ gs[i] = fs[i - 1]
      BY <1>2, <2>2
    <3>2. DepthOf(gs[i]) \in 1 .. n
      BY <3>1, <1>3
    <3>3. ASSUME NEW j \in 1 .. Len(gs), i < j, Closes(gs[j])
          PROVE  DepthOf(gs[j]) < DepthOf(gs[i])
      <4>1. j - 1 \in 1 .. Len(fs) /\ gs[j] = fs[j - 1] /\ i - 1 < j - 1
        BY <1>2, <3>1, <3>3
      <4> QED BY <4>1, <3>1, <3>3, <1>1 DEF Scoped
    <3> QED BY <3>2, <3>3
  <2> QED BY <2>1, <2>2
<1>5. Closed(gs, n + 1)
  <2> SUFFICES ASSUME NEW d \in 1 .. n + 1
               PROVE  \E i \in 1 .. Len(gs) : Closes(gs[i]) /\ DepthOf(gs[i]) = d
    BY DEF Closed
  <2>1. CASE d = n + 1
    <3>1. 1 \in 1 .. Len(gs)
      BY <1>2
    <3> QED BY <3>1, <2>1, <1>2
  <2>2. CASE d # n + 1
    <3>1. PICK i \in 1 .. Len(fs) : Closes(fs[i]) /\ DepthOf(fs[i]) = d
      BY <2>2, <1>1 DEF Closed
    <3>2. i + 1 \in 1 .. Len(gs) /\ gs[i + 1] = fs[i]
      BY <1>2
    <3> QED BY <3>1, <3>2
  <2> QED BY <2>1, <2>2
<1> QED BY <1>2, <1>4, <1>5 DEF Stack, gs

\* Taking a frame off.
LEMMA PopIndices ==
  ASSUME NEW S, NEW fs \in Seq(S), fs # <<>>
  PROVE  /\ Head(fs) = fs[1] /\ Head(fs) \in S
         /\ Tail(fs) \in Seq(S)
         /\ Len(fs) \in Nat /\ Len(fs) >= 1
         /\ Len(Tail(fs)) = Len(fs) - 1
         /\ \A i \in 1 .. Len(fs) - 1 : Tail(fs)[i] = fs[i + 1]
OBVIOUS

LEMMA PopScoped ==
  ASSUME NEW S, NEW fs \in Seq(S), NEW n \in Nat, Scoped(fs, n), fs # <<>>
  PROVE  Scoped(Tail(fs), n)
<1> DEFINE gs == Tail(fs)
<1>2. /\ gs \in Seq(S) /\ Len(gs) = Len(fs) - 1 /\ Len(fs) \in Nat
      /\ \A i \in 1 .. Len(fs) - 1 : gs[i] = fs[i + 1]
  BY PopIndices
<1> HIDE DEF gs
<1>3. \A i \in 1 .. Len(gs) : i + 1 \in 1 .. Len(fs) /\ gs[i] = fs[i + 1]
  BY <1>2
<1>4. Scoped(gs, n)
  <2> SUFFICES ASSUME NEW i \in 1 .. Len(gs), Closes(gs[i])
               PROVE  /\ DepthOf(gs[i]) \in 1 .. n
                      /\ \A j \in 1 .. Len(gs) :
                           i < j /\ Closes(gs[j]) => DepthOf(gs[j]) < DepthOf(gs[i])
    BY DEF Scoped
  <2>1. DepthOf(gs[i]) \in 1 .. n
    BY <1>3 DEF Scoped
  <2>2. ASSUME NEW j \in 1 .. Len(gs), i < j, Closes(gs[j])
        PROVE  DepthOf(gs[j]) < DepthOf(gs[i])
    <3>1. i + 1 < j + 1
      BY <2>2, <1>2
    <3> QED BY <3>1, <2>2, <1>3 DEF Scoped
  <2> QED BY <2>1, <2>2
<1> QED BY <1>4 DEF gs

LEMMA PopPlain ==
  ASSUME NEW S, NEW fs \in Seq(S), NEW n \in Nat, Stack(S, fs, n), fs # <<>>, ~Closes(Head(fs))
  PROVE  Stack(S, Tail(fs), n)
<1> DEFINE gs == Tail(fs)
<1>1. /\ gs \in Seq(S) /\ Len(gs) = Len(fs) - 1 /\ Len(fs) \in Nat
      /\ Len(fs) >= 1 /\ Head(fs) = fs[1]
      /\ \A i \in 1 .. Len(fs) - 1 : gs[i] = fs[i + 1]
  BY PopIndices
<1>2. Scoped(gs, n)
  BY PopScoped DEF Stack
<1> HIDE DEF gs
<1>3. Closed(gs, n)
  <2> SUFFICES ASSUME NEW d \in 1 .. n
               PROVE  \E i \in 1 .. Len(gs) : Closes(gs[i]) /\ DepthOf(gs[i]) = d
    BY DEF Closed
  <2>1. PICK i \in 1 .. Len(fs) : Closes(fs[i]) /\ DepthOf(fs[i]) = d
    BY DEF Stack, Closed
  <2>2. i # 1
    BY <2>1, <1>1
  <2>3. i - 1 \in 1 .. Len(gs) /\ gs[i - 1] = fs[i]
    BY <2>2, <1>1
  <2> QED BY <2>1, <2>3
<1> QED BY <1>1, <1>2, <1>3 DEF Stack, gs

LEMMA PopCloser ==
  ASSUME NEW S, NEW fs \in Seq(S), NEW n \in Nat, Stack(S, fs, n), fs # <<>>, Closes(Head(fs))
  PROVE  n - 1 \in Nat /\ Stack(S, Tail(fs), n - 1)
<1> DEFINE gs == Tail(fs)
<1>1. Scoped(fs, n) /\ Closed(fs, n)
  BY DEF Stack
<1>2. /\ gs \in Seq(S) /\ Len(gs) = Len(fs) - 1 /\ Len(fs) \in Nat
      /\ Len(fs) >= 1 /\ Head(fs) = fs[1]
      /\ \A i \in 1 .. Len(fs) - 1 : gs[i] = fs[i + 1]
  BY PopIndices
<1>3. Scoped(gs, n)
  BY <1>1, PopScoped
<1> HIDE DEF gs
<1>4. 1 \in 1 .. Len(fs) /\ DepthOf(fs[1]) \in 1 .. n
  BY <1>1, <1>2 DEF Scoped
<1>5. \A i \in 1 .. Len(gs) : Closes(gs[i]) => DepthOf(gs[i]) < DepthOf(fs[1])
  <2> SUFFICES ASSUME NEW i \in 1 .. Len(gs), Closes(gs[i])
               PROVE  DepthOf(gs[i]) < DepthOf(fs[1])
    OBVIOUS
  <2>1. i + 1 \in 1 .. Len(fs) /\ gs[i] = fs[i + 1] /\ 1 < i + 1
    BY <1>2
  <2> QED BY <2>1, <1>1, <1>2, <1>4 DEF Scoped
<1>6. \A d \in 1 .. n : d # DepthOf(fs[1]) =>
        \E i \in 1 .. Len(gs) : Closes(gs[i]) /\ DepthOf(gs[i]) = d
  <2> SUFFICES ASSUME NEW d \in 1 .. n, d # DepthOf(fs[1])
               PROVE  \E i \in 1 .. Len(gs) : Closes(gs[i]) /\ DepthOf(gs[i]) = d
    OBVIOUS
  <2>1. PICK i \in 1 .. Len(fs) : Closes(fs[i]) /\ DepthOf(fs[i]) = d
    BY <1>1 DEF Closed
  <2>2. i - 1 \in 1 .. Len(gs) /\ gs[i - 1] = fs[i]
    BY <2>1, <1>2
  <2> QED BY <2>1, <2>2
<1>7. DepthOf(fs[1]) = n
  <2> SUFFICES ASSUME DepthOf(fs[1]) # n
               PROVE  FALSE
    OBVIOUS
  <2>1. n \in 1 .. n
    BY <1>4
  <2>2. PICK i \in 1 .. Len(gs) : Closes(gs[i]) /\ DepthOf(gs[i]) = n
    BY <2>1, <1>6
  <2>3. n < DepthOf(fs[1])
    BY <2>2, <1>5
  <2> QED BY <2>3, <1>4
<1>8. \A i \in 1 .. Len(gs) : Closes(gs[i]) => DepthOf(gs[i]) \in 1 .. n - 1
  BY <1>3, <1>5, <1>7 DEF Scoped
<1>9. Scoped(gs, n - 1)
  BY <1>3, <1>8 DEF Scoped
<1>10. Closed(gs, n - 1)
  BY <1>6, <1>7 DEF Closed
<1> QED BY <1>2, <1>4, <1>9, <1>10 DEF Stack, gs

LEMMA NoneToClose ==
  ASSUME NEW S, NEW fs, fs = <<>>
  PROVE  Stack(S, fs, 0)
<1>1. fs \in Seq(S) /\ Len(fs) = 0
  OBVIOUS
<1> QED BY <1>1 DEF Stack, Scoped, Closed

\* Without a call to run there is nothing to close.
LEMMA NoneDue ==
  ASSUME NEW S, NEW fs, fs = <<>>, NEW n \in Nat, Stack(S, fs, n)
  PROVE  n = 0
<1>1. Len(fs) = 0
  OBVIOUS
<1>2. ~ (1 \in 1 .. n)
  BY <1>1 DEF Stack, Closed
<1> QED BY <1>2

LEMMA SeqWider ==
  ASSUME NEW S, NEW R, S \subseteq R, NEW s \in Seq(S)
  PROVE  s \in Seq(R)
<1>1. /\ Len(s) \in Nat /\ DOMAIN s = 1 .. Len(s)
      /\ \A i \in 1 .. Len(s) : s[i] \in R
  BY LenProperties, ElementOfSeq
<1>2. s = [i \in 1 .. Len(s) |-> s[i]]
  BY <1>1
<1> QED BY <1>1, <1>2

\* Frames of a larger set.
LEMMA Wider ==
  ASSUME NEW S, NEW R, S \subseteq R, NEW fs, NEW n, Stack(S, fs, n)
  PROVE  Stack(R, fs, n)
BY SeqWider DEF Stack

LEMMA TwoFrames ==
  ASSUME NEW S, NEW fs \in Seq(S), NEW f \in S, NEW g \in S
  PROVE  <<g>> \o fs \in Seq(S) /\ <<f, g>> \o fs = <<f>> \o (<<g>> \o fs)
<1>1. <<f>> \in Seq(S) /\ <<g>> \in Seq(S) /\ <<f, g>> \in Seq(S)
  OBVIOUS
<1>2. <<f, g>> = <<f>> \o <<g>>
  <2> DEFINE s == <<f>> \o <<g>>
  <2>1. s \in Seq(S) /\ Len(s) = 2
    BY <1>1, PushIndices
  <2>2. s[1] = f /\ s[2] = g
    BY <1>1, PushIndices
  <2> HIDE DEF s
  <2>3. s = <<f, g>>
    BY <2>1, <2>2
  <2> QED BY <2>3 DEF s
<1>3. (<<f>> \o <<g>>) \o fs = <<f>> \o (<<g>> \o fs)
  BY <1>1, ConcatAssociative
<1>4. <<g>> \o fs \in Seq(S)
  BY <1>1, ConcatProperties
<1> QED BY <1>2, <1>3, <1>4

LEMMA PushTwoPlain ==
  ASSUME NEW S, NEW fs \in Seq(S), NEW n \in Nat, Stack(S, fs, n),
         NEW f \in S, ~Closes(f), NEW g \in S, ~Closes(g)
  PROVE  Stack(S, <<f, g>> \o fs, n)
<1>1. <<g>> \o fs \in Seq(S) /\ <<f, g>> \o fs = <<f>> \o (<<g>> \o fs)
  BY TwoFrames
<1>2. Stack(S, <<g>> \o fs, n)
  BY PushPlain
<1> QED BY <1>1, <1>2, PushPlain

\* What is written in a layer, then what closes it.
LEMMA PushLayer ==
  ASSUME NEW S, NEW fs \in Seq(S), NEW n \in Nat, Stack(S, fs, n),
         NEW f \in S, ~Closes(f), NEW e \in S, Closes(e), DepthOf(e) = n + 1
  PROVE  Stack(S, <<f, e>> \o fs, n + 1)
<1>1. <<e>> \o fs \in Seq(S) /\ <<f, e>> \o fs = <<f>> \o (<<e>> \o fs)
  BY TwoFrames
<1>2. Stack(S, <<e>> \o fs, n + 1)
  BY PushCloser
<1>3. n + 1 \in Nat
  OBVIOUS
<1> QED BY <1>1, <1>2, <1>3, PushPlain

\* Three frames at once.
LEMMA ThreeFrames ==
  ASSUME NEW S, NEW fs \in Seq(S), NEW f \in S, NEW g \in S, NEW h \in S
  PROVE  <<g, h>> \o fs \in Seq(S) /\ <<f, g, h>> \o fs = <<f>> \o (<<g, h>> \o fs)
<1>1. <<f>> \in Seq(S) /\ <<g, h>> \in Seq(S)
  OBVIOUS
<1>2. <<f, g, h>> = <<f>> \o <<g, h>>
  OBVIOUS
<1>3. (<<f>> \o <<g, h>>) \o fs = <<f>> \o (<<g, h>> \o fs)
  BY <1>1, ConcatAssociative
<1>4. <<g, h>> \o fs \in Seq(S)
  BY <1>1, ConcatProperties
<1> QED BY <1>2, <1>3, <1>4

LEMMA PushThreePlain ==
  ASSUME NEW S, NEW fs \in Seq(S), NEW n \in Nat, Stack(S, fs, n),
         NEW f \in S, ~Closes(f), NEW g \in S, ~Closes(g), NEW h \in S, ~Closes(h)
  PROVE  Stack(S, <<f, g, h>> \o fs, n)
<1>1. <<g, h>> \o fs \in Seq(S) /\ <<f, g, h>> \o fs = <<f>> \o (<<g, h>> \o fs)
  BY ThreeFrames, SMTT(20)
<1>2. Stack(S, <<g, h>> \o fs, n)
  BY PushTwoPlain
<1> QED BY <1>1, <1>2, PushPlain

LEMMA PushTaggedLayer ==
  ASSUME NEW S, NEW fs \in Seq(S), NEW n \in Nat, Stack(S, fs, n),
         NEW f \in S, ~Closes(f), NEW g \in S, ~Closes(g),
         NEW e \in S, Closes(e), DepthOf(e) = n + 1
  PROVE  Stack(S, <<f, g, e>> \o fs, n + 1)
<1>1. <<g, e>> \o fs \in Seq(S) /\ <<f, g, e>> \o fs = <<f>> \o (<<g, e>> \o fs)
  BY ThreeFrames, SMTT(20)
<1>2. Stack(S, <<g, e>> \o fs, n + 1)
  BY PushLayer
<1>3. n + 1 \in Nat
  OBVIOUS
<1> QED BY <1>1, <1>2, <1>3, PushPlain

-----------------------------------------------------------------------------

LEMMA OctetsFacts ==
  ASSUME NEW v \in Seq(0 .. 255)
  PROVE  Octets(v) \in Seq(Cells)
<1>1. Len(v) \in Nat /\ \A i \in 1 .. Len(v) : v[i] \in 0 .. 255
  BY LenProperties, ElementOfSeq
<1>2. \A i \in 1 .. Len(v) : OctetCell(v[i]) \in Cells
  BY <1>1 DEF OctetCell, Cells
<1>3. Octets(v) \in [1 .. Len(v) -> Cells]
  BY <1>2 DEF Octets
<1> QED BY <1>1, <1>3

LEMMA WrappedFacts ==
  ASSUME NEW t \in Tags, NEW con \in BOOLEAN, NEW cells \in Seq(Cells)
  PROVE  Wrapped(t, con, cells) \in Seq(Cells)
<1>1. Len(cells) \in Nat
  BY LenProperties
<1>2. Header(t, Len(cells), con) \in Cells
  BY <1>1, Zenon DEF Header, Cells
<1>3. <<Header(t, Len(cells), con)>> \in Seq(Cells)
  BY <1>2
<1> QED BY <1>3, ConcatProperties DEF Wrapped

\* Whole values, and what makes them.
LEMMA CellFacts ==
  ASSUME NEW s \in Seq(Cells)
  PROVE  /\ Len(s) \in Nat /\ DOMAIN s = 1 .. Len(s)
         /\ \A i \in 1 .. Len(s) :
              s[i].is = "header" => s[i].len \in Nat /\ s[i].constructed \in BOOLEAN
         /\ HeadersOf(s) \subseteq 1 .. Len(s)
         /\ \A i \in HeadersOf(s) : s[i].is = "header" /\ s[i].len \in Nat
<1>1. Len(s) \in Nat /\ DOMAIN s = 1 .. Len(s) /\ \A i \in 1 .. Len(s) : s[i] \in Cells
  BY LenProperties, ElementOfSeq
<1>2. \A c \in Cells : c.is = "header" => c.len \in Nat /\ c.constructed \in BOOLEAN
  BY DEF Cells
<1> QED BY <1>1, <1>2 DEF HeadersOf

\* Nested and Whole, with the indices and the lengths where the provers see
\* them.
LEMMA NestedParts ==
  ASSUME NEW s \in Seq(Cells)
  PROVE  Nested(s) <=>
           /\ \A i, j \in 1 .. Len(s) :
                s[i].is = "header" /\ i < j /\ j <= i + s[i].len =>
                  IF s[i].constructed
                  THEN s[j].is = "header" => j + s[j].len <= i + s[i].len
                  ELSE s[j].is # "header"
           /\ \A j \in 1 .. Len(s) :
                s[j].is = "octet" =>
                  \E i \in 1 .. Len(s) :
                    /\ s[i].is = "header" /\ ~s[i].constructed
                    /\ i < j /\ j <= i + s[i].len
<1>1. DOMAIN s = 1 .. Len(s)
  BY CellFacts
<1> QED BY <1>1 DEF Nested, HeadersOf, LastOf

LEMMA WholeParts ==
  ASSUME NEW s \in Seq(Cells)
  PROVE  Whole(s) <=>
           /\ \A i, j \in 1 .. Len(s) :
                s[i].is = "header" /\ i < j /\ j <= i + s[i].len =>
                  IF s[i].constructed
                  THEN s[j].is = "header" => j + s[j].len <= i + s[i].len
                  ELSE s[j].is # "header"
           /\ \A j \in 1 .. Len(s) :
                s[j].is = "octet" =>
                  \E i \in 1 .. Len(s) :
                    /\ s[i].is = "header" /\ ~s[i].constructed
                    /\ i < j /\ j <= i + s[i].len
           /\ \A i \in 1 .. Len(s) : s[i].is # "stub"
           /\ \A i \in 1 .. Len(s) : s[i].is = "header" => i + s[i].len <= Len(s)
<1>1. DOMAIN s = 1 .. Len(s)
  BY CellFacts
<1> QED BY <1>1 DEF Whole, Nested, HeadersOf, LastOf

LEMMA WholeFrom ==
  ASSUME NEW s \in Seq(Cells), NEW n \in Nat, Len(s) = n,
         \A i \in 1 .. n : s[i].is # "stub",
         \A i \in 1 .. n : s[i].is = "header" => i + s[i].len <= n,
         \A j \in 1 .. n :
           s[j].is = "octet" =>
             \E i \in 1 .. n : /\ s[i].is = "header" /\ ~s[i].constructed
                               /\ i < j /\ j <= i + s[i].len,
         \A i, j \in 1 .. n :
           s[i].is = "header" /\ i < j /\ j <= i + s[i].len =>
             IF s[i].constructed
             THEN s[j].is = "header" => j + s[j].len <= i + s[i].len
             ELSE s[j].is # "header"
  PROVE  Whole(s)
BY WholeParts

LEMMA WholeNone == Whole(<<>>)
<1> DEFINE none == <<>>
<1>1. none \in Seq(Cells) /\ Len(none) = 0
  OBVIOUS
<1>2. \A i \in 1 .. Len(none) : FALSE
  BY <1>1
<1> HIDE DEF none
<1>3. Whole(none)
  BY <1>1, <1>2, WholeParts
<1> QED BY <1>3 DEF none

LEMMA Shifted ==
  ASSUME NEW i \in Nat, NEW j \in Nat, NEW m \in Nat, NEW x \in Nat, NEW y \in Nat,
         (j - m) + x <= (i - m) + y
  PROVE  j + x <= i + y
OBVIOUS

\* Values behind values.
LEMMA WholeConcat ==
  ASSUME NEW a \in Seq(Cells), NEW b \in Seq(Cells), Whole(a), Whole(b)
  PROVE  Whole(a \o b)
<1> DEFINE s == a \o b
           m == Len(a)
           n == Len(b)
<1>1. /\ s \in Seq(Cells) /\ Len(s) = m + n /\ m \in Nat /\ n \in Nat
      /\ \A i \in 1 .. m : s[i] = a[i]
      /\ \A i \in m + 1 .. m + n : s[i] = b[i - m]
  BY CellFacts, ConcatProperties
<1>2. \A i \in 1 .. m + n : i \in 1 .. m \/ (i \in m + 1 .. m + n /\ i - m \in 1 .. n)
  BY <1>1
<1>3. \A i \in 1 .. n : i + m \in m + 1 .. m + n /\ s[i + m] = b[i]
  BY <1>1
<1>4. \A i \in 1 .. m : a[i].is = "header" => a[i].len \in Nat
  BY CellFacts
<1>5. \A i \in 1 .. n : b[i].is = "header" => b[i].len \in Nat
  BY CellFacts
<1>ends. /\ \A i \in 1 .. m : a[i].is # "stub" /\ (a[i].is = "header" => i + a[i].len <= m)
        /\ \A i \in 1 .. n : b[i].is # "stub" /\ (b[i].is = "header" => i + b[i].len <= n)
  BY WholeParts
<1> HIDE DEF s, m, n
<1>6. ASSUME NEW i \in 1 .. m + n, s[i].is = "header"
      PROVE  i + s[i].len <= m + n
  <2>1. CASE i \in 1 .. m
    BY <2>1, <1>1, <1>4, <1>6, <1>ends
  <2>2. CASE i \in m + 1 .. m + n /\ i - m \in 1 .. n
    <3>1. s[i] = b[i - m]
      BY <2>2, <1>1
    <3>2. (i - m) + b[i - m].len <= n /\ b[i - m].len \in Nat
      BY <3>1, <2>2, <1>5, <1>6, <1>ends
    <3> QED BY <3>1, <3>2, <1>1, SMTT(20)
  <2> QED BY <2>1, <2>2, <1>2
<1>7. ASSUME NEW i \in 1 .. m + n
      PROVE  s[i].is # "stub"
  BY <1>1, <1>2, <1>ends
<1>8. ASSUME NEW j \in 1 .. m + n, s[j].is = "octet"
      PROVE  \E i \in 1 .. m + n : /\ s[i].is = "header" /\ ~s[i].constructed
                                   /\ i < j /\ j <= i + s[i].len
  <2>1. CASE j \in 1 .. m
    <3>1. PICK i \in 1 .. m : /\ a[i].is = "header" /\ ~a[i].constructed
                              /\ i < j /\ j <= i + a[i].len
      BY <1>1, <1>8, <2>1, WholeParts DEF m
    <3>2. i \in 1 .. m + n /\ s[i] = a[i]
      BY <1>1
    <3> QED BY <3>1, <3>2
  <2>2. CASE j \in m + 1 .. m + n /\ j - m \in 1 .. n
    <3>1. b[j - m].is = "octet"
      BY <1>1, <1>8, <2>2
    <3>2. PICK i \in 1 .. n : /\ b[i].is = "header" /\ ~b[i].constructed
                              /\ i < j - m /\ j - m <= i + b[i].len
      BY <3>1, <2>2, WholeParts DEF n
    <3>3. i + m \in 1 .. m + n /\ s[i + m] = b[i]
      BY <1>1, <1>3
    <3>4. i + m < j /\ j <= i + m + s[i + m].len
      BY <3>2, <3>3, <1>1, <1>5, SMTT(20)
    <3> QED BY <3>2, <3>3, <3>4
  <2> QED BY <2>1, <2>2, <1>2
<1>9. ASSUME NEW i \in 1 .. m + n, NEW j \in 1 .. m + n,
             s[i].is = "header", i < j, j <= i + s[i].len
      PROVE  IF s[i].constructed
             THEN s[j].is = "header" => j + s[j].len <= i + s[i].len
             ELSE s[j].is # "header"
  <2>1. CASE i \in 1 .. m
    <3>1. s[i] = a[i] /\ i + a[i].len <= m
      BY <1>1, <1>9, <2>1, WholeParts DEF m
    <3>2. j \in 1 .. m
      BY <3>1, <1>1, <1>4, <1>9, <2>1
    <3>3. s[j] = a[j]
      BY <3>2, <1>1
    <3> QED BY <3>1, <3>2, <3>3, <1>9, <2>1, WholeParts DEF m
  <2>2. CASE i \in m + 1 .. m + n /\ i - m \in 1 .. n
    <3>1. j \in m + 1 .. m + n /\ j - m \in 1 .. n
      BY <2>2, <1>1, <1>9
    <3>2. s[i] = b[i - m] /\ s[j] = b[j - m]
      BY <3>1, <2>2, <1>1
    <3>3. b[i - m].len \in Nat /\ (s[j].is = "header" => b[j - m].len \in Nat)
      BY <3>1, <3>2, <1>5, <1>9, <2>2
    <3>4. i - m < j - m /\ j - m <= (i - m) + b[i - m].len
      BY <3>1, <3>2, <3>3, <1>1, <1>9
    <3>5. IF b[i - m].constructed
          THEN b[j - m].is = "header" => (j - m) + b[j - m].len <= (i - m) + b[i - m].len
          ELSE b[j - m].is # "header"
      BY <3>1, <3>2, <3>4, <1>9, <2>2, WholeParts DEF n
    <3>6. ASSUME s[i].constructed, s[j].is = "header"
          PROVE  j + s[j].len <= i + s[i].len
      <4>1. (j - m) + b[j - m].len <= (i - m) + b[i - m].len
        BY <3>2, <3>5, <3>6
      <4>2. b[j - m].len \in Nat /\ b[i - m].len \in Nat /\ m \in Nat /\ i \in Nat /\ j \in Nat
        BY <3>3, <3>6, <1>1
      <4>3. j + b[j - m].len <= i + b[i - m].len
        BY <4>1, <4>2, Shifted
      <4> QED BY <4>3, <3>2
    <3>7. ~s[i].constructed => s[j].is # "header"
      BY <3>2, <3>5
    <3> QED BY <3>6, <3>7
  <2> QED BY <2>1, <2>2, <1>2
<1>10. Len(s) = m + n /\ s \in Seq(Cells)
  BY <1>1
<1>11. Whole(s)
  BY <1>6, <1>7, <1>8, <1>9, <1>10, WholeParts, SMTT(20)
<1> QED BY <1>11 DEF s

\* A header in front of cells.
LEMMA WrappedParts ==
  ASSUME NEW t \in Tags, NEW con \in BOOLEAN, NEW cells \in Seq(Cells)
  PROVE  LET s == Wrapped(t, con, cells)
             n == Len(cells)
         IN /\ s \in Seq(Cells) /\ Len(s) = n + 1 /\ n \in Nat
            /\ s[1].is = "header" /\ s[1].len = n /\ s[1].constructed = con
            /\ \A i \in 1 .. n + 1 : i = 1 \/ (i - 1 \in 1 .. n /\ s[i] = cells[i - 1])
<1> DEFINE n == Len(cells)
           h == Header(t, n, con)
<1>1. n \in Nat
  BY CellFacts
<1>2. h \in Cells
  BY <1>1, Zenon DEF Header, Cells
<1>3. h.is = "header" /\ h.len = n /\ h.constructed = con
  BY DEF Header
<1>4. Wrapped(t, con, cells) = <<h>> \o cells
  BY DEF Wrapped
<1> HIDE DEF h, n
<1>5. /\ <<h>> \o cells \in Seq(Cells) /\ Len(<<h>> \o cells) = n + 1
      /\ (<<h>> \o cells)[1] = h
      /\ \A i \in 1 .. n + 1 : i # 1 => i - 1 \in 1 .. n /\ (<<h>> \o cells)[i] = cells[i - 1]
  BY <1>2, PushIndices DEF n
<1> QED BY <1>1, <1>3, <1>4, <1>5 DEF n

\* A value of octets.
LEMMA WholePrimitive ==
  ASSUME NEW t \in Tags, NEW v \in Seq(0 .. 255)
  PROVE  Whole(Wrapped(t, FALSE, Octets(v)))
<1> DEFINE cells == Octets(v)
           s == Wrapped(t, FALSE, cells)
           n == Len(cells)
<1>1. cells \in Seq(Cells)
  BY OctetsFacts
<1>2. \A i \in 1 .. Len(v) : cells[i].is = "octet"
  BY DEF Octets, OctetCell
<1>3. n = Len(v)
  <2>1. Len(v) \in Nat /\ DOMAIN cells = 1 .. Len(v)
    BY LenProperties DEF Octets
  <2> HIDE DEF cells
  <2> QED BY <2>1, <1>1, LenProperties
<1>4. FALSE \in BOOLEAN
  BY Zenon
<1> HIDE DEF cells
<1>5. /\ s \in Seq(Cells) /\ Len(s) = n + 1 /\ n \in Nat
      /\ s[1].is = "header" /\ s[1].len = n /\ s[1].constructed = FALSE
      /\ \A i \in 1 .. n + 1 : i = 1 \/ (i - 1 \in 1 .. n /\ s[i] = cells[i - 1])
  BY <1>1, <1>4, WrappedParts
<1> HIDE DEF s, n
<1>6. \A i \in 1 .. n + 1 : i = 1 \/ s[i].is = "octet"
  BY <1>2, <1>3, <1>5
<1>7. /\ 1 \in 1 .. n + 1 /\ n + 1 \in Nat /\ ~s[1].constructed
      /\ \A j \in 1 .. n + 1 : j <= 1 + s[1].len
  BY <1>5
<1>8. Whole(s)
  <2>1. \A i \in 1 .. n + 1 : s[i].is # "stub" /\ (s[i].is = "header" => i = 1)
    BY <1>5, <1>6
  <2>2. \A j \in 1 .. n + 1 :
          s[j].is = "octet" =>
            \E i \in 1 .. n + 1 : /\ s[i].is = "header" /\ ~s[i].constructed
                                  /\ i < j /\ j <= i + s[i].len
    BY <1>5, <1>7
  <2>3. \A i \in 1 .. n + 1 : s[i].is = "header" => i + s[i].len <= n + 1
    BY <2>1, <1>5
  <2>4. \A i, j \in 1 .. n + 1 :
          s[i].is = "header" /\ i < j /\ j <= i + s[i].len =>
            ~s[i].constructed /\ s[j].is # "header"
    BY <2>1, <1>7
  <2> QED BY <2>1, <2>2, <2>3, <2>4, <1>5, <1>7, WholeFrom
<1> QED BY <1>8 DEF s, cells

\* A value of values.
LEMMA WholeConstructed ==
  ASSUME NEW t \in Tags, NEW cells \in Seq(Cells), Whole(cells)
  PROVE  Whole(Wrapped(t, TRUE, cells))
<1> DEFINE s == Wrapped(t, TRUE, cells)
           n == Len(cells)
<1>1. TRUE \in BOOLEAN
  BY Zenon
<1>2. /\ s \in Seq(Cells) /\ Len(s) = n + 1 /\ n \in Nat
      /\ s[1].is = "header" /\ s[1].len = n /\ s[1].constructed = TRUE
      /\ \A i \in 1 .. n + 1 : i = 1 \/ (i - 1 \in 1 .. n /\ s[i] = cells[i - 1])
  BY <1>1, WrappedParts
<1>3. /\ \A i, j \in 1 .. n :
           cells[i].is = "header" /\ i < j /\ j <= i + cells[i].len =>
             IF cells[i].constructed
             THEN cells[j].is = "header" => j + cells[j].len <= i + cells[i].len
             ELSE cells[j].is # "header"
      /\ \A j \in 1 .. n :
           cells[j].is = "octet" =>
             \E i \in 1 .. n : /\ cells[i].is = "header" /\ ~cells[i].constructed
                               /\ i < j /\ j <= i + cells[i].len
      /\ \A i \in 1 .. n : cells[i].is # "stub"
      /\ \A i \in 1 .. n : cells[i].is = "header" => i + cells[i].len <= n
  BY WholeParts
<1>4. \A i \in 1 .. n : cells[i].is = "header" => cells[i].len \in Nat
  BY CellFacts
<1> HIDE DEF s, n
<1>5. ASSUME NEW i \in 1 .. n
      PROVE  i + 1 \in 1 .. n + 1 /\ s[i + 1] = cells[i]
  BY <1>2
<1>6. ASSUME NEW i \in 1 .. n + 1
      PROVE  /\ s[i].is # "stub"
             /\ s[i].is = "header" => i + s[i].len <= n + 1
  <2>1. CASE i = 1
    BY <2>1, <1>2
  <2>2. CASE i - 1 \in 1 .. n /\ s[i] = cells[i - 1]
    <3>1. s[i].is = "header" => (i - 1) + cells[i - 1].len <= n /\ cells[i - 1].len \in Nat
      BY <2>2, <1>3, <1>4
    <3> QED BY <3>1, <2>2, <1>2, <1>3
  <2> QED BY <2>1, <2>2, <1>2
<1>7. ASSUME NEW j \in 1 .. n + 1, s[j].is = "octet"
      PROVE  \E i \in 1 .. n + 1 : /\ s[i].is = "header" /\ ~s[i].constructed
                                   /\ i < j /\ j <= i + s[i].len
  <2>1. j - 1 \in 1 .. n /\ s[j] = cells[j - 1]
    BY <1>2, <1>7
  <2>2. PICK i \in 1 .. n : /\ cells[i].is = "header" /\ ~cells[i].constructed
                            /\ i < j - 1 /\ j - 1 <= i + cells[i].len
    BY <2>1, <1>3, <1>7
  <2>3. i + 1 \in 1 .. n + 1 /\ s[i + 1] = cells[i] /\ cells[i].len \in Nat
    BY <2>2, <1>4, <1>5
  <2>4. i + 1 < j /\ j <= (i + 1) + s[i + 1].len
    BY <2>2, <2>3
  <2> QED BY <2>2, <2>3, <2>4
<1>8. ASSUME NEW i \in 1 .. n + 1, NEW j \in 1 .. n + 1,
             s[i].is = "header", i < j, j <= i + s[i].len
      PROVE  IF s[i].constructed
             THEN s[j].is = "header" => j + s[j].len <= i + s[i].len
             ELSE s[j].is # "header"
  <2>1. CASE i = 1
    BY <2>1, <1>2, <1>6
  <2>2. CASE i - 1 \in 1 .. n /\ s[i] = cells[i - 1]
    <3>1. j - 1 \in 1 .. n /\ s[j] = cells[j - 1]
      BY <2>2, <1>2, <1>8
    <3>2. /\ cells[i - 1].len \in Nat
          /\ s[j].is = "header" => cells[j - 1].len \in Nat
      BY <2>2, <3>1, <1>4, <1>8
    <3>3. i - 1 < j - 1 /\ j - 1 <= (i - 1) + cells[i - 1].len
      BY <3>2, <2>2, <1>8
    <3>4. IF cells[i - 1].constructed
          THEN cells[j - 1].is = "header" =>
                 (j - 1) + cells[j - 1].len <= (i - 1) + cells[i - 1].len
          ELSE cells[j - 1].is # "header"
      BY <3>1, <3>3, <2>2, <1>3, <1>8
    <3>5. ASSUME s[i].constructed, s[j].is = "header"
          PROVE  j + s[j].len <= i + s[i].len
      <4>1. (j - 1) + cells[j - 1].len <= (i - 1) + cells[i - 1].len
        BY <3>1, <3>4, <3>5, <2>2
      <4>2. cells[j - 1].len \in Nat /\ cells[i - 1].len \in Nat /\ i \in Nat /\ j \in Nat
        BY <3>1, <3>2, <3>5
      <4>3. j + cells[j - 1].len <= i + cells[i - 1].len
        BY <4>1, <4>2, Shifted
      <4> QED BY <4>3, <3>1, <2>2
    <3> QED BY <3>1, <3>4, <3>5, <2>2
  <2> QED BY <2>1, <2>2, <1>2
<1>9. Whole(s)
  <2>1. n + 1 \in Nat
    BY <1>2
  <2>2. \A i \in 1 .. n + 1 : s[i].is # "stub"
    BY <1>6
  <2>3. \A i \in 1 .. n + 1 : s[i].is = "header" => i + s[i].len <= n + 1
    BY <1>6
  <2>4. \A j \in 1 .. n + 1 :
          s[j].is = "octet" =>
            \E i \in 1 .. n + 1 : /\ s[i].is = "header" /\ ~s[i].constructed
                                  /\ i < j /\ j <= i + s[i].len
    BY <1>7
  <2>5. \A i, j \in 1 .. n + 1 :
          s[i].is = "header" /\ i < j /\ j <= i + s[i].len =>
            IF s[i].constructed
            THEN s[j].is = "header" => j + s[j].len <= i + s[i].len
            ELSE s[j].is # "header"
    BY <1>8
  <2> QED BY <2>1, <2>2, <2>3, <2>4, <2>5, <1>2, WholeFrom
<1> QED BY <1>9 DEF s

\* What stands behind a value, and behind the header of a value of values, is
\* no octet.
LEMMA BehindValue ==
  ASSUME NEW m \in Seq(Cells), Nested(m), NEW i \in 1 .. Len(m), m[i].is = "header",
         NEW j \in 1 .. Len(m), j = i + m[i].len + 1 \/ (m[i].constructed /\ j = i + 1)
  PROVE  m[j].is # "octet"
<1> SUFFICES ASSUME m[j].is = "octet"
             PROVE  FALSE
  OBVIOUS
<1>1. m[i].len \in Nat /\ i \in Nat /\ j \in Nat /\ i < j
  BY CellFacts
<1>2. PICK k \in 1 .. Len(m) : /\ m[k].is = "header" /\ ~m[k].constructed
                               /\ k < j /\ j <= k + m[k].len
  BY NestedParts
<1>3. m[k].len \in Nat /\ k \in Nat
  BY <1>2, CellFacts
<1>4. k # i
  BY <1>1, <1>2
<1>5. ~ (k < i)
  <2> SUFFICES ASSUME k < i
               PROVE  FALSE
    OBVIOUS
  <2>1. i <= k + m[k].len
    BY <1>1, <1>2, <1>3
  <2> QED BY <2>1, <1>2, NestedParts
<1>6. i < k /\ k <= i + m[i].len
  BY <1>1, <1>2, <1>3, <1>4, <1>5
<1>7. IF m[i].constructed THEN k + m[k].len <= i + m[i].len ELSE FALSE
  BY <1>2, <1>6, NestedParts
<1> QED BY <1>1, <1>2, <1>3, <1>6, <1>7

\* A message that lacks its end is values in values all the same, also when it
\* is cut inside a header: what the encoder writes is, however much of it gets
\* to the decoder.
THEOREM CutStaysNested ==
  ASSUME NEW s \in Seq(Cells), Nested(s), NEW n \in 0 .. Len(s)
  PROVE  /\ Nested(SubSeq(s, 1, n))
         /\ Nested(Append(SubSeq(s, 1, n), Stub))
<1> DEFINE c == SubSeq(s, 1, n)
           d == Append(c, Stub)
<1>1. Len(s) \in Nat /\ n \in Nat /\ n <= Len(s) /\ \A i \in 1 .. Len(s) : s[i] \in Cells
  BY CellFacts, ElementOfSeq
<1>2. c \in Seq(Cells) /\ Len(c) = n /\ \A i \in 1 .. n : c[i] = s[i] /\ i \in 1 .. Len(s)
  BY <1>1, SubSeqProperties
<1>3. Stub \in Cells /\ Stub.is = "stub"
  BY DEF Stub, Cells
<1> HIDE DEF c
<1>4. /\ d \in Seq(Cells) /\ Len(d) = n + 1 /\ d[n + 1] = Stub
      /\ \A i \in 1 .. n : d[i] = c[i]
  BY <1>2, <1>3, AppendProperties
<1>5. /\ \A i, j \in 1 .. n :
           s[i].is = "header" /\ i < j /\ j <= i + s[i].len =>
             IF s[i].constructed
             THEN s[j].is = "header" => j + s[j].len <= i + s[i].len
             ELSE s[j].is # "header"
      /\ \A j \in 1 .. n :
           s[j].is = "octet" =>
             \E i \in 1 .. n : /\ s[i].is = "header" /\ ~s[i].constructed
                               /\ i < j /\ j <= i + s[i].len
  <2>1. \A i, j \in 1 .. n :
          s[i].is = "header" /\ i < j /\ j <= i + s[i].len =>
            IF s[i].constructed
            THEN s[j].is = "header" => j + s[j].len <= i + s[i].len
            ELSE s[j].is # "header"
    BY <1>2, NestedParts
  <2>2. ASSUME NEW j \in 1 .. n, s[j].is = "octet"
        PROVE  \E i \in 1 .. n : /\ s[i].is = "header" /\ ~s[i].constructed
                                 /\ i < j /\ j <= i + s[i].len
    <3>1. PICK i \in 1 .. Len(s) : /\ s[i].is = "header" /\ ~s[i].constructed
                                   /\ i < j /\ j <= i + s[i].len
      BY <1>2, <2>2, NestedParts
    <3>2. i \in 1 .. n
      BY <3>1, <1>1
    <3> QED BY <3>1, <3>2
  <2> QED BY <2>1, <2>2
<1>6. Nested(c)
  <2>1. \A i, j \in 1 .. n :
          c[i].is = "header" /\ i < j /\ j <= i + c[i].len =>
            IF c[i].constructed
            THEN c[j].is = "header" => j + c[j].len <= i + c[i].len
            ELSE c[j].is # "header"
    BY <1>2, <1>5, SMTT(20)
  <2>2. ASSUME NEW j \in 1 .. n, c[j].is = "octet"
        PROVE  \E i \in 1 .. n : /\ c[i].is = "header" /\ ~c[i].constructed
                                 /\ i < j /\ j <= i + c[i].len
    <3>1. PICK i \in 1 .. n : /\ s[i].is = "header" /\ ~s[i].constructed
                              /\ i < j /\ j <= i + s[i].len
      BY <1>2, <1>5, <2>2
    <3> QED BY <3>1, <1>2
  <2> QED BY <2>1, <2>2, <1>2, NestedParts
<1> HIDE DEF d
<1>7. \A i \in 1 .. n + 1 : (i \in 1 .. n /\ d[i] = s[i]) \/ (i = n + 1 /\ d[i].is = "stub")
  BY <1>1, <1>2, <1>3, <1>4
<1>8. Nested(d)
  <2>1. \A i, j \in 1 .. n + 1 :
          d[i].is = "header" /\ i < j /\ j <= i + d[i].len =>
            IF d[i].constructed
            THEN d[j].is = "header" => j + d[j].len <= i + d[i].len
            ELSE d[j].is # "header"
    BY <1>5, <1>7
  <2>2. ASSUME NEW j \in 1 .. n + 1, d[j].is = "octet"
        PROVE  \E i \in 1 .. n + 1 : /\ d[i].is = "header" /\ ~d[i].constructed
                                     /\ i < j /\ j <= i + d[i].len
    <3>1. j \in 1 .. n /\ s[j].is = "octet"
      BY <1>7, <2>2
    <3>2. PICK i \in 1 .. n : /\ s[i].is = "header" /\ ~s[i].constructed
                              /\ i < j /\ j <= i + s[i].len
      BY <3>1, <1>5
    <3>3. i \in 1 .. n + 1 /\ d[i] = s[i]
      BY <1>2, <1>4
    <3> QED BY <3>2, <3>3
  <2> QED BY <2>1, <2>2, <1>4, NestedParts
<1> QED BY <1>6, <1>8 DEF c, d

-----------------------------------------------------------------------------

\* Induction over the natural numbers, of a set of them: the least number that
\* is not in it would be one more than one that is.
LEMMA SetInduction ==
  ASSUME NEW S, 0 \in S, \A n \in Nat : n \in S => n + 1 \in S
  PROVE  \A n \in Nat : n \in S
<1> SUFFICES ASSUME NEW x \in Nat, x \notin S
             PROVE  FALSE
  OBVIOUS
<1> DEFINE R == StrictSubsetOrdering(Nat)
           F == FiniteSubsetsOf(Nat)
           T == { 0 .. n : n \in { k \in Nat : k \notin S } }
<1>1. IsWellFoundedOn(R, F)
  BY FS_StrictSubsetOrderingWellFounded
<1>2. T \subseteq F
  <2> SUFFICES ASSUME NEW n \in Nat
               PROVE  0 .. n \in F
    OBVIOUS
  <2>1. IsFiniteSet(0 .. n)
    BY FS_Interval
  <2>2. 0 .. n \subseteq Nat
    OBVIOUS
  <2> QED BY <2>1, <2>2 DEF FiniteSubsetsOf
<1>3. 0 .. x \in T
  OBVIOUS
<1> HIDE DEF R, F
<1>4. PICK I \in T : \A J \in T : ~(<<J, I>> \in R)
  <2> HIDE DEF T
  <2>1. T # {}
    BY <1>3
  <2> QED BY <1>1, <1>2, <2>1, WFMin
<1>5. PICK m \in Nat : I = 0 .. m /\ m \notin S
  BY <1>4
<1>6. m # 0
  BY <1>5
<1>7. m - 1 \in Nat /\ m - 1 \notin S
  BY <1>5, <1>6
<1>8. 0 .. m - 1 \in T
  BY <1>7
<1>9. <<0 .. m - 1, I>> \in R
  <2>1. 0 .. m - 1 \subseteq I /\ 0 .. m - 1 # I
    BY <1>5
  <2>2. 0 .. m - 1 \in F /\ I \in F
    BY <1>8, <1>2, <1>4
  <2> QED BY <2>1, <2>2 DEF R, F, StrictSubsetOrdering, FiniteSubsetsOf
<1> QED BY <1>4, <1>8, <1>9

-----------------------------------------------------------------------------
(***************************************************************************)
(* Powers of two.                                                          *)
(***************************************************************************)

\* g is what TwoTo is up to n.
Doubling(g, n) == g[0] = 1 /\ \A k \in 0 .. n - 1 : g[k + 1] = 2 * g[k]

LEMMA DoublingExists ==
  \A n \in Nat : \E g \in [0 .. n -> Nat \ {0}] : Doubling(g, n)
<1> DEFINE S == { n \in Nat : \E g \in [0 .. n -> Nat \ {0}] : Doubling(g, n) }
<1>1. 0 \in S
  <2>1. [k \in 0 .. 0 |-> 1] \in [0 .. 0 -> Nat \ {0}]
    OBVIOUS
  <2>2. Doubling([k \in 0 .. 0 |-> 1], 0)
    BY DEF Doubling
  <2> QED BY <2>1, <2>2
<1>2. ASSUME NEW n \in Nat, n \in S
      PROVE  n + 1 \in S
  <2>1. PICK g \in [0 .. n -> Nat \ {0}] : Doubling(g, n)
    BY <1>2
  <2> DEFINE h == [k \in 0 .. n + 1 |-> IF k = n + 1 THEN 2 * g[n] ELSE g[k]]
  <2>2. h \in [0 .. n + 1 -> Nat \ {0}]
    OBVIOUS
  <2>3. h[0] = 1
    BY <2>1 DEF Doubling
  <2>4. ASSUME NEW k \in 0 .. n + 1 - 1
        PROVE  h[k + 1] = 2 * h[k]
    <3>1. CASE k = n
      BY <3>1
    <3>2. CASE k # n
      <4>1. k \in 0 .. n - 1 /\ k + 1 \in 0 .. n /\ k + 1 # n + 1 /\ k # n + 1
        BY <3>2
      <4>2. g[k + 1] = 2 * g[k]
        BY <4>1, <2>1 DEF Doubling
      <4> QED BY <4>1, <4>2
    <3> QED BY <3>1, <3>2
  <2> HIDE DEF h
  <2>5. Doubling(h, n + 1)
    BY <2>3, <2>4 DEF Doubling
  <2> QED BY <2>2, <2>5
<1> HIDE DEF S
<1>3. \A n \in Nat : n \in S
  BY <1>1, <1>2, SetInduction
<1> QED BY <1>3 DEF S

LEMMA DoublingUnique ==
  ASSUME NEW m \in Nat, NEW n \in Nat, NEW g, NEW h, Doubling(g, m), Doubling(h, n),
         NEW k \in Nat, k <= m, k <= n
  PROVE  g[k] = h[k]
<1> DEFINE S == { i \in Nat : i <= m /\ i <= n => g[i] = h[i] }
<1>1. 0 \in S
  BY DEF Doubling
<1>2. ASSUME NEW i \in Nat, i \in S
      PROVE  i + 1 \in S
  <2> SUFFICES ASSUME i + 1 <= m, i + 1 <= n
               PROVE  g[i + 1] = h[i + 1]
    OBVIOUS
  <2>1. i \in 0 .. m - 1 /\ i \in 0 .. n - 1
    OBVIOUS
  <2>2. g[i + 1] = 2 * g[i] /\ h[i + 1] = 2 * h[i] /\ g[i] = h[i]
    BY <2>1, <1>2 DEF Doubling
  <2> QED BY <2>2
<1> HIDE DEF S
<1>3. k \in S
  BY <1>1, <1>2, SetInduction
<1> QED BY <1>3 DEF S

LEMMA TwoToFacts ==
  /\ TwoTo[0] = 1
  /\ \A n \in Nat : TwoTo[n] \in Nat \ {0} /\ TwoTo[n + 1] = 2 * TwoTo[n]
<1> DEFINE G(n) == CHOOSE g \in [0 .. n -> Nat \ {0}] : Doubling(g, n)
           f == [n \in Nat |-> G(n)[n]]
<1>1. \A n \in Nat : G(n) \in [0 .. n -> Nat \ {0}] /\ Doubling(G(n), n)
  BY DoublingExists
<1> HIDE DEF G
<1>2. f[0] = 1
  BY <1>1 DEF Doubling
<1>3. ASSUME NEW n \in Nat
      PROVE  f[n] \in Nat \ {0} /\ f[n + 1] = 2 * f[n]
  <2>1. G(n)[n] \in Nat \ {0}
    BY <1>1
  <2>2. G(n + 1)[n] = G(n)[n]
    <3>1. Doubling(G(n + 1), n + 1) /\ Doubling(G(n), n) /\ n <= n + 1 /\ n + 1 \in Nat
      BY <1>1
    <3> QED BY <3>1, DoublingUnique
  <2>3. G(n + 1)[n + 1] = 2 * G(n + 1)[n]
    <3>1. n \in 0 .. (n + 1) - 1
      OBVIOUS
    <3> QED BY <3>1, <1>1 DEF Doubling
  <2> QED BY <2>1, <2>2, <2>3
<1> HIDE DEF f
<1>4. f = [n \in Nat |-> IF n = 0 THEN 1 ELSE 2 * f[n - 1]]
  <2>1. f = [n \in Nat |-> f[n]]
    BY DEF f
  <2>2. ASSUME NEW n \in Nat
        PROVE  f[n] = IF n = 0 THEN 1 ELSE 2 * f[n - 1]
    <3>1. CASE n = 0
      BY <3>1, <1>2
    <3>2. CASE n # 0
      <4>1. n - 1 \in Nat /\ (n - 1) + 1 = n
        BY <3>2
      <4>2. f[(n - 1) + 1] = 2 * f[n - 1]
        BY <4>1, <1>3
      <4> QED BY <4>1, <4>2, <3>2
    <3> QED BY <3>1, <3>2
  <2> QED BY <2>1, <2>2
<1>5. TwoTo = [n \in Nat |-> IF n = 0 THEN 1 ELSE 2 * TwoTo[n - 1]]
  BY <1>4 DEF TwoTo
<1> DEFINE S == { n \in Nat : TwoTo[n] = f[n] }
<1>6. 0 \in S
  BY <1>5, <1>2
<1>7. ASSUME NEW n \in Nat, n \in S
      PROVE  n + 1 \in S
  <2>1. TwoTo[n + 1] = 2 * TwoTo[n]
    <3>1. n + 1 \in Nat /\ n + 1 # 0 /\ (n + 1) - 1 = n
      OBVIOUS
    <3> QED BY <3>1, <1>5
  <2> QED BY <2>1, <1>3, <1>7
<1> HIDE DEF S
<1>8. \A n \in Nat : n \in S
  BY <1>6, <1>7, SetInduction
<1> QED BY <1>8, <1>2, <1>3 DEF S

LEMMA TwoToSum ==
  ASSUME NEW m \in Nat, NEW n \in Nat
  PROVE  TwoTo[m + n] = TwoTo[m] * TwoTo[n]
<1> DEFINE S == { k \in Nat : TwoTo[m + k] = TwoTo[m] * TwoTo[k] }
<1>1. 0 \in S
  BY TwoToFacts
<1>2. ASSUME NEW k \in Nat, k \in S
      PROVE  k + 1 \in S
  <2>1. TwoTo[(m + k) + 1] = 2 * TwoTo[m + k] /\ TwoTo[k + 1] = 2 * TwoTo[k]
    BY TwoToFacts
  <2>2. m + (k + 1) = (m + k) + 1
    OBVIOUS
  <2>3. TwoTo[m] \in Nat /\ TwoTo[k] \in Nat
    BY TwoToFacts
  <2>4. 2 * (TwoTo[m] * TwoTo[k]) = TwoTo[m] * (2 * TwoTo[k])
    BY <2>3
  <2> QED BY <2>1, <2>2, <2>4, <1>2
<1> HIDE DEF S
<1>3. n \in S
  BY <1>1, <1>2, SetInduction
<1> QED BY <1>3 DEF S

LEMMA TwoToGrows ==
  ASSUME NEW m \in Nat, NEW n \in Nat, m <= n
  PROVE  TwoTo[m] <= TwoTo[n]
<1>1. n - m \in Nat /\ m + (n - m) = n
  OBVIOUS
<1>2. TwoTo[n] = TwoTo[m] * TwoTo[n - m]
  BY <1>1, TwoToSum
<1>3. TwoTo[m] \in Nat \ {0} /\ TwoTo[n - m] \in Nat \ {0}
  BY <1>1, TwoToFacts
<1> QED BY <1>2, <1>3

LEMMA TwoToValues ==
  TwoTo[5] = 32 /\ TwoTo[7] = 128 /\ TwoTo[8] = 256
<1>1. TwoTo[1] = 2 /\ TwoTo[2] = 4 /\ TwoTo[3] = 8 /\ TwoTo[4] = 16
  <2>1. TwoTo[0 + 1] = 2 * TwoTo[0] /\ TwoTo[1 + 1] = 2 * TwoTo[1]
        /\ TwoTo[2 + 1] = 2 * TwoTo[2] /\ TwoTo[3 + 1] = 2 * TwoTo[3] /\ TwoTo[0] = 1
    BY TwoToFacts
  <2> QED BY <2>1
<1>2. TwoTo[5] = 32 /\ TwoTo[6] = 64 /\ TwoTo[7] = 128 /\ TwoTo[8] = 256
  <2>1. TwoTo[4 + 1] = 2 * TwoTo[4] /\ TwoTo[5 + 1] = 2 * TwoTo[5]
        /\ TwoTo[6 + 1] = 2 * TwoTo[6] /\ TwoTo[7 + 1] = 2 * TwoTo[7]
    BY TwoToFacts
  <2> QED BY <2>1, <1>1
<1> QED BY <1>2

-----------------------------------------------------------------------------
(***************************************************************************)
(* Quotients, and the highest bit of a number.                             *)
(***************************************************************************)

LEMMA Quotient ==
  ASSUME NEW a \in Nat, NEW b \in Nat \ {0}
  PROVE  /\ (a \div b) \in Nat /\ (a \div b) <= a
         /\ (a % b) \in 0 .. b - 1 /\ (a % b) \in Nat
         /\ (a \div b) * b + (a % b) = a
         /\ a < b => a \div b = 0
OBVIOUS

LEMMA QuotientIs ==
  ASSUME NEW a \in Int, NEW b \in Nat \ {0}, NEW c \in Int, b * c <= a, a < b * c + b
  PROVE  a \div b = c
OBVIOUS

\* Dividing by the factors one after the other.
LEMMA QuotientTwice ==
  ASSUME NEW v \in Nat, NEW p \in Nat \ {0}, NEW b \in Nat \ {0}
  PROVE  v \div (p * b) = (v \div p) \div b
<1>1. p * b \in Nat \ {0}
  OBVIOUS
<1>2. PICK q \in Nat : v \div p = q /\ p * q <= v /\ v < p * q + p
  OBVIOUS
<1>3. PICK c \in Nat, r \in 0 .. b - 1 : q = b * c + r /\ q \div b = c
  OBVIOUS
<1>4. p * q = (p * b) * c + p * r
  BY <1>3
<1>5. p * r + p <= p * b
  BY <1>3
<1>6. p * r >= 0
  BY <1>3
<1>7. (p * b) * c <= v /\ v < (p * b) * c + p * b
  BY <1>2, <1>4, <1>5, <1>6
<1> QED BY <1>1, <1>2, <1>3, <1>7

\* How many bits a number has.
HasBits(v, b) == v < TwoTo[b] /\ (b = 0 \/ TwoTo[b - 1] <= v)

LEMMA BitsExist ==
  ASSUME NEW v \in Nat, NEW n \in Nat, v < TwoTo[n]
  PROVE  \E b \in 0 .. n : HasBits(v, b)
<1> DEFINE S == { k \in Nat : TwoTo[k] <= v \/ \E b \in 0 .. k : HasBits(v, b) }
<1>1. 0 \in S
  BY TwoToFacts DEF HasBits
<1>2. ASSUME NEW k \in Nat, k \in S
      PROVE  k + 1 \in S
  <2>1. CASE \E b \in 0 .. k : HasBits(v, b)
    <3>1. PICK b \in 0 .. k : HasBits(v, b)
      BY <2>1
    <3>2. b \in 0 .. k + 1
      OBVIOUS
    <3> QED BY <3>1, <3>2
  <2>2. CASE TwoTo[k] <= v
    <3>1. TwoTo[k + 1] \in Nat
      BY TwoToFacts
    <3>2. CASE TwoTo[k + 1] <= v
      BY <3>2
    <3>3. CASE v < TwoTo[k + 1]
      <4>1. (k + 1) - 1 = k /\ k + 1 \in 0 .. k + 1
        OBVIOUS
      <4>2. HasBits(v, k + 1)
        BY <4>1, <3>3, <2>2 DEF HasBits
      <4> QED BY <4>1, <4>2
    <3> QED BY <3>1, <3>2, <3>3
  <2> QED BY <1>2, <2>1, <2>2
<1> HIDE DEF S
<1>3. n \in S
  BY <1>1, <1>2, SetInduction
<1>4. TwoTo[n] \in Nat
  BY TwoToFacts
<1> QED BY <1>3, <1>4 DEF S

LEMMA BitsSet ==
  ASSUME NEW v \in Nat, NEW b \in Nat, HasBits(v, b)
  PROVE  /\ \A k \in Nat : k >= b => ~IsSet(v, k)
         /\ b > 0 => IsSet(v, b - 1)
<1>1. ASSUME NEW k \in Nat, k >= b
      PROVE  ~IsSet(v, k)
  <2>1. TwoTo[b] <= TwoTo[k] /\ TwoTo[b] \in Nat /\ TwoTo[k] \in Nat \ {0}
    BY <1>1, TwoToGrows, TwoToFacts
  <2>2. v < TwoTo[k]
    BY <2>1 DEF HasBits
  <2>3. v \div TwoTo[k] = 0
    BY <2>1, <2>2
  <2> QED BY <2>3 DEF IsSet
<1>2. ASSUME b > 0
      PROVE  IsSet(v, b - 1)
  <2>1. b - 1 \in Nat /\ (b - 1) + 1 = b
    BY <1>2
  <2>2. TwoTo[b] = 2 * TwoTo[b - 1] /\ TwoTo[b - 1] \in Nat \ {0}
    BY <2>1, TwoToFacts
  <2>3. v < 2 * TwoTo[b - 1] /\ TwoTo[b - 1] <= v
    BY <2>2, <1>2 DEF HasBits
  <2>4. v \div TwoTo[b - 1] = 1
    BY <2>2, <2>3
  <2> QED BY <2>4 DEF IsSet
<1> QED BY <1>1, <1>2

\* The block of the highest bit, of a number without a sign.
BlockOf(v, size, block) == highest_bit_block(v, FALSE, size, block)

LEMMA HighestBlock ==
  ASSUME NEW v \in Nat, NEW size \in Nat \ {0}, v < TwoTo[size * 8], NEW block \in Nat \ {0},
         NEW h, h = BlockOf(v, size, block)
  PROVE  /\ h \in Nat /\ h * block < size * 8
         /\ v < TwoTo[(h + 1) * block]
         /\ h > 0 => TwoTo[h * block] <= v
<1> DEFINE set == { n \in 0 .. size * 8 - 1 : IsSet(v, n) }
<1>1. size * 8 \in Nat /\ size * 8 > 0
  OBVIOUS
<1>2. PICK b \in 0 .. size * 8 : HasBits(v, b)
  BY <1>1, BitsExist
<1>3. /\ \A k \in Nat : k >= b => ~IsSet(v, k)
      /\ b > 0 => IsSet(v, b - 1)
  BY <1>2, BitsSet
<1>4. CASE b = 0
  <2>1. set = {}
    BY <1>3, <1>4
  <2>2. h = 0
    BY <2>1 DEF highest_bit_block, BlockOf
  <2>3. v < TwoTo[0] /\ TwoTo[0] <= TwoTo[block] /\ TwoTo[0] \in Nat /\ TwoTo[block] \in Nat
    BY <1>2, <1>4, TwoToGrows, TwoToFacts DEF HasBits
  <2>4. (0 + 1) * block = block /\ 0 * block = 0
    OBVIOUS
  <2> QED BY <2>2, <2>3, <2>4, <1>1
<1>5. CASE b > 0
  <2>1. b - 1 \in set /\ \A k \in set : k <= b - 1
    BY <1>1, <1>3, <1>5
  <2> DEFINE top == CHOOSE n \in set : \A k \in set : k <= n
  <2>2. top \in set /\ \A k \in set : k <= top
    BY <2>1
  <2>3. top = b - 1
    <3> HIDE DEF top
    <3>1. top \in Nat /\ top <= b - 1 /\ b - 1 <= top
      BY <2>1, <2>2
    <3> QED BY <3>1
  <2>4. h = (b - 1) \div block
    <3>1. set # {}
      BY <2>1
    <3>2. h = IF 1 + top = 0 THEN 0 ELSE ((1 + top) - 1) \div block
      BY <3>1 DEF highest_bit_block, BlockOf
    <3> HIDE DEF top
    <3>3. 1 + top # 0 /\ (1 + top) - 1 = b - 1
      BY <2>3, <1>5
    <3> QED BY <3>2, <3>3
  <2> HIDE DEF set, top
  <2>5. b - 1 \in Nat
    BY <1>5
  <2>6. h \in Nat /\ block * h <= b - 1 /\ b - 1 < block * h + block
    BY <2>4, <2>5
  <2>7. h * block = block * h /\ (h + 1) * block = block * h + block
    BY <2>6
  <2>8. b <= (h + 1) * block /\ h * block <= b - 1 /\ h * block \in Nat /\ (h + 1) * block \in Nat
    BY <2>6, <2>7
  <2>9. TwoTo[b] <= TwoTo[(h + 1) * block] /\ TwoTo[h * block] <= TwoTo[b - 1]
    BY <2>5, <2>8, TwoToGrows
  <2>10. v < TwoTo[b] /\ TwoTo[b - 1] <= v
    BY <1>2, <1>5 DEF HasBits
  <2>11. TwoTo[b] \in Nat /\ TwoTo[b - 1] \in Nat /\ TwoTo[(h + 1) * block] \in Nat
         /\ TwoTo[h * block] \in Nat
    BY <2>5, <2>8, TwoToFacts
  <2>12. h * block < size * 8
    BY <2>8, <1>2
  <2> QED BY <2>6, <2>9, <2>10, <2>11, <2>12
<1> QED BY <1>2, <1>4, <1>5

-----------------------------------------------------------------------------
(***************************************************************************)
(* The digits of a word, and the word of its digits.                       *)
(***************************************************************************)

LEMMA WordFacts ==
  /\ WordBits \in Nat /\ WordBits > 0 /\ WordBits = WordOctets * 8
  /\ WordOctets \in Nat \ {0}
  /\ \A n \in Nat : n < TwoTo[WordBits] => Word(n) = n
<1>1. /\ WordBits \in Nat /\ WordBits > 0 /\ WordBits = WordOctets * 8
      /\ WordOctets \in Nat \ {0}
  BY DerOctetsAssumption DEF DerOctetsAssumption, WordBits
<1>2. TwoTo[WordBits] \in Nat \ {0}
  BY <1>1, TwoToFacts
<1>3. \A n \in Nat : n < TwoTo[WordBits] => Word(n) = n
  BY <1>2 DEF Word
<1> QED BY <1>1, <1>3

\* What the digits up to each of them have shifted in.
ShiftsIn(value, digits, base) ==
  /\ value[0] = 0
  /\ \A i \in 1 .. Len(digits) : value[i] = Word(value[i - 1] * base + digits[i])

LEMMA ShiftedInFacts ==
  ASSUME NEW digits, NEW base, Len(digits) \in Nat
  PROVE  \E value : ShiftsIn(value, digits, base) /\ ShiftedIn(digits, base) = value[Len(digits)]
<1> DEFINE Body(f, n) ==
      [i \in 0 .. n |-> IF i = 0 THEN 0 ELSE Word(f[i - 1] * base + digits[i])]
           S == { n \in Nat : \E f : f = Body(f, n) }
<1>1. 0 \in S
  <2> DEFINE f == [i \in 0 .. 0 |-> 0]
  <2>1. f = Body(f, 0)
    OBVIOUS
  <2> QED BY <2>1
<1>2. ASSUME NEW n \in Nat, n \in S
      PROVE  n + 1 \in S
  <2>1. PICK f : f = Body(f, n)
    BY <1>2
  <2> DEFINE g == [i \in 0 .. n + 1 |->
                     IF i = n + 1 THEN Word(f[n] * base + digits[n + 1]) ELSE f[i]]
  <2>2. ASSUME NEW i \in 0 .. n + 1
        PROVE  g[i] = IF i = 0 THEN 0 ELSE Word(g[i - 1] * base + digits[i])
    <3>1. CASE i = 0
      <4>1. f[0] = 0
        BY <2>1
      <4>2. 0 # n + 1 /\ 0 \in 0 .. n + 1
        OBVIOUS
      <4> QED BY <3>1, <4>1, <4>2
    <3>2. CASE i = n + 1
      <4>1. i - 1 = n /\ n \in 0 .. n + 1 /\ n # n + 1 /\ i # 0
        BY <3>2
      <4>2. g[i - 1] = f[n]
        BY <4>1
      <4> QED BY <4>1, <4>2, <3>2
    <3>3. CASE i # 0 /\ i # n + 1
      <4>1. i \in 0 .. n /\ i - 1 \in 0 .. n + 1 /\ i - 1 # n + 1
        BY <3>3
      <4>2. f[i] = Word(f[i - 1] * base + digits[i])
        <5>1. Body(f, n)[i] = Word(f[i - 1] * base + digits[i])
          BY <3>3, <4>1
        <5> QED BY <5>1, <2>1
      <4>3. g[i] = f[i] /\ g[i - 1] = f[i - 1]
        BY <3>3, <4>1
      <4> QED BY <3>3, <4>2, <4>3
    <3> QED BY <3>1, <3>2, <3>3
  <2>3. g = [i \in 0 .. n + 1 |-> g[i]]
    OBVIOUS
  <2> HIDE DEF g
  <2>4. g = Body(g, n + 1)
    BY <2>2, <2>3
  <2> QED BY <2>4
<1> HIDE DEF S
<1>3. \A n \in Nat : n \in S
  BY <1>1, <1>2, SetInduction
<1> DEFINE n == Len(digits)
<1>4. \E f : f = Body(f, n)
  BY <1>3 DEF S
<1> DEFINE value == CHOOSE f : f = Body(f, n)
<1>5. value = Body(value, n)
  BY <1>4
<1>6. ShiftedIn(digits, base) = value[n]
  BY DEF ShiftedIn
<1> HIDE DEF value
<1>7. ShiftsIn(value, digits, base)
  <2>1. value[0] = 0
    BY <1>5
  <2>2. ASSUME NEW i \in 1 .. Len(digits)
        PROVE  value[i] = Word(value[i - 1] * base + digits[i])
    <3>1. i \in 0 .. n /\ i # 0
      OBVIOUS
    <3>2. Body(value, n)[i] = Word(value[i - 1] * base + digits[i])
      BY <3>1
    <3> QED BY <3>2, <1>5
  <2> QED BY <2>1, <2>2 DEF ShiftsIn
<1> QED BY <1>6, <1>7

LEMMA ShiftedInWord ==
  ASSUME NEW digits, NEW base \in Nat, Len(digits) \in Nat,
         \A i \in 1 .. Len(digits) : digits[i] \in Nat
  PROVE  ShiftedIn(digits, base) \in Nat
<1>1. PICK n \in Nat : Len(digits) = n
  OBVIOUS
<1>2. PICK value : ShiftsIn(value, digits, base) /\ ShiftedIn(digits, base) = value[n]
  BY <1>1, ShiftedInFacts
<1> DEFINE S == { i \in Nat : i <= n => value[i] \in Nat }
<1>3. 0 \in S
  BY <1>2 DEF ShiftsIn
<1>4. ASSUME NEW i \in Nat, i \in S
      PROVE  i + 1 \in S
  <2> SUFFICES ASSUME i + 1 <= n
               PROVE  value[i + 1] \in Nat
    OBVIOUS
  <2>1. i + 1 \in 1 .. n /\ (i + 1) - 1 = i
    OBVIOUS
  <2>2. value[i + 1] = Word(value[i] * base + digits[i + 1])
    BY <1>1, <1>2, <2>1 DEF ShiftsIn
  <2>3. PICK x \in Nat : value[i] * base + digits[i + 1] = x
    <3>1. value[i] \in Nat /\ digits[i + 1] \in Nat
      BY <1>1, <1>4, <2>1
    <3>2. \A a, b \in Nat : a * base + b \in Nat
      OBVIOUS
    <3> QED BY <3>1, <3>2
  <2>4. PICK m \in Nat \ {0} : TwoTo[WordBits] = m
    BY WordFacts, TwoToFacts
  <2>5. Word(x) = x % m
    BY <2>4 DEF Word
  <2>6. x % m \in Nat
    OBVIOUS
  <2> QED BY <2>2, <2>3, <2>5, <2>6
<1> HIDE DEF S
<1>5. n \in S
  BY <1>3, <1>4, SetInduction
<1> QED BY <1>2, <1>5 DEF S

\* The digits of a word put together are the word.
LEMMA DigitsTogether ==
  ASSUME NEW v \in Nat, v < TwoTo[WordBits],
         NEW block \in Nat \ {0}, NEW n \in Nat, v < TwoTo[n * block],
         NEW digits, Len(digits) = n,
         \A i \in 1 .. n : digits[i] = (v \div TwoTo[(n - i) * block]) % TwoTo[block]
  PROVE  ShiftedIn(digits, TwoTo[block]) = v
<1> DEFINE base == TwoTo[block]
<1>1. base \in Nat \ {0}
  BY TwoToFacts
<1>2. PICK value : ShiftsIn(value, digits, base) /\ ShiftedIn(digits, base) = value[n]
  BY ShiftedInFacts
<1> DEFINE S == { i \in Nat : i <= n => value[i] = v \div TwoTo[(n - i) * block] }
<1>3. 0 \in S
  <2>1. n * block \in Nat /\ (n - 0) * block = n * block
    OBVIOUS
  <2>2. TwoTo[n * block] \in Nat \ {0}
    BY <2>1, TwoToFacts
  <2>3. v \div TwoTo[n * block] = 0
    BY <2>2, Quotient, Zenon
  <2> QED BY <2>1, <2>3, <1>2 DEF ShiftsIn
<1>4. ASSUME NEW i \in Nat, i \in S
      PROVE  i + 1 \in S
  <2> SUFFICES ASSUME i + 1 <= n
               PROVE  value[i + 1] = v \div TwoTo[(n - (i + 1)) * block]
    OBVIOUS
  <2>1. i + 1 \in 1 .. n /\ (i + 1) - 1 = i
    OBVIOUS
  <2> DEFINE p == TwoTo[(n - (i + 1)) * block]
             q == v \div p
  <2>2. (n - (i + 1)) * block \in Nat /\ (n - i) * block = (n - (i + 1)) * block + block
    <3>1. PICK m \in Nat : n - (i + 1) = m /\ n - i = m + 1
      BY <2>1
    <3> QED BY <3>1
  <2>3. p \in Nat \ {0}
    BY <2>2, TwoToFacts
  <2>4. TwoTo[(n - i) * block] = p * base
    BY <2>2, TwoToSum
  <2>5. value[i] = q \div base
    <3>1. value[i] = v \div TwoTo[(n - i) * block]
      BY <1>4, <2>1
    <3>2. v \div (p * base) = q \div base
      BY <2>3, <1>1, QuotientTwice, ZenonT(30)
    <3> QED BY <3>1, <3>2, <2>4, Zenon
  <2>6. value[i + 1] = Word(value[i] * base + digits[i + 1])
    BY <1>2, <2>1 DEF ShiftsIn
  <2>7. digits[i + 1] = q % base
    BY <2>1
  <2> HIDE DEF p
  <2>8. q \in Nat /\ q <= v
    BY <2>3, Quotient, Zenon
  <2> HIDE DEF q, base
  <2>9. (q \div base) * base + (q % base) = q
    BY <2>8, <1>1, Quotient, Zenon
  <2>10. q < TwoTo[WordBits]
    <3>1. TwoTo[WordBits] \in Nat
      BY WordFacts, TwoToFacts
    <3> QED BY <3>1, <2>8
  <2>11. Word(q) = q
    BY <2>8, <2>10, WordFacts
  <2> QED BY <2>5, <2>6, <2>7, <2>9, <2>11 DEF p, q
<1> HIDE DEF S
<1>5. n \in S
  BY <1>3, <1>4, SetInduction
<1>6. value[n] = v \div TwoTo[(n - n) * block]
  BY <1>5 DEF S
<1>7. (n - n) * block = 0 /\ v \div 1 = v
  OBVIOUS
<1> QED BY <1>2, <1>6, <1>7, TwoToFacts

\* A word without a sign as octets, or as digits of another size.
OctetsOf(v, block) == encode_to_octets(v, WordOctets, FALSE, block)

\* They are as few as can be, and put together they are the word.
LEMMA OctetsOfFacts ==
  ASSUME NEW v \in Nat, v < TwoTo[WordBits], NEW block \in Nat \ {0},
         NEW e, e = OctetsOf(v, block)
  PROVE  /\ Len(e) \in Nat /\ Len(e) >= 1 /\ (Len(e) - 1) * block < WordBits
         /\ e \in [1 .. Len(e) -> 0 .. TwoTo[block] - 1]
         /\ e \in Seq(Nat)
         /\ ShiftedIn(e, TwoTo[block]) = v
<1> DEFINE h == BlockOf(v, WordOctets, block)
<1>1. /\ h \in Nat /\ h * block < WordBits
      /\ v < TwoTo[(h + 1) * block]
  BY WordFacts, HighestBlock
<1>2. e = [i \in 1 .. h + 1 |-> bits_from_position(v, ((h + 1) - i) * block, block)]
  BY Zenon DEF OctetsOf, encode_to_octets, BlockOf
<1> HIDE DEF h
<1>3. TwoTo[block] \in Nat \ {0}
  BY TwoToFacts
<1>4. ASSUME NEW i \in 1 .. h + 1
      PROVE  /\ bits_from_position(v, ((h + 1) - i) * block, block)
                  = (v \div TwoTo[((h + 1) - i) * block]) % TwoTo[block]
             /\ (v \div TwoTo[((h + 1) - i) * block]) % TwoTo[block] \in 0 .. TwoTo[block] - 1
  <2>1. PICK m \in Nat : (h + 1) - i = m /\ m <= h
    BY <1>1
  <2>2. m * block \in Nat /\ m * block <= h * block
    BY <2>1, <1>1
  <2>3. m * block < WordBits
    BY <2>2, <1>1, WordFacts
  <2>4. TwoTo[m * block] \in Nat \ {0}
    BY <2>2, TwoToFacts
  <2>5. v \div TwoTo[m * block] \in Nat
    BY <2>4, Quotient, Zenon
  <2>6. (v \div TwoTo[m * block]) % TwoTo[block] \in 0 .. TwoTo[block] - 1
    BY <2>5, <1>3, Quotient, Zenon
  <2>7. bits_from_position(v, m * block, block) = (v \div TwoTo[m * block]) % TwoTo[block]
    BY <2>3 DEF bits_from_position
  <2> QED BY <2>1, <2>6, <2>7
<1>5. e \in [1 .. h + 1 -> 0 .. TwoTo[block] - 1]
  BY <1>2, <1>4
<1>6. Len(e) = h + 1 /\ e \in Seq(Nat)
  <2>1. PICK n \in Nat : n = h + 1
    BY <1>1
  <2>2. e \in [1 .. n -> Nat]
    BY <2>1, <1>5, <1>3
  <2>3. e \in Seq(Nat) /\ Len(e) = n
    BY <2>2
  <2> QED BY <2>1, <2>3
<1>7. ShiftedIn(e, TwoTo[block]) = v
  <2>1. \A i \in 1 .. h + 1 : e[i] = (v \div TwoTo[((h + 1) - i) * block]) % TwoTo[block]
    BY <1>2, <1>4
  <2>2. PICK n \in Nat : n = h + 1
    BY <1>1
  <2>3. /\ v < TwoTo[n * block] /\ Len(e) = n
        /\ \A i \in 1 .. n : e[i] = (v \div TwoTo[(n - i) * block]) % TwoTo[block]
    BY <2>1, <2>2, <1>1, <1>6, Zenon
  <2> QED BY <2>3, DigitsTogether
<1>8. Len(e) - 1 = h
  BY <1>1, <1>6
<1> QED BY <1>1, <1>5, <1>6, <1>7, <1>8
=============================================================================
