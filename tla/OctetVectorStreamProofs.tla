----------------------- MODULE OctetVectorStreamProofs -----------------------
(***************************************************************************)
(* The vector and the two streams over it are a queue of octets, however   *)
(* large the vector grows and whatever is written and read.                *)
(***************************************************************************)
EXTENDS OctetVectorStream, SequenceTheorems, TLAPS

\* The input stream follows the output stream: what can be read is what has
\* been written, in the memory where it is now.
InStep == data = "vec" /\ size = write_pos

Inv == TypeOK /\ InStep

\* What has been written.
Log == SubSeq(vec, 1, write_pos)

-----------------------------------------------------------------------------

LEMMA StringFacts ==
  ASSUME NEW s \in Strings
  PROVE  s \in Seq(Octets) /\ Len(s) \in Nat
BY DEF Strings

LEMMA PrefixFacts ==
  ASSUME NEW v \in Seq(Octets), NEW n \in Nat, n <= Len(v)
  PROVE  /\ SubSeq(v, 1, n) \in Seq(Octets) /\ Len(SubSeq(v, 1, n)) = n
         /\ \A i \in 1 .. n : SubSeq(v, 1, n)[i] = v[i]
<1>1. \A i \in 1 .. n : v[i] \in Octets
  OBVIOUS
<1>2. /\ SubSeq(v, 1, n) \in Seq(Octets)
      /\ Len(SubSeq(v, 1, n)) = IF 1 <= n THEN n - 1 + 1 ELSE 0
      /\ \A i \in 1 .. n - 1 + 1 : SubSeq(v, 1, n)[i] = v[1 + i - 1]
  BY <1>1, SubSeqProperties
<1> QED BY <1>2

LEMMA LogFacts ==
  ASSUME Inv
  PROVE  /\ Log \in Seq(Octets) /\ Len(Log) = write_pos
         /\ \A i \in 1 .. write_pos : Log[i] = vec[i]
BY PrefixFacts DEF Log, Inv, TypeOK

\* Writing puts s behind what has been written, also where the vector reaches
\* further.
LEMMA WriteFacts ==
  ASSUME Inv, NEW s \in Strings, Write(s)
  PROVE  /\ vec' \in Seq(Octets) /\ write_pos' = write_pos + Len(s)
         /\ write_pos' \in Nat /\ write_pos' <= Len(vec')
         /\ \A i \in 1 .. write_pos : vec'[i] = vec[i]
         /\ \A i \in 1 .. Len(s) : vec'[write_pos + i] = s[i]
<1>1. vec \in Seq(Octets) /\ write_pos \in Nat /\ write_pos <= Len(vec) /\ Len(vec) \in Nat
  BY DEF Inv, TypeOK
<1>2. s \in Seq(Octets) /\ Len(s) \in Nat
  BY StringFacts
<1>3. write_pos' = write_pos + Len(s) /\ write_pos' \in Nat
  BY <1>1, <1>2 DEF Write
<1>4. CASE s = <<>>
  BY <1>1, <1>3, <1>4 DEF Write
<1>5. CASE s # <<>>
  <2> DEFINE n == IF write_pos + Len(s) > Len(vec) THEN write_pos + Len(s) ELSE Len(vec)
  <2>1. n \in Nat /\ n >= Len(vec) /\ n >= write_pos + Len(s)
    BY <1>1, <1>2
  <2>2. vec' = [i \in 1 .. n |-> IF i \in write_pos + 1 .. write_pos + Len(s)
                                 THEN s[i - write_pos] ELSE vec[i]]
    BY <1>5, Zenon DEF Write, Overwritten
  <2> HIDE DEF n
  <2>3. \A i \in 1 .. n : i \in write_pos + 1 .. write_pos + Len(s) => s[i - write_pos] \in Octets
    BY <1>1, <1>2, <2>1
  <2>4. \A i \in 1 .. n : i \notin write_pos + 1 .. write_pos + Len(s) => vec[i] \in Octets
    <3> SUFFICES ASSUME NEW i \in 1 .. n, i \notin write_pos + 1 .. write_pos + Len(s)
                 PROVE  i \in 1 .. Len(vec)
      BY <1>1
    <3> QED BY <1>1, <1>2, <2>1 DEF n
  <2>5. vec' \in Seq(Octets) /\ Len(vec') = n
    BY <2>1, <2>2, <2>3, <2>4
  <2>6. \A i \in 1 .. write_pos : vec'[i] = vec[i]
    BY <1>1, <1>2, <2>1, <2>2
  <2>7. \A i \in 1 .. Len(s) : vec'[write_pos + i] = s[i]
    BY <1>1, <1>2, <2>1, <2>2
  <2> QED BY <1>3, <2>1, <2>5, <2>6, <2>7
<1> QED BY <1>4, <1>5

LEMMA InitInv ==
  ASSUME Init
  PROVE  Inv
BY StringFacts DEF Init, Inv, TypeOK, InStep

LEMMA NextInv ==
  ASSUME Inv, [Next]_vars
  PROVE  Inv'
<1>1. ASSUME NEW s \in Strings, Write(s)
      PROVE  Inv'
  <2>1. vec' \in Seq(Octets) /\ write_pos' \in Nat /\ write_pos' <= Len(vec')
        /\ write_pos' = write_pos + Len(s)
    BY <1>1, WriteFacts
  <2>2. size' = write_pos' /\ data' = "vec" /\ read_pos' = read_pos
    BY <1>1 DEF Write
  <2>3. read_pos \in Nat /\ read_pos <= write_pos /\ write_pos \in Nat /\ Len(s) \in Nat
    BY StringFacts DEF Inv, TypeOK, InStep
  <2> QED BY <2>1, <2>2, <2>3 DEF Inv, TypeOK, InStep
<1>2. ASSUME NEW n \in 1 .. MaxCall, Read(n)
      PROVE  Inv'
  BY <1>2, OctetVectorStreamAssumption DEF Read, Inv, TypeOK, InStep
<1>3. ASSUME NEW n \in 1 .. MaxCall, ReadFails(n)
      PROVE  Inv'
  BY <1>3 DEF ReadFails, Inv, TypeOK, InStep
<1>4. CASE UNCHANGED vars
  BY <1>4 DEF vars, Inv, TypeOK, InStep
<1> QED BY <1>1, <1>2, <1>3, <1>4 DEF Next

\* However reads and writes follow each other, the read position stays within
\* what has been written and the writing position within the vector
\* (octet_vector_stream.cpp:18-50).
THEOREM TypeInvariance == Spec => []TypeOK
<1>1. Init => Inv
  BY InitInv
<1>2. Inv /\ [Next]_vars => Inv'
  BY NextInv
<1>3. Inv => TypeOK
  BY DEF Inv
<1> QED BY <1>1, <1>2, <1>3, PTL DEF Spec

-----------------------------------------------------------------------------

LEMMA InitImplements ==
  ASSUME Init
  PROVE  Q!Init
<1>1. Log \in Seq(Octets)
  BY InitInv, LogFacts
<1> QED BY <1>1 DEF Init, Log, None, Q!Init, Q!None

LEMMA WriteImplements ==
  ASSUME Inv, NEW s \in Strings, Write(s)
  PROVE  Q!Write(s)
<1>1. Log \in Seq(Octets) /\ Len(Log) = write_pos /\ s \in Seq(Octets) /\ Len(s) \in Nat
      /\ \A i \in 1 .. write_pos : Log[i] = vec[i]
  BY LogFacts, StringFacts
<1>2. Inv'
  BY NextInv DEF Next
<1>3. /\ Log' \in Seq(Octets) /\ Len(Log') = write_pos'
      /\ \A i \in 1 .. write_pos' : Log'[i] = vec'[i]
  BY <1>2, PrefixFacts DEF Log, Inv, TypeOK
<1>4. /\ write_pos' = write_pos + Len(s) /\ write_pos \in Nat
      /\ \A i \in 1 .. write_pos : vec'[i] = vec[i]
      /\ \A i \in 1 .. Len(s) : vec'[write_pos + i] = s[i]
  BY WriteFacts DEF Inv, TypeOK
<1>5. /\ Log \o s \in Seq(Octets) /\ Len(Log \o s) = write_pos + Len(s)
      /\ \A i \in 1 .. write_pos + Len(s) :
           (Log \o s)[i] = IF i <= write_pos THEN Log[i] ELSE s[i - write_pos]
  BY <1>1, ConcatProperties
<1>6. \A i \in 1 .. Len(Log') : Log'[i] = (Log \o s)[i]
  <2> SUFFICES ASSUME NEW i \in 1 .. write_pos + Len(s)
               PROVE  vec'[i] = IF i <= write_pos THEN Log[i] ELSE s[i - write_pos]
    BY <1>3, <1>4, <1>5
  <2>1. CASE i <= write_pos
    BY <2>1, <1>1, <1>4
  <2>2. CASE ~(i <= write_pos)
    <3>1. i - write_pos \in 1 .. Len(s) /\ write_pos + (i - write_pos) = i
      BY <2>2, <1>1, <1>4
    <3> QED BY <3>1, <2>2, <1>4
  <2> QED BY <2>1, <2>2
<1>7. Log' = Log \o s
  BY <1>3, <1>4, <1>5, <1>6, SeqEqual
<1> QED BY <1>7 DEF Write, Log, Ok, Q!Write, Q!Ok

LEMMA ReadImplements ==
  ASSUME Inv, NEW n \in 1 .. MaxCall, Read(n)
  PROVE  Q!Read(n)
<1>1. vec \in Seq(Octets) /\ write_pos \in Nat /\ write_pos <= Len(vec) /\ read_pos \in Nat
      /\ size = write_pos /\ data = "vec" /\ n \in Nat /\ n >= 1 /\ Len(vec) \in Nat
  BY OctetVectorStreamAssumption DEF Inv, TypeOK, InStep
<1>2. read_pos + n <= write_pos /\ read_pos' = read_pos + n
      /\ result' = Ok(SubSeq(vec, read_pos + 1, read_pos + n))
      /\ UNCHANGED <<vec, write_pos>>
  BY <1>1 DEF Read
<1>3. SubSeq(Log, read_pos + 1, read_pos + n) = SubSeq(vec, read_pos + 1, read_pos + n)
  <2>1. /\ 1 \in 1 .. Len(vec) /\ write_pos \in 1 .. Len(vec)
        /\ read_pos + 1 \in 1 .. write_pos - 1 + 1 /\ read_pos + n \in 1 .. write_pos - 1 + 1
    BY <1>1, <1>2
  <2>2. SubSeq(SubSeq(vec, 1, write_pos), read_pos + 1, read_pos + n)
          = SubSeq(vec, 1 + (read_pos + 1) - 1, 1 + (read_pos + n) - 1)
    BY <2>1, <1>1, SubSeqOfSubSeq
  <2>3. 1 + (read_pos + 1) - 1 = read_pos + 1 /\ 1 + (read_pos + n) - 1 = read_pos + n
    BY <1>1
  <2> QED BY <2>2, <2>3 DEF Log
<1>4. Len(Log) = write_pos
  BY LogFacts
<1> QED BY <1>2, <1>3, <1>4 DEF Log, Ok, Q!Read, Q!Ok

LEMMA ReadFailsImplements ==
  ASSUME Inv, NEW n \in 1 .. MaxCall, ReadFails(n)
  PROVE  Q!ReadTooMuch(n)
<1>1. size = write_pos /\ Len(Log) = write_pos
  BY LogFacts DEF Inv, InStep
<1> QED BY <1>1 DEF ReadFails, Log, Failed, Q!ReadTooMuch, Q!Failed

\* However reads and writes follow each other and wherever the vector moves,
\* the stream is a queue of octets: every read returns what was written, in
\* that order (octet_vector_stream.cpp:18-71).
THEOREM QueueImplemented == Spec => QueueSpec
<1>1. Init => Q!Init
  BY InitImplements
<1>2. Inv /\ [Next]_vars => [Q!Next]_(Q!vars)
  <2> SUFFICES ASSUME Inv, [Next]_vars
               PROVE  [Q!Next]_(Q!vars)
    OBVIOUS
  <2>1. ASSUME NEW s \in Strings, Write(s)
        PROVE  Q!Next
    BY <2>1, WriteImplements DEF Strings, Q!Next, Q!Strings
  <2>2. ASSUME NEW n \in 1 .. MaxCall, Read(n)
        PROVE  Q!Next
    BY <2>2, ReadImplements DEF Q!Next
  <2>3. ASSUME NEW n \in 1 .. MaxCall, ReadFails(n)
        PROVE  Q!Next
    BY <2>3, ReadFailsImplements DEF Q!Next
  <2>4. CASE UNCHANGED vars
    BY <2>4 DEF vars, Q!vars
  <2> QED BY <2>1, <2>2, <2>3, <2>4 DEF Next
<1>3. Init => Inv
  BY InitInv
<1>4. Inv /\ [Next]_vars => Inv'
  BY NextInv
<1> QED BY <1>1, <1>2, <1>3, <1>4, PTL DEF Spec, QueueSpec, Q!Spec
=============================================================================
