----------------------------- MODULE DerValues ------------------------------
(***************************************************************************)
(* A value on its way: from a variable of one type to the contents of a    *)
(* DER structure, and from those, or from contents somebody else has sent, *)
(* to a variable of a type that may be another.                            *)
(***************************************************************************)
EXTENDS DerInteger, DerReal, DerTime

CONSTANTS
  Values,     \* the integers written
  Foreign     \* the octets of integers of any length, by whoever sends them

ASSUME DerValuesAssumption == Values \subseteq Int /\ Foreign \subseteq Seq(Octet)

VARIABLES
  value,      \* what is written
  contents,   \* what of it goes over the wire
  result      \* what came of it so far

vars == <<value, contents, result>>

Init ==
  /\ value = [kind |-> "none"]
  /\ contents = <<>>
  /\ result = [outcome |-> "none"]

-----------------------------------------------------------------------------

\* An encoder throws, or passes on what it has made of the value.
Encode(v, encoded) ==
  /\ value' = v
  /\ IF encoded = {}
     THEN result' = [outcome |-> "thrown"] /\ UNCHANGED contents
     ELSE result' = [outcome |-> "written"] /\ contents' \in encoded

\* serialiser::handle and asn_der_encoder::encode of an integer.
WriteInteger(type, n) ==
  /\ Holds(type, n)
  /\ Encode([kind |-> "integer", number |-> n], {encode_integer(n, type.size)})

\* asn_der_encoder::encode_real.
WriteReal(r) == Encode([kind |-> "real", real |-> r], encode_real(r))

\* asn_der_encoder::encode of a time_point.
WriteTime(t) == Encode([kind |-> "time", time |-> t], encode_time(t))

\* asn_der_encoder::encode of an integer of any length: its octets as they
\* are.  What somebody else has written looks no different.
WriteAny(octets) == Encode([kind |-> "any"], {octets})

Encoding ==
  /\ result.outcome = "none"
  /\ \/ \E type \in Types, n \in Values : WriteInteger(type, n)
     \/ \E r \in Normals \cup Specials : WriteReal(r)
     \/ \E t \in Times : WriteTime(t)
     \/ \E octets \in Foreign : WriteAny(octets)

\* A decoder throws, or assigns what it has made of the contents.
Decode(decoded) ==
  IF decoded = {}
  THEN result' = [outcome |-> "thrown"]
  ELSE \E v \in decoded : result' = [outcome |-> "read", value |-> v]

\* asn_der_decoder::decode_integer and deserialiser::handle of an integer,
\* into a variable of any type.
ReadInteger ==
  /\ result.outcome = "written"
  /\ value.kind \in {"integer", "any"}
  /\ \E type \in Types :
       \/ IntegerOf(type, contents) = {} /\ result' = [outcome |-> "thrown", as |-> type]
       \/ \E n \in IntegerOf(type, contents) :
            result' = [outcome |-> "read", as |-> type, value |-> n]
  /\ UNCHANGED <<value, contents>>

\* asn_der_decoder::decode_integer into an integer of any length.
ReadAny ==
  /\ result.outcome = "written"
  /\ value.kind \in {"integer", "any"}
  /\ result' = IF contents = <<>> THEN [outcome |-> "refused"]
               ELSE [outcome |-> "read any", octets |-> contents]
  /\ UNCHANGED <<value, contents>>

\* asn_der_decoder::decode_real.
ReadReal ==
  /\ result.outcome = "written"
  /\ value.kind = "real"
  /\ Decode(decode_real(contents))
  /\ UNCHANGED <<value, contents>>

\* asn_der_decoder::decode of a time_point.
ReadTime ==
  /\ result.outcome = "written"
  /\ value.kind = "time"
  /\ Decode(decode_time(contents))
  /\ UNCHANGED <<value, contents>>

Done == result.outcome \notin {"none", "written"} /\ UNCHANGED vars

Next == Encoding \/ ReadInteger \/ ReadAny \/ ReadReal \/ ReadTime \/ Done

Spec == Init /\ [][Next]_vars

-----------------------------------------------------------------------------

IntegerRead == value.kind \in {"integer", "any"} /\ result.outcome = "read"

\* What is written is the number in the fewest octets there are: the first
\* nine bits are never all the same (DER; asn_der/util.hpp:32-41).
WrittenShortest ==
  value.kind = "integer" =>
    /\ contents # <<>>
    /\ \A i \in DOMAIN contents : contents[i] \in Octet
    /\ Number(contents) = value.number
    /\ Len(contents) > 1 => ~(contents[1] = 0 /\ contents[2] < 128)
                            /\ ~(contents[1] = 255 /\ contents[2] >= 128)

\* A value is read by every type that has it, narrower or wider than the one
\* it was written from, signed or not, or of any length
\* (deserialiser.hpp:35-44).
ReadByEveryType ==
  value.kind = "integer" =>
    /\ result.outcome \in {"read", "thrown"} /\ Holds(result.as, value.number)
         => result.outcome = "read" /\ result.value = value.number
    /\ result.outcome = "read any" => Number(result.octets) = value.number
    /\ result.outcome # "refused"

\* A signed integer is never read as another number, whoever has written it
\* and in however many octets (asn_der_decoder.hpp:263-282).
SignedExactOrRefused ==
  IntegerRead /\ result.as.signed => result.value = Number(contents)

\* An unsigned one is not either, as long as the octet in front is the zero
\* it is there for.
UnsignedExactOrRefused ==
  IntegerRead /\ ~result.as.signed /\ (Len(contents) > result.as.size => contents[1] = 0)
    => result.value = Number(contents)

\* No integer is read as another number than its octets stand for
\* (asn_der_decoder.hpp:269-270: "integer does not fit to given type").
ExactOrRefused == IntegerRead => result.value = Number(contents)

PlusZero == [kind |-> "zero", negative |-> FALSE]

\* Every real that can be written at all is read back with every bit of it,
\* but for zero (asn_der/util.hpp:169-288).
RealReadBack ==
  value.kind = "real" /\ value.real # PlusZero =>
    /\ result.outcome = "read" => result.value = value.real
    /\ result.outcome = "thrown" => value.real.kind = "subnormal"

\* There is one way to write a real: the mantissa is odd and starts with no
\* octet of zeros (asn_der/util.hpp:149: "DER normalisation requires the
\* mantissa to be 0 or odd").
MantissaNormalised ==
  value.kind = "real" /\ value.real.kind = "normal" /\ result.outcome = "written" =>
    LET start == IF contents[1] % 4 = 3 THEN contents[2] + 2 ELSE (contents[1] % 4) + 2 IN
    /\ contents[Len(contents)] % 2 = 1
    /\ contents[start + 1] # 0
    /\ \A i \in DOMAIN contents : contents[i] \in Octet

\* Zero is read back as zero (asn_der/test/test_asn_der.cpp:31).
ZeroReadBack ==
  value.kind = "real" /\ value.real = PlusZero /\ result.outcome = "read" =>
    result.value = value.real

\* Since 1970 every point in time is read back to the millisecond, and before
\* that whole seconds are, but for the one before 1970 and what the library
\* cannot convert, which are refused (asn_der_encoder.hpp:53-70,
\* asn_der_decoder.hpp:64-98).
TimeReadBack ==
  value.kind = "time" /\ (Before1970(value.time) => value.time.ms = 0 /\ ~value.time.finer) =>
    /\ result.outcome = "read" =>
         result.value = [second |-> value.time.second, ms |-> value.time.ms]
    /\ result.outcome = "thrown" => value.time.second \in Inconvertible \cup {-1}
=============================================================================
