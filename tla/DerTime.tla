------------------------------ MODULE DerTime -------------------------------
(***************************************************************************)
(* Points in time as contents.                                             *)
(*                                                                         *)
(* A point in time is the second it lies in, the millisecond in that, and  *)
(* whether it is finer than that.  gmtime and timegm turn a second into    *)
(* the fields of a calendar and back; the years a time_point has are       *)
(* printed in four digits, so a second stands for its fields here.         *)
(***************************************************************************)
EXTENDS Integers, Sequences

CONSTANTS
  Seconds,         \* the seconds of the points in time that are written
  Milliseconds,    \* and their milliseconds
  Inconvertible    \* the seconds gmtime refuses

ASSUME DerTimeAssumption ==
  Seconds \subseteq Int /\ Milliseconds \subseteq 0 .. 999 /\ Inconvertible \subseteq Int

Times == [second : Seconds, ms : Milliseconds, finer : BOOLEAN]

Before1970(t) == t.second < 0

\* Casts of a duration round towards zero: before 1970, up.
to_time_t(t) ==
  IF Before1970(t) /\ (t.ms > 0 \/ t.finer) THEN t.second + 1 ELSE t.second

\* The milliseconds since 1970, % 1000: negative before 1970.
millis(t) ==
  LET ms == IF Before1970(t) /\ t.finer THEN t.ms + 1 ELSE t.ms IN
  IF Before1970(t) /\ ms \in 1 .. 999 THEN ms - 1000 ELSE ms % 1000

\* n with at least width digits, of which four are enough.
Digits(n, width) ==
  LET unit == <<1000, 100, 10, 1>> IN [i \in 1 .. width |-> (n \div unit[4 - width + i]) % 10]

\* %03u: a negative int is printed as 2^32 more.
Unsigned(ms) == IF ms >= 0 THEN Digits(ms, 3) ELSE <<4, 2, 9, 4, 9, 6>> \o Digits(7296 + ms, 4)

\* Mutant: no zeros at the end.
Fraction_trimmed(ms) ==
  IF ms = 0 THEN <<>>
  ELSE Digits(IF ms % 100 = 0 THEN ms \div 100 ELSE ms, IF ms % 100 = 0 THEN 1 ELSE 3)

\* What follows the fields: no point if there are no milliseconds, room for
\* four characters behind one if there are.
Fraction(ms) ==
  IF ms = 0 THEN <<>> ELSE SubSeq(Unsigned(ms), 1, IF ms > 0 THEN 3 ELSE 4)

\* asn_der_encoder::encode of a time_point, a set, nothing if it throws: the
\* fields, the digits behind a point, if there is one, and whether the Z is
\* there.
encode_time(t) ==
  IF to_time_t(t) \in Inconvertible THEN {}
  ELSE LET fraction == Fraction(millis(t)) IN
       {[second |-> to_time_t(t), fraction |-> fraction, z |-> Len(fraction) < 4]}

\* sscanf of .%03dZ: the first three digits, whatever comes behind them.
Scanned(fraction) ==
  CASE Len(fraction) = 0 -> 0
    [] Len(fraction) = 1 -> fraction[1]
    [] Len(fraction) = 2 -> fraction[1] * 10 + fraction[2]
    [] OTHER -> fraction[1] * 100 + fraction[2] * 10 + fraction[3]

\* asn_der_decoder::decode of a time_point, a set, nothing if it throws: -1
\* is what timegm fails with.
decode_time(content) ==
  IF content.second = -1 \/ (content.fraction = <<>> /\ ~content.z) THEN {}
  ELSE {[second |-> content.second, ms |-> Scanned(content.fraction)]}
=============================================================================
