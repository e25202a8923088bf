------------------------- MODULE PacketDeserialiser -------------------------
(***************************************************************************)
(* packet_deserialiser_base: cuts what comes from the network into packets *)
(* and calls back for each.  Octets are kept only while a packet is        *)
(* incomplete; as long as nothing is kept, packets are handed on straight  *)
(* from the caller's data.  The two ways differ when the callback throws.  *)
(*                                                                         *)
(* An octet is its place in what the peer sends.  Which octets begin a     *)
(* packet is fixed by Bounds, and has_next, given the octets of one from   *)
(* its first, knows how many belong to it.                                 *)
(***************************************************************************)
EXTENDS Integers, Sequences

CONSTANTS
  Bounds,     \* packet k is the octets Bounds[k] + 1 .. Bounds[k + 1]
  Malformed,  \* packets whose header has_next cannot read or refuses
  Max,        \* buf_max_size_
  Chunks,     \* the sizes of data handle is called with
  MaxThrows,  \* bound: how often the callback throws
  MaxClears   \* bound: how often clear is called

ASSUME PacketAssumption ==
  /\ Bounds \in Seq(Nat)
  /\ Len(Bounds) > 0
  /\ Bounds[1] = 0
  /\ \A j, k \in 1 .. Len(Bounds) : j < k => Bounds[j] < Bounds[k]
  /\ Malformed \subseteq 1 .. Len(Bounds) - 1
  /\ Max \in Nat
  /\ Chunks \subseteq Nat
  /\ MaxThrows \in Nat
  /\ MaxClears \in Nat

VARIABLES
  buf,        \* buf_
  data,       \* the argument of the call being run
  pos,        \* octets of it handed on so far
  pc,         \* idle, or the branch of do_check being run
  arrived,    \* octets taken by handle so far
  delivered,  \* history: what the callback was called with
  outcome,    \* history: how the last call ended
  opened,     \* history: what had arrived when the buffer was last cleared
  skipped,    \* history: since then an exception has dropped a call's data
  throws,
  clears

calls == <<throws, clears>>
vars == <<buf, data, pos, pc, arrived, delivered, outcome, opened, skipped, throws, clears>>

Last == Bounds[Len(Bounds)]
PacketIds == 1 .. Len(Bounds) - 1
Size(k) == Bounds[k + 1] - Bounds[k]
Packet(k) == [i \in 1 .. Size(k) |-> Bounds[k] + i]

From(s, n) == SubSeq(s, n + 1, Len(s))

\* The span the next packet is looked for in.
Span == From(IF pc = "direct" THEN data ELSE buf, pos)

\* has_next of a deserialiser over s, 0 when it is not a whole packet.  From
\* the middle of a packet the octets may look like anything.
HasNext(s) ==
  LET here == { k \in PacketIds : s # <<>> /\ s[1] = Bounds[k] + 1 } IN
  IF s = <<>> THEN {0}
  ELSE IF here = {} THEN 0 .. Len(s)
  ELSE { IF k \notin Malformed /\ Size(k) <= Len(s) THEN Size(k) ELSE 0 : k \in here }

Init ==
  /\ buf = <<>>
  /\ data = <<>>
  /\ pos = 0
  /\ pc = "idle"
  /\ arrived = 0
  /\ delivered = <<>>
  /\ outcome = "none"
  /\ opened = 0
  /\ skipped = FALSE
  /\ throws = 0
  /\ clears = 0

-----------------------------------------------------------------------------

\* Mutant: a buffer that gets exactly full is refused.
TooMuch_exact(n) == Len(buf) + n >= Max

\* Mutant: what is buffered already is not counted.
TooMuch_data(n) == n > Max

TooMuch(n) == Len(buf) + n > Max

\* do_check with the next n octets the peer sends, up to the first has_next.
Handle(n) ==
  /\ pc = "idle"
  /\ arrived + n <= Last
  /\ ~TooMuch(n)
  /\ arrived' = arrived + n
  /\ pos' = 0
  /\ LET chunk == [i \in 1 .. n |-> arrived + i] IN
     IF buf = <<>>
     THEN pc' = "direct" /\ data' = chunk /\ UNCHANGED buf
     ELSE pc' = "buffered" /\ buf' = buf \o chunk /\ UNCHANGED data
  /\ UNCHANGED <<delivered, outcome, opened, skipped, calls>>

\* do_check throws at once: the caller still has the octets.
Refuse(n) ==
  /\ pc = "idle"
  /\ arrived + n <= Last
  /\ TooMuch(n)
  /\ outcome' = "refused"
  /\ UNCHANGED <<buf, data, pos, pc, arrived, delivered, opened, skipped, calls>>

\* The callback is called with the next packet and returns.  How much of it
\* the callback reads does not matter.
Deliver ==
  /\ pc # "idle"
  /\ \E n \in HasNext(Span) \ {0} :
       /\ delivered' = Append(delivered, SubSeq(Span, 1, n))
       /\ pos' = pos + n
  /\ UNCHANGED <<buf, data, pc, arrived, outcome, opened, skipped, calls>>

\* Mutant: what was handed on is erased, and so is the packet thrown for.
CallbackThrows_erases ==
  /\ pc # "idle"
  /\ throws < MaxThrows
  /\ \E n \in HasNext(Span) \ {0} :
       /\ delivered' = Append(delivered, SubSeq(Span, 1, n))
       /\ buf' = IF pc = "direct" THEN buf ELSE <<>>
  /\ pc' = "idle"
  /\ data' = <<>>
  /\ outcome' = "threw"
  /\ skipped' = (skipped \/ pc = "direct")
  /\ throws' = throws + 1
  /\ UNCHANGED <<pos, arrived, opened, clears>>

\* The callback throws: nothing of buf_ is erased, nothing of data kept.
CallbackThrows ==
  /\ pc # "idle"
  /\ throws < MaxThrows
  /\ \E n \in HasNext(Span) \ {0} :
       delivered' = Append(delivered, SubSeq(Span, 1, n))
  /\ pc' = "idle"
  /\ data' = <<>>
  /\ outcome' = "threw"
  /\ skipped' = (skipped \/ pc = "direct")
  /\ throws' = throws + 1
  /\ UNCHANGED <<buf, pos, arrived, opened, clears>>

\* Mutant: the packets handed on from the buffer stay in it.
Finish_keeps ==
  /\ pc # "idle"
  /\ 0 \in HasNext(Span)
  /\ buf' = IF pc = "direct" THEN Span ELSE buf
  /\ data' = <<>>
  /\ pc' = "idle"
  /\ outcome' = "ok"
  /\ UNCHANGED <<pos, arrived, delivered, opened, skipped, calls>>

\* Mutant: what is left of the caller's data is not kept.
Finish_drops ==
  /\ pc # "idle"
  /\ 0 \in HasNext(Span)
  /\ buf' = IF pc = "direct" THEN <<>> ELSE Span
  /\ data' = <<>>
  /\ pc' = "idle"
  /\ outcome' = "ok"
  /\ UNCHANGED <<pos, arrived, delivered, opened, skipped, calls>>

\* No whole packet is left: the rest is all that stays in buf_.
Finish ==
  /\ pc # "idle"
  /\ 0 \in HasNext(Span)
  /\ buf' = Span
  /\ data' = <<>>
  /\ pc' = "idle"
  /\ outcome' = "ok"
  /\ UNCHANGED <<pos, arrived, delivered, opened, skipped, calls>>

\* A new connection starts with a packet: what was lost of one is not sent
\* again.
Reconnect ==
  \E k \in 1 .. Len(Bounds) :
    /\ arrived <= Bounds[k]
    /\ k > 1 => Bounds[k - 1] < arrived
    /\ arrived' = Bounds[k]

\* Mutant: a new connection finds what the old one left.
Clear_keeps ==
  /\ pc = "idle"
  /\ clears < MaxClears
  /\ Reconnect
  /\ opened' = arrived'
  /\ skipped' = FALSE
  /\ outcome' = "none"
  /\ clears' = clears + 1
  /\ UNCHANGED <<buf, data, pos, pc, delivered, throws>>

\* clear, the connection broken and made again.
Clear ==
  /\ pc = "idle"
  /\ clears < MaxClears
  /\ buf' = <<>>
  /\ Reconnect
  /\ opened' = arrived'
  /\ skipped' = FALSE
  /\ outcome' = "none"
  /\ clears' = clears + 1
  /\ UNCHANGED <<data, pos, pc, delivered, throws>>

\* The peer has more to send.
Receive == \E n \in Chunks \ {0} : Handle(n) \/ Refuse(n)

\* A call with no data looks at the buffer again.
Retry == 0 \in Chunks /\ Handle(0)

Next == Receive \/ Retry \/ Deliver \/ CallbackThrows \/ Finish \/ Clear

\* A call runs to its end, and what the peer sends is passed on, also by a
\* caller that looks at the buffer again and again in between.
Spec ==
  /\ Init /\ [][Next]_vars
  /\ WF_vars(Deliver \/ Finish)
  /\ SF_vars(Receive)

-----------------------------------------------------------------------------

TypeOK ==
  /\ buf \in Seq(1 .. Last) /\ data \in Seq(1 .. Last)
  /\ Len(buf) <= Max /\ Len(data) <= Max
  /\ pos \in 0 .. Max
  /\ pc \in {"idle", "direct", "buffered"}
  /\ arrived \in 0 .. Last /\ opened \in 0 .. arrived
  /\ outcome \in {"none", "ok", "threw", "refused"}
  /\ skipped \in BOOLEAN

\* Unless data was dropped, whatever the callback is called with is one whole
\* packet, and no octet from before clear() is part of it (util.hpp:125-137).
FramesWhole ==
  [][delivered' # delivered /\ ~skipped
       => \E k \in PacketIds :
            delivered'[Len(delivered')] = Packet(k) /\ Bounds[k] >= opened]_vars

\* A call that returns leaves nothing behind that could have been handed on:
\* what is buffered is the front of one packet, up to the last octet that has
\* arrived (util.hpp:131-138).
NothingWaits ==
  pc = "idle" /\ outcome = "ok" /\ ~skipped =>
    /\ buf = [i \in 1 .. Len(buf) |-> arrived - Len(buf) + i]
    /\ \E k \in 1 .. Len(Bounds) :
         /\ arrived - Len(buf) = Bounds[k]
         /\ k \in PacketIds \ Malformed => Len(buf) < Size(k)

\* A packet gets lost only when the callback throws while handle works on the
\* caller's data: every other packet the buffer has gone past was handed on
\* (util.hpp:131-138).
NoPacketLost ==
  pc = "idle" /\ ~skipped =>
    \A k \in PacketIds :
      Bounds[k] >= opened /\ Bounds[k + 1] <= arrived - Len(buf)
        => \E i \in 1 .. Len(delivered) : delivered[i] = Packet(k)

\* Every packet is handed on once, whole and in order, when the callback does
\* not throw.
FeedSpec == INSTANCE PacketFeed
Feed == FeedSpec!Spec

\* Octets are not refused while packets and chunks together fit the buffer
\* (util.hpp:116).
NeverRefused == outcome # "refused"

\* What has been taken and not handed on starts with a packet that has_next
\* will never find, and the peer has more to send than the buffer holds.
Stalled ==
  LET waiting == IF pc = "idle" THEN buf ELSE Span IN
  /\ ~skipped
  /\ \E k \in PacketIds :
       /\ arrived - Len(waiting) = Bounds[k]
       /\ k \in Malformed \/ Size(k) > Max
       /\ Last - Bounds[k] > Max

\* A packet that cannot be read, or is bigger than the buffer, is noticed in
\* the end, whatever was thrown or cleared before: the buffer does not grow
\* without the caller being told (util.hpp:116-118).
StallReported == Stalled ~> (outcome = "refused" \/ ~Stalled)
=============================================================================
