----------------------------- MODULE PacketFeed -----------------------------
(***************************************************************************)
(* What a packet_deserialiser is for: octets arrive in pieces of any size, *)
(* and each packet is handed on once, whole and in its turn, as soon as    *)
(* the last of its octets is there.                                        *)
(***************************************************************************)
EXTENDS Integers, Sequences

CONSTANT Bounds  \* packet k is the octets Bounds[k] + 1 .. Bounds[k + 1]

VARIABLES
  arrived,   \* how many octets have come
  delivered  \* the packets handed on, each the sequence of its octets

vars == <<arrived, delivered>>

Packet(k) == [i \in 1 .. Bounds[k + 1] - Bounds[k] |-> Bounds[k] + i]

Init == arrived = 0 /\ delivered = <<>>

Arrive ==
  /\ arrived' \in arrived .. Bounds[Len(Bounds)]
  /\ UNCHANGED delivered

Deliver ==
  LET k == Len(delivered) + 1 IN
  /\ k < Len(Bounds)
  /\ Bounds[k + 1] <= arrived
  /\ delivered' = Append(delivered, Packet(k))
  /\ UNCHANGED arrived

Next == Arrive \/ Deliver

\* What has been handed on, without the promise that it will be.
Safety == Init /\ [][Next]_vars

Spec == Safety /\ WF_vars(Deliver)
=============================================================================
