------------------------------ MODULE Delivery -------------------------------
(***************************************************************************)
(* What the protocols on the way of a packet promise together, with no     *)
(* word of how a handler rewrites one: the packet goes from version to     *)
(* version, past each protocol once and in their order.  A protocol that   *)
(* has no handler for it leaves it as it is, and can neither drop it nor   *)
(* fail on it; it is dropped only between two versions of which one could  *)
(* not have been sent it.                                                  *)
(***************************************************************************)
CONSTANTS
  Routes,               \* the packets sent: [dir, kind, from, to] records
  NoRoute,              \* no packet
  Towards(_, _),        \* the version after one on the way to another
  Handles(_, _, _, _),  \* the protocol between two versions has a handler
  Excused(_, _, _)      \* a packet may be dropped between two versions

VARIABLES route, sent, payload, at, status
vars == <<route, sent, payload, at, status>>

Init ==
  /\ route = NoRoute /\ sent = <<>> /\ payload = <<>> /\ at = 0 /\ status = "idle"

Send ==
  /\ status = "idle" /\ status' = "travelling"
  /\ route' \in Routes /\ at' = route'.from /\ payload' = sent'

\* The protocol between the packet's version and the next one of its way.
Onward == Towards(at, route.to)
Handled == Handles(route.dir, at, Onward, route.kind)

Cross ==
  /\ status = "travelling" /\ at # route.to
  /\ at' = Onward
  /\ Handled \/ payload' = payload
  /\ UNCHANGED <<route, sent, status>>

Drop ==
  /\ status = "travelling" /\ at # route.to
  /\ Handled /\ Excused(at, Onward, route.kind)
  /\ status' = "cancelled"
  /\ UNCHANGED <<route, sent, payload, at>>

Fail ==
  /\ status = "travelling" /\ at # route.to
  /\ Handled
  /\ status' = "failed"
  /\ UNCHANGED <<route, sent, payload, at>>

Deliver ==
  /\ status = "travelling" /\ at = route.to
  /\ status' = "delivered"
  /\ UNCHANGED <<route, sent, payload, at>>

Leave ==
  /\ status \in {"delivered", "cancelled", "failed"}
  /\ route' = NoRoute /\ sent' = <<>> /\ payload' = <<>> /\ at' = 0 /\ status' = "idle"

Next == Send \/ Cross \/ Drop \/ Fail \/ Deliver \/ Leave

Spec == Init /\ [][Next]_vars
=============================================================================
