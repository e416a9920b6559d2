-------------------------- MODULE PacketTransform --------------------------
(***************************************************************************)
(* What one packet goes through in a list of protocols: their tables       *)
(* (protocol/__init__.py), and what the list as a whole may make of the    *)
(* packet.  A payload is abstracted to the trail of the protocols that     *)
(* have rewritten it: what the rest of the system depends on is which      *)
(* protocols touched a packet, in which order, and whether it got through. *)
(***************************************************************************)
EXTENDS Protocols, SequencesExt

CONSTANTS
    ServerProtocol,     \* the protocol number of the running server
    Handled,            \* Handled[p][d]: the packets p has a handler for in direction d
    Cancelled           \* Cancelled[p][d]: the packets p drops in direction d

ASSUME ServerProtocolAssumption == ServerProtocol \in Versions

SERVERBOUND == "SERVERBOUND"
CLIENTBOUND == "CLIENTBOUND"

REQUEST_NETWORK_SETTINGS == "REQUEST_NETWORK_SETTINGS"
LOGIN == "LOGIN"
PACKET_VIOLATION_WARNING == "PACKET_VIOLATION_WARNING"

\* create_base_protocol
Base == [server_protocol |-> ServerProtocol, client_protocol |-> 0, name |-> "base"]

\* No protocol is registered for the client version that stands for "not detected yet".
ASSUME BaseApartAssumption == Base \notin Pool

Handlers(p, direction) ==
    IF p # Base THEN Handled[p][direction]
    ELSE IF direction = SERVERBOUND THEN {REQUEST_NETWORK_SETTINGS, LOGIN}
    ELSE {PACKET_VIOLATION_WARNING}

Cancels(p, direction) == IF p # Base THEN Cancelled[p][direction] ELSE {}

has_handler_or_cancel(p, direction, packet) ==
    packet \in Handlers(p, direction) \cup Cancels(p, direction)

(***************************************************************************)
(* A handler may raise on a payload it cannot read, or cancel a packet the *)
(* other side has no equivalent of.  The base protocol's clientbound       *)
(* handler does neither: it swallows its own errors.                       *)
(***************************************************************************)
MayStop(p, direction) == p # Base \/ direction = SERVERBOUND

(***************************************************************************)
(* What a list of protocols may make of a packet, in closed form: the      *)
(* protocols that know it are run in the list's order, up to the first one *)
(* that drops it.  Pipeline has the loop that does so.                     *)
(***************************************************************************)

\* The protocols that were run up to position n, each at its position in the list.
Trail(pipeline, direction, packet, n) ==
    [i \in {j \in 1 .. n : has_handler_or_cancel(pipeline[j], direction, packet)} |-> pipeline[i]]

Drops(pipeline, direction, packet, i) == packet \in Cancels(pipeline[i], direction)

\* The positions where the packet may be dropped.
Stops(pipeline, direction, packet) ==
    {i \in 1 .. Len(pipeline) :
        /\ has_handler_or_cancel(pipeline[i], direction, packet)
        /\ Drops(pipeline, direction, packet, i) \/ MayStop(pipeline[i], direction)
        /\ \A j \in 1 .. i - 1 : ~Drops(pipeline, direction, packet, j)}

\* Whether the packet was forwarded, and which protocols were run.
Outcomes(pipeline, direction, packet) ==
    {[forwarded |-> FALSE, trail |-> Trail(pipeline, direction, packet, i)] :
        i \in Stops(pipeline, direction, packet)}
    \cup IF \E i \in 1 .. Len(pipeline) : Drops(pipeline, direction, packet, i) THEN {}
         ELSE {[forwarded |-> TRUE, trail |-> Trail(pipeline, direction, packet, Len(pipeline))]}

(***************************************************************************)
(* What becomes of a packet, as the rest of the system sees it: whether it *)
(* arrives, rewritten by whom, and the version that the server reads in    *)
(* it, if it is a packet that names one.                                   *)
(***************************************************************************)
Event(address, direction, packet, result, seen) ==
    [address |-> address, direction |-> direction, packet |-> packet,
     forwarded |-> result.forwarded, trail |-> result.trail, seen |-> seen]

\* Before the first packet.
NoEvent == Event(None, None, None, [forwarded |-> FALSE, trail |-> <<>>], None)
============================================================================
