----------------------------- MODULE Translator ----------------------------
(***************************************************************************)
(* What the plugin promises, with no connections and nothing remembered:   *)
(* every packet of a client is rewritten by the protocols of the chain for *)
(* the version of the client that is connected there now, from the client  *)
(* to the server or back; the server only ever sees its own version; and a *)
(* client of a gated version does not join.                                *)
(***************************************************************************)
EXTENDS Sessions

CONSTANTS
    get_path(_, _),     \* ProtocolManager.get_path
    Blocked             \* the gated client versions

VARIABLE last           \* what became of the last packet

vars == <<session, last>>

\* The version chain of a client, in serverbound order.
Chain(version) ==
    LET path == get_path(ServerProtocol, version)
    IN  IF version = 0 \/ path = None THEN <<>> ELSE path

Init == SessionsInit /\ last = NoEvent

\* What the two packets that name the client's version tell the server.
SeenVersion(packet, forwarded) ==
    IF forwarded /\ packet \in {REQUEST_NETWORK_SETTINGS, LOGIN} THEN ServerProtocol ELSE None

\* Either of them is dropped if its version cannot be read.
Unreadable(packet) ==
    IF packet \in {REQUEST_NETWORK_SETTINGS, LOGIN} THEN {[forwarded |-> FALSE, trail |-> <<>>]} ELSE {}

Receive(a, packet) ==
    /\ MayReceive(a, packet)
    /\ \E result \in Outcomes(Chain(session[a].version), SERVERBOUND, packet) \cup Unreadable(packet) :
           /\ last' = Event(a, SERVERBOUND, packet, result, SeenVersion(packet, result.forwarded))
           /\ Received(a, packet, result.forwarded)

Send(a, packet) ==
    /\ MaySend(a, packet)
    /\ \E result \in Outcomes(Reverse(Chain(session[a].version)), CLIENTBOUND, packet) :
           last' = Event(a, CLIENTBOUND, packet, result, None)
    /\ UNCHANGED session

PlayerLogin(a) ==
    /\ LoggedIn(a, session[a].version \in Blocked)
    /\ UNCHANGED last

Next ==
    \E a \in Addresses :
        \/ \E version \in ClientVersions : Open(a, version) /\ UNCHANGED last
        \/ Lose(a) /\ UNCHANGED last
        \/ \E packet \in ServerboundPackets \cup {REQUEST_NETWORK_SETTINGS, LOGIN} : Receive(a, packet)
        \/ \E packet \in EarlyPackets \cup ClientboundPackets : Send(a, packet)
        \/ PlayerLogin(a)
        \/ Quit(a) /\ UNCHANGED last

Spec == Init /\ [][Next]_vars
============================================================================
