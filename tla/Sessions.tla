------------------------------ MODULE Sessions -----------------------------
(***************************************************************************)
(* The world around the plugin: clients that come and go at network        *)
(* addresses, and the events that the server raises for them.  None of     *)
(* this is code of the repository; it is what plugin.py and pipeline.py    *)
(* assume of their callers.                                                *)
(*                                                                         *)
(* A client opens a session and asks for the network settings, which tells *)
(* the server the client's version; once the server has answered, the      *)
(* client logs in.  A logged-in client is refused or becomes a player, and *)
(* a player leaves with a PlayerQuitEvent.  A session lost before there is *)
(* a player ends without an event.                                         *)
(***************************************************************************)
EXTENDS PacketTransform

CONSTANTS
    Addresses,          \* the network addresses of the clients
    ClientVersions,     \* the versions of the clients that connect
    EarlyPackets,       \* the packets a server sends before the login
    ClientboundPackets, \* the packets it sends after it
    ServerboundPackets, \* the packets a client sends after it
    MixedReuse          \* whether a client of another version may turn up where a session was lost

ASSUME ClientVersionsAssumption == ClientVersions \subseteq Versions
ASSUME PacketsAssumption == ServerboundPackets \cap {REQUEST_NETWORK_SETTINGS, LOGIN} = {}
ASSUME MixedReuseAssumption == MixedReuse \in BOOLEAN

VARIABLE session        \* the session at each address: its phase and its client's version

Phases == {"closed", "open", "settings", "login", "joined", "refused", "lost"}
Sessions == [phase : Phases, version : ClientVersions \cup {0}]

SessionsInit == session = [a \in Addresses |-> [phase |-> "closed", version |-> 0]]

InPhase(a, phases) == session[a].phase \in phases

MoveTo(a, phase) == session' = [session EXCEPT ![a].phase = phase]

(***************************************************************************)
(* A client connects; only its later packets are events of the plugin.     *)
(* Where a session was lost, the same client tries again.                  *)
(***************************************************************************)
Open(a, version) ==
    /\ \/ InPhase(a, {"closed"})
       \/ InPhase(a, {"lost"}) /\ (version = session[a].version \/ MixedReuse)
    /\ session' = [session EXCEPT ![a] = [phase |-> "open", version |-> version]]

\* A session is lost, or refused, without a PlayerQuitEvent.
Lose(a) ==
    /\ InPhase(a, {"open", "settings", "login", "refused"})
    /\ MoveTo(a, "lost")

(***************************************************************************)
(* The serverbound packets of each phase, and the phase that the session   *)
(* reaches when the server has received the packet.                        *)
(***************************************************************************)
MayReceive(a, packet) ==
    \/ InPhase(a, {"open"}) /\ packet = REQUEST_NETWORK_SETTINGS
    \/ InPhase(a, {"settings"}) /\ packet = LOGIN
    \/ InPhase(a, {"login", "joined"}) /\ packet \in ServerboundPackets

Received(a, packet, forwarded) ==
    session' = IF forwarded /\ packet = REQUEST_NETWORK_SETTINGS
               THEN [session EXCEPT ![a].phase = "settings"]
               ELSE IF forwarded /\ packet = LOGIN
               THEN [session EXCEPT ![a].phase = "login"]
               ELSE session

\* The clientbound packets of each phase.
MaySend(a, packet) ==
    \/ InPhase(a, {"settings", "login"}) /\ packet \in EarlyPackets
    \/ InPhase(a, {"login", "joined"}) /\ packet \in ClientboundPackets

\* The server takes the client for a player, unless the login event was cancelled.
LoggedIn(a, refused) ==
    /\ InPhase(a, {"login"})
    /\ MoveTo(a, IF refused THEN "refused" ELSE "joined")

\* A player, or a refused client that was one already, leaves with an event.
Quit(a) ==
    /\ InPhase(a, {"joined", "refused"})
    /\ MoveTo(a, "closed")
============================================================================
