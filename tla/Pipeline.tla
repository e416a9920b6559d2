------------------------------ MODULE Pipeline -----------------------------
(***************************************************************************)
(* pipeline.py, connection.py, protocol/base.py and the event handlers of  *)
(* plugin.py: the connections kept by network address, the two protocol    *)
(* lists that each of them caches, and the events that read and change     *)
(* them.  A packet event runs the loop over a list one protocol after the  *)
(* other; each may change the connection, raise or cancel.  Every event    *)
(* handler runs to its end before the next one.                            *)
(***************************************************************************)
EXTENDS Sessions

CONSTANTS
    get_path(_, _),     \* ProtocolManager.get_path, as ProtocolManager.tla shows it to answer
    Blocked             \* _blocked_protocols

ASSUME GetPathAssumption ==
    /\ \A c \in Versions : get_path(ServerProtocol, c) \in Seq(Pool) \cup {None}
    /\ get_path(ServerProtocol, ServerProtocol) = <<>>

(***************************************************************************)
(* What is exchanged before a connection has its lists is left to the base *)
(* protocol: no other protocol has a handler for it, or drops it.          *)
(***************************************************************************)
ASSUME HandshakeAssumption ==
    \A p \in Pool :
        /\ ~has_handler_or_cancel(p, SERVERBOUND, REQUEST_NETWORK_SETTINGS)
        /\ \A packet \in EarlyPackets : ~has_handler_or_cancel(p, CLIENTBOUND, packet)

ASSUME NoPipelineAssumption == None \notin Seq(Pool \cup {Base})

VARIABLES
    connections,    \* _connections: from the addresses that have one to a UserConnection
    event,          \* the packet event whose loop is running
    last            \* what became of the last packet event

vars == <<session, connections, event, last>>

Lists == Seq(Pool \cup {Base})

\* inits counts the calls of Protocol.init for the connection.
UserConnections ==
    [client_protocol : ClientVersions \cup {0},
     warned_no_chain : BOOLEAN,
     protocol_pipeline : Lists \cup {None},
     clientbound_pipeline : Lists \cup {None},
     inits : Nat]

NewConnection ==
    [client_protocol |-> 0,
     warned_no_chain |-> FALSE,
     protocol_pipeline |-> None,
     clientbound_pipeline |-> None,
     inits |-> 0]

(***************************************************************************)
(* The loop of a packet event: the list that it goes through, its position *)
(* in it, and its payload: the protocols that were run, and the version    *)
(* that the packet names (None if it names none).                          *)
(***************************************************************************)
Loop(a, direction, packet, pipeline, version) ==
    [address |-> a, direction |-> direction, packet |-> packet,
     pipeline |-> pipeline, at |-> 1, trail |-> <<>>, seen |-> version]

\* Between two packet events the loop is at no position.
NoLoop == [Loop(None, None, None, <<>>, None) EXCEPT !.at = 0]

Idle == event.at = 0

Init == SessionsInit /\ connections = <<>> /\ event = NoLoop /\ last = NoEvent

get_or_create(a) == IF a \in DOMAIN connections THEN connections[a] ELSE NewConnection

WithConnection(a, connection) ==
    [b \in DOMAIN connections \cup {a} |-> IF b = a THEN connection ELSE connections[b]]

\* A faulty variant: the entry is emptied and stays.
remove_by_player_Emptied(a) == [b \in DOMAIN connections |-> IF b = a THEN None ELSE connections[b]]

remove_by_player(a) == [b \in DOMAIN connections \ {a} |-> connections[b]]

needs_translation(connection) == connection.client_protocol \notin {0, ServerProtocol}

\* Faulty variants of the early returns: one of them is missing.
Settled_Uncached(connection) == connection.client_protocol = 0
Settled_Undetected(connection) == connection.protocol_pipeline # None

\* The early returns of _get_pipeline: already cached, or the client is not known yet.
Settled(connection) == connection.protocol_pipeline # None \/ connection.client_protocol = 0

\* A faulty variant: the chain in serverbound order.
ClientboundOrder_Unreversed(chain) == <<Base>> \o chain

\* Base first, then the chain from the server to the client.
ClientboundOrder(chain) == <<Base>> \o Reverse(chain)

(***************************************************************************)
(* _get_pipeline: what it leaves in the connection, and the list that it   *)
(* returns.  Only a connection whose client is known caches its lists.     *)
(***************************************************************************)
Resolve(connection) ==
    LET chain == get_path(ServerProtocol, connection.client_protocol)
        chained == needs_translation(connection) /\ chain # None
    IN  IF Settled(connection) THEN connection
        ELSE [client_protocol |-> connection.client_protocol,
              warned_no_chain |-> connection.warned_no_chain \/ (needs_translation(connection) /\ ~chained),
              protocol_pipeline |-> IF chained THEN <<Base>> \o chain ELSE <<Base>>,
              clientbound_pipeline |-> IF chained THEN ClientboundOrder(chain)
                                       ELSE connection.clientbound_pipeline,
              inits |-> IF chained THEN connection.inits + 1 ELSE connection.inits]

ServerboundList(connection) ==
    IF connection.protocol_pipeline = None THEN <<Base>> ELSE connection.protocol_pipeline

\* connection.clientbound_pipeline or []
ClientboundList(connection) ==
    IF connection.clientbound_pipeline = None THEN <<>> ELSE connection.clientbound_pipeline

(***************************************************************************)
(* The packet events: each finds its list and starts the loop over it.     *)
(***************************************************************************)
on_packet_receive(a, packet) ==
    LET connection == Resolve(get_or_create(a))
        version == IF packet \in {REQUEST_NETWORK_SETTINGS, LOGIN} THEN session[a].version ELSE None
    IN  /\ Idle /\ MayReceive(a, packet)
        /\ connections' = WithConnection(a, connection)
        /\ event' = Loop(a, SERVERBOUND, packet, ServerboundList(connection), version)
        /\ UNCHANGED <<session, last>>

\* Without a connection, or before its lists are known, the packet is left alone.
on_packet_send(a, packet) ==
    /\ Idle /\ MaySend(a, packet)
    /\ IF a \in DOMAIN connections /\ connections[a].protocol_pipeline # None
       THEN /\ event' = Loop(a, CLIENTBOUND, packet, ClientboundList(connections[a]), None)
            /\ UNCHANGED last
       ELSE /\ last' = Event(a, CLIENTBOUND, packet, [forwarded |-> TRUE, trail |-> <<>>], None)
            /\ UNCHANGED event
    /\ UNCHANGED <<session, connections>>

(***************************************************************************)
(* One turn of the loop.                                                   *)
(***************************************************************************)
AtProtocol == event.at \in 1 .. Len(event.pipeline)
AtHand == event.pipeline[event.at]
Knows == has_handler_or_cancel(AtHand, event.direction, event.packet)
IsCancelled == event.packet \in Cancels(AtHand, event.direction)

\* Where the version in the packet is rewritten: the two serverbound handlers of the base protocol.
AtBase == AtHand = Base /\ event.direction = SERVERBOUND

Ran == [i \in DOMAIN event.trail \cup {event.at} |-> event.pipeline[i]]

\* A faulty variant: a client that is known is not detected again.
Detect_Once(connection) ==
    IF event.packet = REQUEST_NETWORK_SETTINGS /\ connection.client_protocol = 0
    THEN [connection EXCEPT !.client_protocol = event.seen]
    ELSE connection

\* detect_client_protocol
Detect(connection) ==
    IF event.packet = REQUEST_NETWORK_SETTINGS
    THEN [connection EXCEPT !.client_protocol = event.seen]
    ELSE connection

PassBy ==
    /\ AtProtocol /\ ~Knows
    /\ event' = [event EXCEPT !.at = @ + 1]
    /\ UNCHANGED <<session, connections, last>>

\* The handler returns, and the next protocol gets what it has written.
Transform ==
    /\ AtProtocol /\ Knows /\ ~IsCancelled
    /\ event' = [event EXCEPT !.at = @ + 1, !.trail = Ran, !.seen = IF AtBase THEN ServerProtocol ELSE @]
    /\ connections' = IF AtBase THEN WithConnection(event.address, Detect(connections[event.address]))
                      ELSE connections
    /\ UNCHANGED <<session, last>>

\* The server or the client gets the packet, or does not.
Ends(forwarded, trail) ==
    /\ event' = NoLoop
    /\ last' = Event(event.address, event.direction, event.packet,
                     [forwarded |-> forwarded, trail |-> trail], IF forwarded THEN event.seen ELSE None)
    /\ IF event.direction = SERVERBOUND THEN Received(event.address, event.packet, forwarded)
       ELSE UNCHANGED session
    /\ UNCHANGED connections

\* A faulty variant: what raises or cancels ends the loop, and the packet goes out as far as it got.
Stop_Forwarded ==
    /\ AtProtocol /\ Knows /\ (IsCancelled \/ MayStop(AtHand, event.direction))
    /\ Ends(TRUE, Ran)

\* The protocol drops the packet by its table, or its handler raises or cancels.
Stop ==
    /\ AtProtocol /\ Knows /\ (IsCancelled \/ MayStop(AtHand, event.direction))
    /\ Ends(FALSE, Ran)

Finish == ~Idle /\ ~AtProtocol /\ Ends(TRUE, event.trail)

\* A faulty variant: only translated clients are gated.
Refused_Translated(a) ==
    /\ a \in DOMAIN connections
    /\ connections[a].clientbound_pipeline # None
    /\ connections[a].client_protocol \in Blocked

\* The login gate: the connection's client version decides.
Refused(a) ==
    (IF a \in DOMAIN connections THEN connections[a].client_protocol ELSE 0) \in Blocked

on_player_login(a) ==
    /\ Idle /\ LoggedIn(a, Refused(a))
    /\ UNCHANGED <<connections, event, last>>

on_player_quit(a) ==
    /\ Idle /\ Quit(a)
    /\ connections' = remove_by_player(a)
    /\ UNCHANGED <<event, last>>

\* Steps of the world that raise no event.
Silent(a) ==
    /\ Idle
    /\ (\E version \in ClientVersions : Open(a, version)) \/ Lose(a)
    /\ UNCHANGED <<connections, event, last>>

Next ==
    \/ PassBy \/ Transform \/ Stop \/ Finish
    \/ \E a \in Addresses :
        \/ Silent(a)
        \/ \E packet \in ServerboundPackets \cup {REQUEST_NETWORK_SETTINGS, LOGIN} : on_packet_receive(a, packet)
        \/ \E packet \in EarlyPackets \cup ClientboundPackets : on_packet_send(a, packet)
        \/ on_player_login(a)
        \/ on_player_quit(a)

Spec == Init /\ [][Next]_vars

-----------------------------------------------------------------------------
(***************************************************************************)
(* Properties.                                                             *)
(***************************************************************************)

\* The types of the connections and of the sessions, and the place of the loop in its list.
TypeOK ==
    /\ session \in [Addresses -> Sessions]
    /\ DOMAIN connections \subseteq Addresses
    /\ \A a \in DOMAIN connections : connections[a] \in UserConnections
    /\ event.pipeline \in Lists
    /\ event.at \in 0 .. Len(event.pipeline) + 1
    /\ ~Idle => event.address \in Addresses

(***************************************************************************)
(* A cached list is the one for the connection's client version: the base  *)
(* protocol and the chain for it, and the same with the chain reversed for *)
(* clientbound packets (pipeline.py:240-246).  The cache is never          *)
(* invalidated, so the client version must not change once it is filled.   *)
(***************************************************************************)
ListsOf(version) ==
    LET path == get_path(ServerProtocol, version)
    IN  IF version = ServerProtocol \/ path = None
        THEN [serverbound |-> <<Base>>, clientbound |-> None]
        ELSE [serverbound |-> <<Base>> \o path, clientbound |-> <<Base>> \o Reverse(path)]

PipelineAgrees ==
    \A a \in DOMAIN connections :
        LET c == connections[a]
        IN  IF c.protocol_pipeline = None THEN c.clientbound_pipeline = None
            ELSE /\ c.client_protocol # 0
                 /\ c.protocol_pipeline = ListsOf(c.client_protocol).serverbound
                 /\ c.clientbound_pipeline = ListsOf(c.client_protocol).clientbound

(***************************************************************************)
(* Once a client has named its version, the connection at its address      *)
(* exists and holds that version, whatever an earlier session left there:  *)
(* what the login gate decides on is the version of the client at hand.    *)
(***************************************************************************)
KnowsClient ==
    \A a \in Addresses :
        InPhase(a, {"settings", "login", "joined", "refused"}) =>
            a \in DOMAIN connections /\ connections[a].client_protocol = session[a].version

\* No client of a gated version becomes a player (plugin.py:148-160).
GateHolds ==
    \A a \in Addresses : InPhase(a, {"joined"}) => session[a].version \notin Blocked

(***************************************************************************)
(* Protocol.init is called once for a connection, when its chain is first  *)
(* resolved, and not for a connection without a chain                      *)
(* (protocol/__init__.py:67-74).                                           *)
(***************************************************************************)
InitOnce ==
    \A a \in DOMAIN connections :
        connections[a].inits = IF connections[a].clientbound_pipeline = None THEN 0 ELSE 1

(***************************************************************************)
(* The base protocol processes every packet it has a handler for, whatever *)
(* the versions: "Base protocols are always included" (pipeline.py:241).   *)
(***************************************************************************)
BaseAlwaysIncluded ==
    last.forwarded /\ last.packet \in Handlers(Base, last.direction)
        => \E i \in DOMAIN last.trail : last.trail[i] = Base

(***************************************************************************)
(* Whatever raises or cancels in the middle of the loop, a packet is never *)
(* let through half translated (pipeline.py:90-117): it is forwarded when  *)
(* every protocol that knows it, of the list that its connection has, was  *)
(* run and none of them drops it; else it is cancelled at one of them, and *)
(* the ones behind that were not run.  So also at an address that another  *)
(* version has taken over, and when the first protocol of the list is the  *)
(* one that detects the client.                                            *)
(***************************************************************************)
ListAt(a, direction) ==
    IF a \notin DOMAIN connections THEN <<>>
    ELSE IF direction = SERVERBOUND THEN ServerboundList(connections[a])
    ELSE ClientboundList(connections[a])

RanWhole(e) ==
    LET list == ListAt(e.address, e.direction)
        known == {i \in DOMAIN list : has_handler_or_cancel(list[i], e.direction, e.packet)}
        Run(positions) ==
            /\ DOMAIN e.trail = positions
            /\ \A i \in positions : e.trail[i] = list[i]
        Pass(positions) == \A i \in positions : e.packet \notin Cancels(list[i], e.direction)
    IN  IF e.forwarded THEN Run(known) /\ Pass(known)
        ELSE \E stop \in known : Run({i \in known : i <= stop}) /\ Pass({i \in known : i < stop})

AllOrNothing == [][RanWhole(last)']_last

(***************************************************************************)
(* The caches and the bookkeeping are invisible: every packet is rewritten *)
(* by the chain for the client connected now, in the order of its          *)
(* direction, and the gate holds.  The base protocol changes no packet of  *)
(* its own but for the version that the server sees, so it is not part of  *)
(* the trail that a Translator shows: there, positions are the chain's.    *)
(***************************************************************************)
AfterBase(trail) == [i \in {j - 1 : j \in {j \in DOMAIN trail : trail[j] # Base}} |-> trail[i + 1]]

Visible(e) == [e EXCEPT !.trail = AfterBase(@)]

Abstract == INSTANCE Translator WITH last <- Visible(last)

Translates == Abstract!Spec
============================================================================
