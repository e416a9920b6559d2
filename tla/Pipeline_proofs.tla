-------------------------- MODULE Pipeline_proofs --------------------------
(***************************************************************************)
(* The connections, for every number of addresses, every set of versions   *)
(* and every table of handlers: what the login gate relies on holds        *)
(* whoever turns up at an address.                                         *)
(***************************************************************************)
EXTENDS Pipeline, TLAPS

\* A list with the base protocol at its head, and nowhere else.
Headed(list) ==
    /\ list \in Lists
    /\ Len(list) >= 1 /\ list[1] = Base
    /\ \A i \in 2 .. Len(list) : list[i] # Base

\* A connection as the event handlers leave it: its type, and that of its lists, which come together.
ConnectionOK(c) ==
    /\ c \in UserConnections
    /\ c.protocol_pipeline # None => Headed(c.protocol_pipeline)
    /\ c.protocol_pipeline = None => c.clientbound_pipeline = None

ConnectionsOK ==
    /\ DOMAIN connections \subseteq Addresses
    /\ \A a \in DOMAIN connections : ConnectionOK(connections[a])

SessionsOK == session \in [Addresses -> Sessions]

\* What the loop has done so far: it has run every protocol that knows the packet, and none dropped it.
RunSoFar ==
    /\ event.trail = Trail(event.pipeline, event.direction, event.packet, event.at - 1)
    /\ \A i \in 1 .. event.at - 1 : ~Drops(event.pipeline, event.direction, event.packet, i)

(***************************************************************************)
(* The loop of a serverbound packet is that of a connection, and the first *)
(* protocol of its list tells that connection the version that             *)
(* RequestNetworkSettings names.                                           *)
(***************************************************************************)
Receiving ==
    event.direction = SERVERBOUND =>
        /\ event.address \in DOMAIN connections
        /\ Headed(event.pipeline)
        /\ MayReceive(event.address, event.packet)
        /\ event.packet = REQUEST_NETWORK_SETTINGS =>
               IF event.at = 1 THEN event.seen = session[event.address].version
               ELSE connections[event.address].client_protocol = session[event.address].version

Running ==
    /\ event.address \in Addresses
    /\ event.direction \in {SERVERBOUND, CLIENTBOUND}
    /\ event.pipeline = ListAt(event.address, event.direction)
    /\ RunSoFar
    /\ Receiving

\* A record of the shape that Loop makes.
IsLoop(e) ==
    e = [address |-> e.address, direction |-> e.direction, packet |-> e.packet,
         pipeline |-> e.pipeline, at |-> e.at, trail |-> e.trail, seen |-> e.seen]

LoopOK ==
    /\ event.pipeline \in Lists
    /\ event.at \in 0 .. Len(event.pipeline) + 1
    /\ IsLoop(event)
    /\ ~Idle => Running

\* The invariant behind the gate.
GateInv == SessionsOK /\ ConnectionsOK /\ LoopOK /\ KnowsClient /\ GateHolds

-----------------------------------------------------------------------------
(***************************************************************************)
(* Lemmas on the operators.                                                *)
(***************************************************************************)

\* Nothing was run before the first position.
LEMMA EmptyTrail ==
    ASSUME NEW list, NEW direction, NEW packet
    PROVE  Trail(list, direction, packet, 0) = <<>>
BY DEF Trail

\* A position more adds itself to the trail, if the protocol there knows the packet.
LEMMA TrailGrows ==
    ASSUME NEW list, NEW direction, NEW packet, NEW n \in Nat \ {0},
           NEW before, before = Trail(list, direction, packet, n - 1)
    PROVE  Trail(list, direction, packet, n) =
               IF has_handler_or_cancel(list[n], direction, packet)
               THEN [i \in DOMAIN before \cup {n} |-> list[i]]
               ELSE before
<1> DEFINE known(m) == {j \in 1 .. m : has_handler_or_cancel(list[j], direction, packet)}
<1>1. 1 .. n = (1 .. n - 1) \cup {n}
  OBVIOUS
<1>2. known(n) = IF has_handler_or_cancel(list[n], direction, packet) THEN known(n - 1) \cup {n} ELSE known(n - 1)
  BY <1>1
<1>3. DOMAIN Trail(list, direction, packet, n - 1) = known(n - 1)
  BY DEF Trail
<1>4. Trail(list, direction, packet, n) = [i \in known(n) |-> list[i]]
  BY Zenon DEF Trail
<1>5. Trail(list, direction, packet, n - 1) = [i \in known(n - 1) |-> list[i]]
  BY Zenon DEF Trail
<1> HIDE DEF known
<1> QED
  BY <1>2, <1>3, <1>4, <1>5, Zenon

\* A connection's lists are sequences of protocols.
LEMMA ListTypes ==
    ASSUME NEW chain \in Seq(Pool)
    PROVE  /\ Headed(<<Base>> \o chain)
           /\ <<Base>> \o Reverse(chain) \in Lists
<1>1. Reverse(chain) \in Seq(Pool)
  BY DEF Reverse
<1>2. chain \in Lists /\ Reverse(chain) \in Lists /\ <<Base>> \in Lists
  BY <1>1 DEF Lists
<1>3. \A i \in 2 .. Len(<<Base>> \o chain) : (<<Base>> \o chain)[i] \in Pool
  OBVIOUS
<1> QED
  BY <1>2, <1>3, BaseApartAssumption DEF Lists, Headed

\* The base protocol alone is one.
LEMMA BaseAlone == Headed(<<Base>>)
BY DEF Headed, Lists

\* _get_pipeline leaves a connection well formed, with the client version it had.
LEMMA ResolveKeeps ==
    ASSUME NEW c, ConnectionOK(c)
    PROVE  ConnectionOK(Resolve(c)) /\ Resolve(c).client_protocol = c.client_protocol
<1> DEFINE chain == get_path(ServerProtocol, c.client_protocol)
<1>1. CASE c.protocol_pipeline # None \/ c.client_protocol = 0
  BY <1>1 DEF Resolve, Settled
<1>2. CASE ~(c.protocol_pipeline # None \/ c.client_protocol = 0)
  <2>1. c.client_protocol \in Versions
    BY <1>2, ClientVersionsAssumption DEF ConnectionOK, UserConnections
  <2>2. chain \in Seq(Pool) \cup {None}
    BY <2>1, GetPathAssumption
  <2>3. CASE needs_translation(c) /\ chain # None
    <3>1. Resolve(c) = [client_protocol |-> c.client_protocol,
                        warned_no_chain |-> c.warned_no_chain \/ FALSE,
                        protocol_pipeline |-> <<Base>> \o chain,
                        clientbound_pipeline |-> <<Base>> \o Reverse(chain),
                        inits |-> c.inits + 1]
      BY <1>2, <2>3, Zenon DEF Resolve, Settled, ClientboundOrder
    <3>2. Headed(<<Base>> \o chain) /\ <<Base>> \o Reverse(chain) \in Lists
      BY <2>2, <2>3, ListTypes
    <3>3. <<Base>> \o chain \in Lists /\ <<Base>> \o chain # None
      BY <3>2, NoPipelineAssumption DEF Headed, Lists
    <3> HIDE DEF chain
    <3> DEFINE up == <<Base>> \o chain
               down == <<Base>> \o Reverse(chain)
    <3>4. /\ Resolve(c).client_protocol = c.client_protocol
          /\ Resolve(c).protocol_pipeline = up
          /\ Resolve(c) \in UserConnections
      <4>1. up \in Lists /\ down \in Lists
        BY <3>2, <3>3
      <4> HIDE DEF up, down
      <4> QED
        BY <3>1, <4>1 DEF ConnectionOK, UserConnections, up, down
    <3> QED
      BY <3>2, <3>3, <3>4 DEF ConnectionOK
  <2>4. CASE ~(needs_translation(c) /\ chain # None)
    <3>1. Resolve(c) = [client_protocol |-> c.client_protocol,
                        warned_no_chain |-> c.warned_no_chain \/ needs_translation(c),
                        protocol_pipeline |-> <<Base>>,
                        clientbound_pipeline |-> c.clientbound_pipeline,
                        inits |-> c.inits]
      BY <1>2, <2>4, Zenon DEF Resolve, Settled
    <3>2. (c.warned_no_chain \/ needs_translation(c)) \in BOOLEAN
      BY DEF needs_translation
    <3>3. <<Base>> \in Lists /\ <<Base>> # None
      BY BaseAlone, NoPipelineAssumption DEF Headed, Lists
    <3> QED
      BY <3>1, <3>2, <3>3, BaseAlone DEF ConnectionOK, UserConnections
  <2> QED
    BY <2>3, <2>4
<1> QED
  BY <1>1, <1>2

\* The base protocol heads the list that serverbound packets are run through.
LEMMA BaseHeads ==
    ASSUME NEW c, ConnectionOK(c)
    PROVE  Headed(ServerboundList(c)) /\ ClientboundList(c) \in Lists
BY BaseAlone DEF ConnectionOK, ServerboundList, ClientboundList, UserConnections, Lists

\* A connection is found well formed, or created so.
LEMMA GetOrCreate ==
    ASSUME ConnectionsOK, NEW a
    PROVE  ConnectionOK(get_or_create(a))
BY DEF ConnectionsOK, get_or_create, NewConnection, ConnectionOK, UserConnections

\* detect_client_protocol leaves a connection well formed, and only touches the client version.
LEMMA DetectKeeps ==
    ASSUME NEW c, ConnectionOK(c),
           event.packet = REQUEST_NETWORK_SETTINGS => event.seen \in ClientVersions \cup {0}
    PROVE  /\ ConnectionOK(Detect(c))
           /\ Detect(c).protocol_pipeline = c.protocol_pipeline
           /\ Detect(c).clientbound_pipeline = c.clientbound_pipeline
           /\ Detect(c).inits = c.inits
           /\ Detect(c).client_protocol = IF event.packet = REQUEST_NETWORK_SETTINGS THEN event.seen
                                          ELSE c.client_protocol
<1> DEFINE d == [c EXCEPT !.client_protocol = event.seen]
<1>1. CASE event.packet = REQUEST_NETWORK_SETTINGS
  <2>1. d \in UserConnections
    BY <1>1 DEF ConnectionOK, UserConnections
  <2>2. /\ d.protocol_pipeline = c.protocol_pipeline
        /\ d.clientbound_pipeline = c.clientbound_pipeline
        /\ d.inits = c.inits
        /\ d.client_protocol = event.seen
    BY DEF ConnectionOK, UserConnections
  <2>3. Detect(c) = d
    BY <1>1 DEF Detect
  <2> HIDE DEF d
  <2> QED
    BY <1>1, <2>1, <2>2, <2>3 DEF ConnectionOK
<1>2. CASE event.packet # REQUEST_NETWORK_SETTINGS
  BY <1>2 DEF Detect
<1> QED
  BY <1>1, <1>2

-----------------------------------------------------------------------------
(***************************************************************************)
(* What the sessions do.                                                   *)
(***************************************************************************)

\* A session that moves to another phase keeps its version; the others are left alone.
LEMMA MoveToKeeps ==
    ASSUME SessionsOK, NEW a \in Addresses, NEW phase \in Phases, MoveTo(a, phase)
    PROVE  /\ SessionsOK'
           /\ session'[a].phase = phase /\ session'[a].version = session[a].version
           /\ \A b \in Addresses \ {a} : session'[b] = session[b]
BY DEF SessionsOK, MoveTo, Sessions, Phases

\* A received packet moves the session on only if it was forwarded, and never changes its version.
LEMMA ReceivedKeeps ==
    ASSUME SessionsOK, NEW a \in Addresses, NEW packet, NEW forwarded, Received(a, packet, forwarded),
           MayReceive(a, packet)
    PROVE  /\ SessionsOK'
           /\ session'[a].version = session[a].version
           /\ session'[a].phase = session[a].phase \/ session'[a].phase \in {"settings", "login"}
           /\ session'[a].phase = "settings" => session[a].phase = "settings"
                                               \/ (forwarded /\ packet = REQUEST_NETWORK_SETTINGS)
           /\ session'[a].phase = "login" => session[a].phase \in {"settings", "login"}
           /\ \A b \in Addresses \ {a} : session'[b] = session[b]
<1>1. CASE forwarded /\ packet = REQUEST_NETWORK_SETTINGS
  <2>1. MoveTo(a, "settings")
    BY <1>1 DEF Received, MoveTo
  <2> QED
    BY <1>1, <2>1, MoveToKeeps DEF Phases
<1>2. CASE forwarded /\ packet = LOGIN
  <2>1. MoveTo(a, "login") /\ packet # REQUEST_NETWORK_SETTINGS
    BY <1>2 DEF Received, MoveTo, LOGIN, REQUEST_NETWORK_SETTINGS
  <2>2. session[a].phase = "settings"
    BY <1>2, <2>1, PacketsAssumption DEF MayReceive, InPhase
  <2> QED
    BY <1>2, <2>1, <2>2, MoveToKeeps DEF Phases
<1>3. CASE ~(forwarded /\ packet = REQUEST_NETWORK_SETTINGS) /\ ~(forwarded /\ packet = LOGIN)
  <2>1. session' = session
    BY <1>3 DEF Received
  <2> QED
    BY <2>1 DEF SessionsOK
<1> QED
  BY <1>1, <1>2, <1>3

-----------------------------------------------------------------------------
(***************************************************************************)
(* The invariant behind the gate, action by action.                        *)
(***************************************************************************)

Named == {"settings", "login", "joined", "refused"}

\* Between two loops there is nothing to say of one.
LEMMA IdleIsOK ==
    ASSUME LoopOK, Idle, UNCHANGED event
    PROVE  LoopOK'
BY DEF LoopOK, Idle, IsLoop

\* What a loop starts with, and what is left when it has ended.
LEMMA Starts ==
    ASSUME NEW a, NEW direction, NEW packet, NEW pipeline, NEW version
    PROVE  LET e == Loop(a, direction, packet, pipeline, version)
           IN  /\ IsLoop(e) /\ e.address = a /\ e.direction = direction /\ e.packet = packet
               /\ e.pipeline = pipeline /\ e.at = 1 /\ e.trail = <<>> /\ e.seen = version
BY DEF Loop, IsLoop

LEMMA NoLoopIsOK ==
    /\ IsLoop(NoLoop) /\ NoLoop.at = 0 /\ NoLoop.pipeline = <<>>
    /\ NoLoop.pipeline \in Lists /\ NoLoop.at \in 0 .. Len(NoLoop.pipeline) + 1
<1>1. IsLoop(NoLoop) /\ NoLoop.at = 0 /\ NoLoop.pipeline = <<>>
  BY DEF NoLoop, Loop, IsLoop
<1>2. <<>> \in Lists /\ Len(<<>>) = 0
  BY DEF Lists
<1> QED
  BY <1>1, <1>2

\* A packet event starts its loop, and keeps the connection's version.
LEMMA ReceiveStarts ==
    ASSUME GateInv, NEW a \in Addresses, NEW packet, on_packet_receive(a, packet)
    PROVE  LET c == Resolve(get_or_create(a))
           IN  /\ ConnectionOK(get_or_create(a)) /\ ConnectionOK(c)
               /\ c.client_protocol = get_or_create(a).client_protocol
               /\ DOMAIN connections' = DOMAIN connections \cup {a}
               /\ connections'[a] = c
               /\ \A b \in DOMAIN connections \ {a} : connections'[b] = connections[b]
<1>1. connections' = WithConnection(a, Resolve(get_or_create(a)))
  BY DEF on_packet_receive
<1>2. ConnectionOK(get_or_create(a))
  BY GetOrCreate DEF GateInv
<1> QED
  BY <1>1, <1>2, ResolveKeeps DEF WithConnection

\* A received packet keeps it.
LEMMA ReceiveKeepsGate ==
    ASSUME GateInv, NEW a \in Addresses,
           NEW packet \in ServerboundPackets \cup {REQUEST_NETWORK_SETTINGS, LOGIN},
           on_packet_receive(a, packet)
    PROVE  GateInv'
<1> DEFINE c == Resolve(get_or_create(a))
           version == IF packet \in {REQUEST_NETWORK_SETTINGS, LOGIN} THEN session[a].version ELSE None
<1>1. /\ MayReceive(a, packet) /\ UNCHANGED session
      /\ event' = Loop(a, SERVERBOUND, packet, ServerboundList(c), version)
  BY DEF on_packet_receive
<1>2. /\ ConnectionOK(c)
      /\ c.client_protocol = get_or_create(a).client_protocol
      /\ DOMAIN connections' = DOMAIN connections \cup {a}
      /\ connections'[a] = c
      /\ \A b \in DOMAIN connections \ {a} : connections'[b] = connections[b]
  BY ReceiveStarts
<1> HIDE DEF c
<1>3. SessionsOK' /\ GateHolds'
  BY <1>1 DEF GateInv, SessionsOK, GateHolds, InPhase
<1>4. ConnectionsOK'
  BY <1>2 DEF GateInv, ConnectionsOK
<1>5. KnowsClient'
  <2>1. a \in DOMAIN connections => c.client_protocol = connections[a].client_protocol
    BY <1>2 DEF get_or_create
  <2> QED
    BY <1>1, <1>2, <2>1 DEF GateInv, KnowsClient, InPhase
<1>6. LoopOK'
  <2>1. /\ IsLoop(event') /\ event'.address = a /\ event'.direction = SERVERBOUND /\ event'.packet = packet
        /\ event'.pipeline = ServerboundList(c) /\ event'.at = 1 /\ event'.trail = <<>> /\ event'.seen = version
    BY <1>1, Starts
  <2>2. Headed(ServerboundList(c)) /\ ServerboundList(c) \in Lists
    BY <1>2, BaseHeads DEF Headed
  <2>3. event'.at \in 0 .. Len(event'.pipeline) + 1
    BY <2>1, <2>2 DEF Lists
  <2>4. event'.pipeline = ListAt(event.address, event.direction)'
    BY <1>2, <2>1 DEF ListAt
  <2>5. RunSoFar'
    <3>1. event'.trail = Trail(event'.pipeline, event'.direction, event'.packet, event'.at - 1)
      BY <2>1, EmptyTrail
    <3> QED
      BY <2>1, <3>1 DEF RunSoFar
  <2>6. Receiving'
    <3>1. MayReceive(a, packet)'
      BY <1>1 DEF MayReceive, InPhase
    <3>2. packet = REQUEST_NETWORK_SETTINGS => version = session'[a].version
      BY <1>1
    <3> HIDE DEF version
    <3> QED
      BY <1>2, <2>1, <2>2, <3>1, <3>2 DEF Receiving
  <2> QED
    BY <2>1, <2>2, <2>3, <2>4, <2>5, <2>6 DEF LoopOK, Running
<1> QED
  BY <1>3, <1>4, <1>5, <1>6 DEF GateInv

\* So does a sent one.
LEMMA SendKeepsGate ==
    ASSUME GateInv, NEW a \in Addresses, NEW packet, on_packet_send(a, packet)
    PROVE  GateInv'
<1>1. Idle /\ UNCHANGED <<session, connections>>
  BY DEF on_packet_send
<1>2. SessionsOK' /\ ConnectionsOK' /\ KnowsClient' /\ GateHolds'
  BY <1>1 DEF GateInv, SessionsOK, ConnectionsOK, KnowsClient, GateHolds, InPhase
<1>3. CASE a \in DOMAIN connections /\ connections[a].protocol_pipeline # None
  <2>1. event' = Loop(a, CLIENTBOUND, packet, ClientboundList(connections[a]), None)
    BY <1>3 DEF on_packet_send
  <2>2. /\ IsLoop(event') /\ event'.address = a /\ event'.direction = CLIENTBOUND /\ event'.packet = packet
        /\ event'.pipeline = ClientboundList(connections[a]) /\ event'.at = 1 /\ event'.trail = <<>>
    BY <2>1, Starts
  <2>3. ClientboundList(connections[a]) \in Lists
    BY <1>3, BaseHeads DEF GateInv, ConnectionsOK
  <2>4. event'.at \in 0 .. Len(event'.pipeline) + 1
    BY <2>2, <2>3 DEF Lists
  <2>5. event'.pipeline = ListAt(event.address, event.direction)'
    BY <1>1, <1>3, <2>2 DEF ListAt, SERVERBOUND, CLIENTBOUND
  <2>6. RunSoFar'
    <3>1. event'.trail = Trail(event'.pipeline, event'.direction, event'.packet, event'.at - 1)
      BY <2>2, EmptyTrail
    <3> QED
      BY <2>2, <3>1 DEF RunSoFar
  <2>7. Receiving'
    BY <2>2 DEF Receiving, SERVERBOUND, CLIENTBOUND
  <2> QED
    BY <1>2, <2>2, <2>3, <2>4, <2>5, <2>6, <2>7 DEF GateInv, LoopOK, Running
<1>4. CASE ~(a \in DOMAIN connections /\ connections[a].protocol_pipeline # None)
  BY <1>1, <1>2, <1>4, IdleIsOK DEF GateInv, on_packet_send
<1> QED
  BY <1>3, <1>4

\* At a protocol the loop is running.
LEMMA AtProtocolRuns ==
    ASSUME LoopOK, AtProtocol
    PROVE  /\ ~Idle /\ Running /\ Len(event.pipeline) \in Nat
           /\ event.at \in 1 .. Len(event.pipeline)
           /\ event.at + 1 \in 1 .. Len(event.pipeline) + 1 /\ (event.at + 1) - 1 = event.at
<1>1. Len(event.pipeline) \in Nat
  BY DEF LoopOK, Lists
<1> QED
  BY <1>1 DEF LoopOK, AtProtocol, Idle

\* What is run when the protocol at hand is, too.
LEMMA RanGrows ==
    ASSUME RunSoFar, event.at \in Nat \ {0}
    PROVE  Trail(event.pipeline, event.direction, event.packet, event.at) = IF Knows THEN Ran ELSE event.trail
<1> DEFINE list == event.pipeline
           direction == event.direction
           packet == event.packet
           n == event.at
           before == event.trail
<1>1. before = Trail(list, direction, packet, n - 1) /\ n \in Nat \ {0}
  BY DEF RunSoFar
<1>2. Knows <=> has_handler_or_cancel(list[n], direction, packet)
  BY DEF Knows, AtHand
<1>3. Ran = [i \in DOMAIN before \cup {n} |-> list[i]]
  BY Zenon DEF Ran
<1> HIDE DEF list, direction, packet, n, before
<1>4. Trail(list, direction, packet, n) = IF has_handler_or_cancel(list[n], direction, packet)
                                          THEN [i \in DOMAIN before \cup {n} |-> list[i]]
                                          ELSE before
  BY <1>1, TrailGrows
<1>5. Trail(list, direction, packet, n) = IF Knows THEN Ran ELSE before
  BY <1>2, <1>3, <1>4, Zenon
<1> QED
  BY <1>5 DEF list, direction, packet, n, before

\* One turn more: what is run is all that knows the packet so far.
LEMMA NextTurn ==
    ASSUME LoopOK, AtProtocol, NEW trail, NEW seen, IsLoop(event'),
           event'.address = event.address, event'.direction = event.direction,
           event'.packet = event.packet, event'.pipeline = event.pipeline,
           event'.at = event.at + 1, event'.trail = trail,
           IF Knows THEN trail = Ran /\ ~IsCancelled ELSE trail = event.trail
    PROVE  RunSoFar'
<1>1. /\ event.at \in Nat \ {0} /\ (event.at + 1) - 1 = event.at /\ RunSoFar
      /\ 1 .. event.at = (1 .. event.at - 1) \cup {event.at}
  BY AtProtocolRuns DEF Running
<1>2. trail = Trail(event.pipeline, event.direction, event.packet, event.at)
  BY <1>1, RanGrows
<1>3. ~Drops(event.pipeline, event.direction, event.packet, event.at)
  BY DEF Drops, Knows, IsCancelled, AtHand, has_handler_or_cancel
<1> QED
  BY <1>1, <1>2, <1>3 DEF RunSoFar

\* A protocol that does not know the packet keeps it; RequestNetworkSettings is known to the first one.
LEMMA PassByKeepsGate ==
    ASSUME GateInv, PassBy
    PROVE  GateInv'
<1>1. /\ AtProtocol /\ ~Knows /\ UNCHANGED <<session, connections>>
      /\ event' = [event EXCEPT !.at = @ + 1]
  BY DEF PassBy
<1>2. SessionsOK' /\ ConnectionsOK' /\ KnowsClient' /\ GateHolds'
  BY <1>1 DEF GateInv, SessionsOK, ConnectionsOK, KnowsClient, GateHolds, InPhase
<1>3. /\ IsLoop(event') /\ event'.address = event.address /\ event'.direction = event.direction
      /\ event'.packet = event.packet /\ event'.pipeline = event.pipeline
      /\ event'.at = event.at + 1 /\ event'.trail = event.trail /\ event'.seen = event.seen
  BY <1>1 DEF GateInv, LoopOK, IsLoop
<1>4. /\ Running /\ event.at \in 1 .. Len(event.pipeline) /\ Len(event.pipeline) \in Nat
      /\ event.at + 1 \in 1 .. Len(event.pipeline) + 1 /\ LoopOK
  BY <1>1, AtProtocolRuns DEF GateInv
<1>5. RunSoFar'
  BY <1>1, <1>3, <1>4, NextTurn
<1>6. Receiving'
  <2>1. ASSUME event.direction = SERVERBOUND, event.packet = REQUEST_NETWORK_SETTINGS PROVE event.at # 1
    BY <1>1, <1>4, <2>1 DEF Running, Receiving, Headed, Knows, AtHand, has_handler_or_cancel, Handlers
  <2>2. event.direction = SERVERBOUND => MayReceive(event.address, event.packet)'
    BY <1>1, <1>3, <1>4 DEF Running, Receiving, MayReceive, InPhase
  <2> QED
    BY <1>1, <1>3, <1>4, <2>1, <2>2 DEF Running, Receiving
<1>7. LoopOK'
  <2>1. event'.pipeline = ListAt(event.address, event.direction)'
    BY <1>1, <1>3, <1>4 DEF Running, ListAt
  <2> QED
    BY <1>3, <1>4, <1>5, <1>6, <2>1 DEF LoopOK, Running
<1> QED
  BY <1>2, <1>7 DEF GateInv

\* The base protocol comes first: what it reads in a packet is what the client has written.
LEMMA BaseIsFirst ==
    ASSUME LoopOK, AtProtocol, AtBase
    PROVE  event.direction = SERVERBOUND /\ event.at = 1 /\ Receiving
<1>1. Running /\ event.at \in 1 .. Len(event.pipeline) /\ Len(event.pipeline) \in Nat
  BY AtProtocolRuns
<1>2. Headed(event.pipeline) /\ event.pipeline[event.at] = Base /\ event.direction = SERVERBOUND
  BY <1>1 DEF Running, Receiving, AtBase, AtHand
<1> QED
  BY <1>1, <1>2 DEF Running, Headed

\* What a handler does to the connections: only the base protocol's first one does anything.
LEMMA TransformDetects ==
    ASSUME GateInv, Transform
    PROVE  LET a == event.address
               detects == AtBase /\ event.packet = REQUEST_NETWORK_SETTINGS
           IN  /\ DOMAIN connections' = DOMAIN connections
               /\ \A b \in DOMAIN connections \ {a} : connections'[b] = connections[b]
               /\ a \in DOMAIN connections =>
                     /\ ConnectionOK(connections'[a])
                     /\ connections'[a].protocol_pipeline = connections[a].protocol_pipeline
                     /\ connections'[a].clientbound_pipeline = connections[a].clientbound_pipeline
                     /\ connections'[a].inits = connections[a].inits
                     /\ connections'[a].client_protocol = IF detects THEN session[a].version
                                                          ELSE connections[a].client_protocol
               /\ detects => a \in DOMAIN connections /\ session[a].phase = "open" /\ event.at = 1
<1> DEFINE a == event.address
<1>1. CASE ~AtBase
  <2>1. UNCHANGED connections
    BY <1>1 DEF Transform
  <2> QED
    BY <1>1, <2>1 DEF GateInv, ConnectionsOK
<1>2. CASE AtBase
  <2>1. event.direction = SERVERBOUND /\ event.at = 1 /\ Receiving
    BY <1>2, BaseIsFirst DEF GateInv, Transform
  <2>2. a \in DOMAIN connections /\ ConnectionOK(connections[a]) /\ a \in Addresses
    BY <2>1 DEF Receiving, GateInv, ConnectionsOK
  <2>3. event.packet = REQUEST_NETWORK_SETTINGS =>
            event.seen = session[a].version /\ session[a].version \in ClientVersions \cup {0}
            /\ session[a].phase = "open"
    BY <2>1, <2>2, PacketsAssumption
    DEF Receiving, GateInv, SessionsOK, Sessions, MayReceive, InPhase, LOGIN, REQUEST_NETWORK_SETTINGS
  <2>4. connections' = WithConnection(a, Detect(connections[a]))
    BY <1>2 DEF Transform
  <2>5. /\ DOMAIN connections' = DOMAIN connections
        /\ connections'[a] = Detect(connections[a])
        /\ \A b \in DOMAIN connections \ {a} : connections'[b] = connections[b]
    BY <2>2, <2>4 DEF WithConnection
  <2> HIDE DEF a
  <2>6. /\ ConnectionOK(Detect(connections[a]))
        /\ Detect(connections[a]).protocol_pipeline = connections[a].protocol_pipeline
        /\ Detect(connections[a]).clientbound_pipeline = connections[a].clientbound_pipeline
        /\ Detect(connections[a]).inits = connections[a].inits
        /\ Detect(connections[a]).client_protocol = IF event.packet = REQUEST_NETWORK_SETTINGS THEN event.seen
                                                    ELSE connections[a].client_protocol
    BY <2>2, <2>3, DetectKeeps
  <2> QED
    BY <1>2, <2>1, <2>2, <2>3, <2>5, <2>6 DEF a
<1> QED
  BY <1>1, <1>2

\* A handler keeps it: the base protocol tells the connection the version, the others tell it nothing.
LEMMA TransformKeepsGate ==
    ASSUME GateInv, Transform
    PROVE  GateInv'
<1> DEFINE a == event.address
           detects == AtBase /\ event.packet = REQUEST_NETWORK_SETTINGS
<1>1. /\ AtProtocol /\ Knows /\ ~IsCancelled /\ UNCHANGED session
      /\ event' = [event EXCEPT !.at = @ + 1, !.trail = Ran, !.seen = IF AtBase THEN ServerProtocol ELSE @]
  BY DEF Transform
<1>2. /\ DOMAIN connections' = DOMAIN connections
      /\ \A b \in DOMAIN connections \ {a} : connections'[b] = connections[b]
      /\ a \in DOMAIN connections =>
            /\ ConnectionOK(connections'[a])
            /\ connections'[a].protocol_pipeline = connections[a].protocol_pipeline
            /\ connections'[a].clientbound_pipeline = connections[a].clientbound_pipeline
            /\ connections'[a].client_protocol = IF detects THEN session[a].version
                                                 ELSE connections[a].client_protocol
  BY TransformDetects
<1>3. /\ IsLoop(event') /\ event'.address = a /\ event'.direction = event.direction
      /\ event'.packet = event.packet /\ event'.pipeline = event.pipeline
      /\ event'.at = event.at + 1 /\ event'.trail = Ran
  BY <1>1 DEF GateInv, LoopOK, IsLoop
<1>4. /\ Running /\ event.at \in 1 .. Len(event.pipeline) /\ Len(event.pipeline) \in Nat
      /\ event.at + 1 \in 1 .. Len(event.pipeline) + 1 /\ LoopOK
  BY <1>1, AtProtocolRuns DEF GateInv
<1>5. SessionsOK' /\ GateHolds'
  BY <1>1 DEF GateInv, SessionsOK, GateHolds, InPhase
<1>6. ConnectionsOK'
  BY <1>2 DEF GateInv, ConnectionsOK
<1>7. KnowsClient'
  <2> HIDE DEF a, detects
  <2> QED
    BY <1>1, <1>2 DEF GateInv, KnowsClient, InPhase
<1>8. RunSoFar'
  BY <1>1, <1>3, <1>4, NextTurn
<1>9. Receiving'
  <2> SUFFICES ASSUME event.direction = SERVERBOUND PROVE Receiving'
    BY <1>3 DEF Receiving
  <2>1. a \in DOMAIN connections /\ Headed(event.pipeline) /\ MayReceive(a, event.packet) /\ Receiving
    BY <1>4 DEF Running, Receiving
  <2>2. MayReceive(a, event.packet)'
    BY <1>1, <1>3, <2>1 DEF MayReceive, InPhase
  <2>3. event.packet = REQUEST_NETWORK_SETTINGS => connections'[a].client_protocol = session'[a].version
    <3>1. event.at = 1 => AtBase
      BY <2>1 DEF Headed, AtBase, AtHand
    <3>2. event.packet = REQUEST_NETWORK_SETTINGS /\ event.at # 1 => connections[a].client_protocol = session[a].version
      BY <2>1 DEF Receiving
    <3> QED
      BY <1>1, <1>2, <2>1, <3>1, <3>2
  <2> QED
    BY <1>2, <1>3, <1>4, <2>1, <2>2, <2>3 DEF Receiving
<1>10. event'.pipeline = ListAt(event.address, event.direction)'
  <2>1. event.pipeline = ListAt(a, event.direction)
    BY <1>4 DEF Running
  <2> QED
    BY <1>2, <1>3, <2>1 DEF ListAt, ServerboundList, ClientboundList
<1> QED
  BY <1>3, <1>4, <1>5, <1>6, <1>7, <1>8, <1>9, <1>10 DEF GateInv, LoopOK, Running

\* The end of a loop keeps it: a client has named its version once its packet has been through the list.
LEMMA EndsKeepsGate ==
    ASSUME GateInv, ~Idle, NEW forwarded, NEW trail, Ends(forwarded, trail),
           forwarded /\ event.direction = SERVERBOUND => event.at # 1
    PROVE  GateInv'
<1> DEFINE a == event.address
<1>1. event' = NoLoop /\ UNCHANGED connections /\ Running /\ a \in Addresses
  BY DEF Ends, GateInv, LoopOK, Running
<1>2. LoopOK'
  BY <1>1, NoLoopIsOK DEF LoopOK, Idle
<1>3. ConnectionsOK'
  BY <1>1 DEF GateInv, ConnectionsOK
<1>4. CASE event.direction = SERVERBOUND
  <2>1. Receiving /\ MayReceive(a, event.packet) /\ a \in DOMAIN connections
    BY <1>1, <1>4 DEF Running, Receiving
  <2>2. Received(a, event.packet, forwarded)
    BY <1>4 DEF Ends
  <2> HIDE DEF a
  <2>3. /\ SessionsOK'
        /\ session'[a].version = session[a].version
        /\ session'[a].phase = session[a].phase \/ session'[a].phase \in {"settings", "login"}
        /\ session'[a].phase = "settings" => session[a].phase = "settings"
                                            \/ (forwarded /\ event.packet = REQUEST_NETWORK_SETTINGS)
        /\ session'[a].phase = "login" => session[a].phase \in {"settings", "login"}
        /\ \A b \in Addresses \ {a} : session'[b] = session[b]
    BY <1>1, <2>1, <2>2, ReceivedKeeps DEF GateInv, a
  <2>4. forwarded /\ event.packet = REQUEST_NETWORK_SETTINGS => connections[a].client_protocol = session[a].version
    BY <1>4, <2>1 DEF Receiving, a
  <2>5. KnowsClient'
    BY <1>1, <2>1, <2>3, <2>4 DEF GateInv, KnowsClient, InPhase
  <2>6. GateHolds'
    BY <2>3 DEF GateInv, GateHolds, InPhase
  <2> QED
    BY <1>2, <1>3, <2>3, <2>5, <2>6 DEF GateInv
<1>5. CASE event.direction # SERVERBOUND
  <2>1. UNCHANGED session
    BY <1>5 DEF Ends
  <2> QED
    BY <1>1, <1>2, <1>3, <2>1 DEF GateInv, SessionsOK, KnowsClient, GateHolds, InPhase
<1> QED
  BY <1>4, <1>5

\* So do both its ends: by a protocol that stops it, or behind the last one.
LEMMA StopKeepsGate == ASSUME GateInv, Stop PROVE GateInv'
<1>1. ~Idle /\ Ends(FALSE, Ran)
  BY AtProtocolRuns DEF Stop, GateInv
<1> QED
  BY <1>1, EndsKeepsGate

\* Behind the last protocol the whole list is done, and it is not empty for a serverbound packet.
LEMMA FinishIsBehind ==
    ASSUME LoopOK, Finish
    PROVE  /\ Running /\ event.at = Len(event.pipeline) + 1 /\ Len(event.pipeline) \in Nat
           /\ event.direction = SERVERBOUND => Len(event.pipeline) >= 1 /\ event.at # 1
<1>1. Len(event.pipeline) \in Nat
  BY DEF LoopOK, Lists
<1>2. event.at = Len(event.pipeline) + 1 /\ Running
  BY <1>1 DEF LoopOK, Finish, Idle, AtProtocol
<1>3. event.direction = SERVERBOUND => Len(event.pipeline) >= 1
  BY <1>2 DEF Running, Receiving, Headed
<1> QED
  BY <1>1, <1>2, <1>3

LEMMA FinishKeepsGate == ASSUME GateInv, Finish PROVE GateInv'
<1>1. ~Idle /\ Ends(TRUE, event.trail) /\ LoopOK
  BY DEF Finish, GateInv
<1>2. event.direction = SERVERBOUND => event.at # 1
  BY <1>1, FinishIsBehind
<1> QED
  BY <1>1, <1>2, EndsKeepsGate

\* The login event keeps it: the connection's version is the client's.
LEMMA LoginKeepsGate ==
    ASSUME GateInv, NEW a \in Addresses, on_player_login(a)
    PROVE  GateInv'
<1>1. /\ session[a].phase = "login"
      /\ MoveTo(a, IF Refused(a) THEN "refused" ELSE "joined")
      /\ Idle /\ UNCHANGED <<connections, event>>
  BY DEF on_player_login, LoggedIn, InPhase
<1>2. a \in DOMAIN connections /\ connections[a].client_protocol = session[a].version
  BY <1>1 DEF GateInv, KnowsClient, InPhase
<1>3. Refused(a) <=> session[a].version \in Blocked
  BY <1>2 DEF Refused
<1>4. /\ SessionsOK'
      /\ session'[a].phase = (IF Refused(a) THEN "refused" ELSE "joined")
      /\ session'[a].version = session[a].version
      /\ \A b \in Addresses \ {a} : session'[b] = session[b]
  BY <1>1, MoveToKeeps DEF GateInv, Phases
<1>5. ConnectionsOK'
  BY <1>1 DEF GateInv, ConnectionsOK
<1>6. KnowsClient'
  BY <1>1, <1>2, <1>4 DEF GateInv, KnowsClient, InPhase
<1>7. GateHolds'
  BY <1>3, <1>4 DEF GateInv, GateHolds, InPhase
<1>8. LoopOK'
  BY <1>1, IdleIsOK DEF GateInv
<1> QED
  BY <1>4, <1>5, <1>6, <1>7, <1>8 DEF GateInv

\* A quit keeps it: the connection goes with the player.
LEMMA QuitKeepsGate ==
    ASSUME GateInv, NEW a \in Addresses, on_player_quit(a)
    PROVE  GateInv'
<1>1. Idle /\ MoveTo(a, "closed") /\ connections' = remove_by_player(a) /\ UNCHANGED event
  BY DEF on_player_quit, Quit
<1>2. /\ SessionsOK'
      /\ session'[a].phase = "closed"
      /\ \A b \in Addresses \ {a} : session'[b] = session[b]
  BY <1>1, MoveToKeeps DEF GateInv, Phases
<1>3. /\ DOMAIN connections' = DOMAIN connections \ {a}
      /\ \A b \in DOMAIN connections \ {a} : connections'[b] = connections[b]
  BY <1>1 DEF remove_by_player
<1>4. ConnectionsOK'
  BY <1>3 DEF GateInv, ConnectionsOK
<1>5. KnowsClient'
  BY <1>2, <1>3 DEF GateInv, KnowsClient, InPhase
<1>6. GateHolds'
  BY <1>2 DEF GateInv, GateHolds, InPhase
<1>7. LoopOK'
  BY <1>1, IdleIsOK DEF GateInv
<1> QED
  BY <1>2, <1>4, <1>5, <1>6, <1>7 DEF GateInv

\* What happens around the plugin keeps it.
LEMMA SilentKeepsGate ==
    ASSUME GateInv, NEW a \in Addresses, Silent(a)
    PROVE  GateInv'
<1>1. PICK phase \in {"open", "lost"}, version \in ClientVersions \cup {0} :
          session' = [session EXCEPT ![a] = [phase |-> phase, version |-> version]]
  <2>1. ASSUME NEW version \in ClientVersions, Open(a, version)
        PROVE  session' = [session EXCEPT ![a] = [phase |-> "open", version |-> version]]
    BY <2>1 DEF Open
  <2>2. CASE Lose(a)
    <3>1. session[a] \in Sessions
      BY DEF GateInv, SessionsOK
    <3>2. [session[a] EXCEPT !.phase = "lost"] = [phase |-> "lost", version |-> session[a].version]
      BY <3>1 DEF Sessions
    <3>3. session' = [session EXCEPT ![a] = [session[a] EXCEPT !.phase = "lost"]]
      BY <2>2 DEF Lose, MoveTo
    <3>4. session[a].version \in ClientVersions \cup {0}
      BY <3>1 DEF Sessions
    <3> QED
      BY <3>2, <3>3, <3>4
  <2> QED
    BY <2>1, <2>2 DEF Silent
<1>2. Idle /\ UNCHANGED <<connections, event>>
  BY DEF Silent
<1>3. /\ SessionsOK'
      /\ session'[a].phase \in {"open", "lost"}
      /\ \A b \in Addresses \ {a} : session'[b] = session[b]
  BY <1>1 DEF GateInv, SessionsOK, Sessions, Phases
<1>4. ConnectionsOK'
  BY <1>2 DEF GateInv, ConnectionsOK
<1>5. KnowsClient'
  BY <1>2, <1>3 DEF GateInv, KnowsClient, InPhase
<1>6. GateHolds'
  BY <1>3 DEF GateInv, GateHolds, InPhase
<1>7. LoopOK'
  BY <1>2, IdleIsOK DEF GateInv
<1> QED
  BY <1>3, <1>4, <1>5, <1>6, <1>7 DEF GateInv

\* A stuttering step keeps it.
LEMMA UnchangedKeepsGate ==
    ASSUME GateInv, UNCHANGED vars
    PROVE  GateInv'
<1>1. RunSoFar' = RunSoFar /\ Receiving' = Receiving
  BY DEF vars, RunSoFar, Receiving, MayReceive, InPhase
<1>2. LoopOK'
  BY <1>1 DEF vars, GateInv, LoopOK, IsLoop, Idle, Running, ListAt
<1> QED
  BY <1>2 DEF vars, GateInv, SessionsOK, ConnectionsOK, KnowsClient, GateHolds, InPhase

-----------------------------------------------------------------------------
(***************************************************************************)
(* The theorems on the gate.                                               *)
(***************************************************************************)

\* At the start there are no sessions and no connections.
LEMMA GateInitial == Init => GateInv
<1> SUFFICES ASSUME Init PROVE GateInv
  OBVIOUS
<1>1. SessionsOK
  BY DEF Init, SessionsInit, SessionsOK, Sessions, Phases
<1>2. ConnectionsOK
  BY DEF Init, ConnectionsOK
<1>3. KnowsClient /\ GateHolds
  BY DEF Init, SessionsInit, KnowsClient, GateHolds, InPhase
<1>4. LoopOK
  BY NoLoopIsOK DEF Init, LoopOK, Idle
<1> QED
  BY <1>1, <1>2, <1>3, <1>4 DEF GateInv

\* The invariant is inductive.
LEMMA GateInductive == GateInv /\ [Next]_vars => GateInv'
<1> SUFFICES ASSUME GateInv, [Next]_vars PROVE GateInv'
  OBVIOUS
<1>1. CASE UNCHANGED vars
  BY <1>1, UnchangedKeepsGate
<1>2. ASSUME NEW a \in Addresses, Silent(a) PROVE GateInv'
  BY <1>2, SilentKeepsGate
<1>3. ASSUME NEW a \in Addresses,
             NEW packet \in ServerboundPackets \cup {REQUEST_NETWORK_SETTINGS, LOGIN},
             on_packet_receive(a, packet)
      PROVE  GateInv'
  BY <1>3, ReceiveKeepsGate
<1>4. ASSUME NEW a \in Addresses, NEW packet, on_packet_send(a, packet) PROVE GateInv'
  BY <1>4, SendKeepsGate
<1>5. ASSUME NEW a \in Addresses, on_player_login(a) PROVE GateInv'
  BY <1>5, LoginKeepsGate
<1>6. ASSUME NEW a \in Addresses, on_player_quit(a) PROVE GateInv'
  BY <1>6, QuitKeepsGate
<1>7. PassBy \/ Transform \/ Stop \/ Finish => GateInv'
  BY PassByKeepsGate, TransformKeepsGate, StopKeepsGate, FinishKeepsGate
<1> QED
  BY <1>1, <1>2, <1>3, <1>4, <1>5, <1>6, <1>7 DEF Next

\* It holds in every state.
LEMMA GateInvariant == Spec => []GateInv
BY GateInitial, GateInductive, PTL DEF Spec

\* Sessions and connections keep their types.
THEOREM TypeCorrect == Spec => []TypeOK
<1>1. GateInv => TypeOK
  BY DEF GateInv, SessionsOK, ConnectionsOK, ConnectionOK, LoopOK, Running, TypeOK
<1> QED
  BY <1>1, GateInvariant, PTL

(***************************************************************************)
(* Whatever an earlier session left at an address, from the moment a       *)
(* client has named its version the connection there holds that version.   *)
(***************************************************************************)
THEOREM ClientIsKnown == Spec => []KnowsClient
<1>1. GateInv => KnowsClient
  BY DEF GateInv
<1> QED
  BY <1>1, GateInvariant, PTL

(***************************************************************************)
(* A client of a gated version never becomes a player, for every set of    *)
(* gated versions and every reuse of addresses (plugin.on_player_login).   *)
(***************************************************************************)
THEOREM GateIsSafe == Spec => []GateHolds
<1>1. GateInv => GateHolds
  BY DEF GateInv
<1> QED
  BY <1>1, GateInvariant, PTL

-----------------------------------------------------------------------------
(***************************************************************************)
(* A packet is translated as a whole or not let through.                   *)
(***************************************************************************)

\* The end of a loop shows what it has run, of the list that its connection has.
LEMMA EndsShows ==
    ASSUME Running, NEW forwarded, NEW trail, Ends(forwarded, trail)
    PROVE  /\ last'.address = event.address /\ last'.direction = event.direction
           /\ last'.packet = event.packet /\ last'.forwarded = forwarded /\ last'.trail = trail
           /\ ListAt(last.address, last.direction)' = event.pipeline
<1>1. /\ UNCHANGED connections
      /\ last' = Event(event.address, event.direction, event.packet,
                       [forwarded |-> forwarded, trail |-> trail], IF forwarded THEN event.seen ELSE None)
  BY DEF Ends
<1>2. event.pipeline = ListAt(event.address, event.direction)
  BY DEF Running
<1>3. /\ last'.address = event.address /\ last'.direction = event.direction
      /\ last'.packet = event.packet /\ last'.forwarded = forwarded /\ last'.trail = trail
  BY <1>1 DEF Event
<1> QED
  BY <1>1, <1>2, <1>3 DEF ListAt

\* What stops a packet is a protocol that knows it, and all before that one let it pass.
LEMMA StopRanSoFar == ASSUME GateInv, Stop PROVE RanWhole(last)'
<1>1. /\ AtProtocol /\ Knows /\ Ends(FALSE, Ran) /\ Running /\ RunSoFar
      /\ event.at \in 1 .. Len(event.pipeline) /\ event.pipeline \in Lists
  BY AtProtocolRuns DEF Stop, GateInv, LoopOK, Running
<1>2. /\ last'.address = event.address /\ last'.direction = event.direction
      /\ last'.packet = event.packet /\ last'.forwarded = FALSE /\ last'.trail = Ran
      /\ ListAt(last.address, last.direction)' = event.pipeline
  BY <1>1, EndsShows
<1> DEFINE list == event.pipeline
           known == {i \in DOMAIN list : has_handler_or_cancel(list[i], event.direction, event.packet)}
<1>3. DOMAIN list = 1 .. Len(list) /\ Len(list) \in Nat
  BY <1>1 DEF Lists
<1>4. event.at \in known
  BY <1>1, <1>3 DEF Knows, AtHand
<1>5. DOMAIN event.trail = {i \in known : i < event.at}
  BY <1>1, <1>3 DEF RunSoFar, Trail
<1>6. DOMAIN Ran = {i \in known : i <= event.at}
  BY <1>3, <1>4, <1>5 DEF Ran
<1>7. \A i \in {i \in known : i <= event.at} : Ran[i] = list[i]
  BY <1>6 DEF Ran
<1>8. \A i \in {i \in known : i < event.at} : event.packet \notin Cancels(list[i], event.direction)
  BY <1>1, <1>3 DEF RunSoFar, Drops
<1> QED
  BY <1>2, <1>4, <1>6, <1>7, <1>8 DEF RanWhole

\* Behind the last protocol every one that knows the packet has let it pass.
LEMMA FinishRanAll == ASSUME GateInv, Finish PROVE RanWhole(last)'
<1>1. /\ Ends(TRUE, event.trail) /\ Running /\ RunSoFar
      /\ event.at = Len(event.pipeline) + 1 /\ event.pipeline \in Lists
  BY FinishIsBehind DEF Finish, GateInv, LoopOK, Running
<1>2. /\ last'.address = event.address /\ last'.direction = event.direction
      /\ last'.packet = event.packet /\ last'.forwarded = TRUE /\ last'.trail = event.trail
      /\ ListAt(last.address, last.direction)' = event.pipeline
  BY <1>1, EndsShows
<1> DEFINE list == event.pipeline
           known == {i \in DOMAIN list : has_handler_or_cancel(list[i], event.direction, event.packet)}
<1>3. DOMAIN list = 1 .. Len(list) /\ event.at - 1 = Len(list)
  BY <1>1 DEF Lists
<1>4. DOMAIN event.trail = known /\ \A i \in known : event.trail[i] = list[i]
  BY <1>1, <1>3 DEF RunSoFar, Trail
<1>5. \A i \in known : event.packet \notin Cancels(list[i], event.direction)
  BY <1>1, <1>3 DEF RunSoFar, Drops
<1> QED
  BY <1>2, <1>4, <1>5 DEF RanWhole

\* A packet that is left alone has no list to go through.
LEMMA LeftAloneRanAll ==
    ASSUME GateInv, NEW a \in Addresses, NEW packet, on_packet_send(a, packet), last' # last
    PROVE  RanWhole(last)'
<1>1. /\ ~(a \in DOMAIN connections /\ connections[a].protocol_pipeline # None)
      /\ UNCHANGED connections
      /\ last' = Event(a, CLIENTBOUND, packet, [forwarded |-> TRUE, trail |-> <<>>], None)
  BY DEF on_packet_send
<1>2. /\ last'.address = a /\ last'.direction = CLIENTBOUND /\ last'.packet = packet
      /\ last'.forwarded = TRUE /\ last'.trail = <<>>
  BY <1>1 DEF Event
<1>3. ListAt(a, CLIENTBOUND) = <<>>
  BY <1>1 DEF GateInv, ConnectionsOK, ConnectionOK, ListAt, ClientboundList, SERVERBOUND, CLIENTBOUND
<1>4. ListAt(last.address, last.direction)' = <<>>
  BY <1>1, <1>2, <1>3 DEF ListAt
<1>5. DOMAIN <<>> = {}
  OBVIOUS
<1> QED
  BY <1>2, <1>4, <1>5 DEF RanWhole

(***************************************************************************)
(* For every table of handlers, and at every address whatever versions     *)
(* turn up there: what raises or cancels in the middle of a loop keeps the *)
(* packet from the other side, and what gets through has been run through  *)
(* every protocol of the list that knows it (pipeline.py:90-117, 156-182). *)
(***************************************************************************)
THEOREM NeverHalfTranslated == Spec => AllOrNothing
<1>1. ASSUME GateInv, [Next]_vars PROVE [RanWhole(last)']_last
  <2> SUFFICES ASSUME last' # last PROVE RanWhole(last)'
    OBVIOUS
  <2>1. ~UNCHANGED vars
    BY DEF vars
  <2>2. ~PassBy /\ ~Transform
    BY DEF PassBy, Transform
  <2>3. \A a \in Addresses : ~Silent(a) /\ ~on_player_login(a) /\ ~on_player_quit(a)
    BY DEF Silent, on_player_login, on_player_quit
  <2>4. \A a \in Addresses : \A packet : ~on_packet_receive(a, packet)
    BY DEF on_packet_receive
  <2> QED
    BY <1>1, <2>1, <2>2, <2>3, <2>4, StopRanSoFar, FinishRanAll, LeftAloneRanAll DEF Next
<1> QED
  BY <1>1, GateInvariant, PTL DEF Spec, AllOrNothing

-----------------------------------------------------------------------------
(***************************************************************************)
(* The cached lists: they are never invalidated, and yet they agree with   *)
(* the client, provided that an address where a session was lost is only   *)
(* reused by a client of the same version.                                 *)
(***************************************************************************)
\* What PipelineAgrees and InitOnce say of one connection.
Agrees(c) ==
    IF c.protocol_pipeline = None THEN c.clientbound_pipeline = None
    ELSE /\ c.client_protocol # 0
         /\ c.protocol_pipeline = ListsOf(c.client_protocol).serverbound
         /\ c.clientbound_pipeline = ListsOf(c.client_protocol).clientbound

InitsAgree(c) == c.inits = IF c.clientbound_pipeline = None THEN 0 ELSE 1

\* A connection belongs to a session that was opened, and holds no other version than its client's.
BelongsTo(c, s) == s.phase # "closed" /\ c.client_protocol \in {0, s.version}

ListsInv == \A a \in DOMAIN connections :
                /\ Agrees(connections[a])
                /\ InitsAgree(connections[a])
                /\ BelongsTo(connections[a], session[a])

IInv == GateInv /\ ListsInv

-----------------------------------------------------------------------------
(***************************************************************************)
(* What the handlers do to one connection.                                 *)
(***************************************************************************)

\* _get_pipeline fills empty lists with those for the client version, and leaves filled ones alone.
LEMMA ResolveAgrees ==
    ASSUME NEW c, ConnectionOK(c), Agrees(c), InitsAgree(c)
    PROVE  Agrees(Resolve(c)) /\ InitsAgree(Resolve(c))
<1> DEFINE chain == get_path(ServerProtocol, c.client_protocol)
<1>1. CASE Settled(c)
  BY <1>1 DEF Resolve
<1>2. CASE ~Settled(c) /\ needs_translation(c) /\ chain # None
  <2>1. Resolve(c) = [client_protocol |-> c.client_protocol,
                      warned_no_chain |-> c.warned_no_chain \/ FALSE,
                      protocol_pipeline |-> <<Base>> \o chain,
                      clientbound_pipeline |-> <<Base>> \o Reverse(chain),
                      inits |-> c.inits + 1]
    BY <1>2, Zenon DEF Resolve, ClientboundOrder
  <2>2. c.client_protocol # 0 /\ c.client_protocol # ServerProtocol /\ c.clientbound_pipeline = None
    BY <1>2 DEF Settled, needs_translation, Agrees
  <2>3. /\ ListsOf(c.client_protocol).serverbound = <<Base>> \o chain
        /\ ListsOf(c.client_protocol).clientbound = <<Base>> \o Reverse(chain)
    BY <1>2, <2>2, Zenon DEF ListsOf
  <2>4. chain \in Seq(Pool)
    BY <1>2, <2>2, GetPathAssumption, ClientVersionsAssumption DEF ConnectionOK, UserConnections
  <2>5. <<Base>> \o chain # None /\ <<Base>> \o Reverse(chain) # None
    BY <2>4, ListTypes, NoPipelineAssumption DEF Headed, Lists
  <2>6. c.inits = 0
    BY <2>2 DEF InitsAgree
  <2> QED
    BY <2>1, <2>2, <2>3, <2>5, <2>6 DEF Agrees, InitsAgree
<1>3. CASE ~Settled(c) /\ ~(needs_translation(c) /\ chain # None)
  <2>1. Resolve(c) = [client_protocol |-> c.client_protocol,
                      warned_no_chain |-> c.warned_no_chain \/ needs_translation(c),
                      protocol_pipeline |-> <<Base>>,
                      clientbound_pipeline |-> c.clientbound_pipeline,
                      inits |-> c.inits]
    BY <1>3, Zenon DEF Resolve
  <2>2. /\ c.client_protocol # 0
        /\ c.client_protocol = ServerProtocol \/ chain = None
        /\ c.clientbound_pipeline = None
    BY <1>3 DEF Settled, needs_translation, Agrees
  <2>3. ListsOf(c.client_protocol).serverbound = <<Base>> /\ ListsOf(c.client_protocol).clientbound = None
    BY <2>2, Zenon DEF ListsOf
  <2>4. <<Base>> # None
    <3>1. <<Base>> \in Lists
      BY DEF Lists
    <3> QED
      BY <3>1, NoPipelineAssumption DEF Lists
  <2> QED
    BY <2>1, <2>2, <2>3, <2>4 DEF Agrees, InitsAgree
<1> QED
  BY <1>1, <1>2, <1>3

-----------------------------------------------------------------------------
(***************************************************************************)
(* The invariant, action by action.                                        *)
(***************************************************************************)

\* A received packet fills the lists of its connection.
LEMMA ReceiveKeepsLists ==
    ASSUME IInv, NEW a \in Addresses, NEW packet, on_packet_receive(a, packet)
    PROVE  ListsInv'
<1> DEFINE c == Resolve(get_or_create(a))
<1>1. MayReceive(a, packet) /\ UNCHANGED session
  BY DEF on_packet_receive
<1>2. /\ ConnectionOK(get_or_create(a))
      /\ c.client_protocol = get_or_create(a).client_protocol
      /\ DOMAIN connections' = DOMAIN connections \cup {a}
      /\ connections'[a] = c
      /\ \A b \in DOMAIN connections \ {a} : connections'[b] = connections[b]
  BY ReceiveStarts DEF IInv
<1>3. /\ Agrees(get_or_create(a))
      /\ InitsAgree(get_or_create(a))
      /\ get_or_create(a).client_protocol \in {0, session[a].version}
  BY DEF IInv, ListsInv, BelongsTo, get_or_create, NewConnection, Agrees, InitsAgree
<1>4. Agrees(c) /\ InitsAgree(c)
  BY <1>2, <1>3, ResolveAgrees
<1> HIDE DEF c
<1>5. BelongsTo(c, session[a])
  BY <1>1, <1>2, <1>3 DEF MayReceive, InPhase, BelongsTo
<1> QED
  BY <1>1, <1>2, <1>4, <1>5 DEF IInv, ListsInv

(***************************************************************************)
(* detect_client_protocol only writes the version a connection has already *)
(* or gives one to a connection whose lists are still empty.               *)
(***************************************************************************)
LEMMA TransformKeepsLists ==
    ASSUME IInv, Transform
    PROVE  ListsInv'
<1> DEFINE a == event.address
           detects == AtBase /\ event.packet = REQUEST_NETWORK_SETTINGS
<1>1. /\ DOMAIN connections' = DOMAIN connections
      /\ \A b \in DOMAIN connections \ {a} : connections'[b] = connections[b]
      /\ a \in DOMAIN connections =>
            /\ connections'[a].protocol_pipeline = connections[a].protocol_pipeline
            /\ connections'[a].clientbound_pipeline = connections[a].clientbound_pipeline
            /\ connections'[a].inits = connections[a].inits
            /\ connections'[a].client_protocol = IF detects THEN session[a].version
                                                 ELSE connections[a].client_protocol
  BY TransformDetects DEF IInv
<1>2. UNCHANGED session
  BY DEF Transform
<1> HIDE DEF a, detects
<1>3. ASSUME a \in DOMAIN connections
      PROVE  Agrees(connections'[a]) /\ InitsAgree(connections'[a]) /\ BelongsTo(connections'[a], session[a])
  <2>1. /\ Agrees(connections[a]) /\ InitsAgree(connections[a])
        /\ BelongsTo(connections[a], session[a])
    BY <1>3 DEF IInv, ListsInv
  <2>2. connections[a].protocol_pipeline # None => connections'[a].client_protocol = connections[a].client_protocol
    BY <1>1, <1>3, <2>1 DEF Agrees, BelongsTo
  <2>3. connections'[a].client_protocol \in {0, session[a].version}
    BY <1>1, <1>3, <2>1 DEF BelongsTo
  <2> QED
    BY <1>1, <1>3, <2>1, <2>2, <2>3 DEF Agrees, InitsAgree, BelongsTo
<1> QED
  BY <1>1, <1>2, <1>3 DEF IInv, ListsInv

\* A step that leaves the connections alone keeps it, if no session's version changes and none is closed.
LEMMA QuietKeepsLists ==
    ASSUME IInv, UNCHANGED connections,
           \A a \in DOMAIN connections : /\ session'[a].version = session[a].version
                                         /\ session[a].phase # "closed" => session'[a].phase # "closed"
    PROVE  ListsInv'
BY DEF IInv, ListsInv, BelongsTo

\* The end of a loop keeps it.
LEMMA EndsKeepsLists ==
    ASSUME IInv, ~Idle, NEW forwarded, NEW trail, Ends(forwarded, trail)
    PROVE  ListsInv'
<1> DEFINE a == event.address
<1>1. UNCHANGED connections /\ Running /\ a \in Addresses /\ DOMAIN connections \subseteq Addresses
  BY DEF Ends, IInv, GateInv, ConnectionsOK, LoopOK, Running
<1>2. CASE event.direction = SERVERBOUND
  <2>1. MayReceive(a, event.packet) /\ Received(a, event.packet, forwarded) /\ session[a].phase # "closed"
    BY <1>1, <1>2 DEF Running, Receiving, Ends, MayReceive, InPhase
  <2> HIDE DEF a
  <2>2. /\ session'[a].version = session[a].version
        /\ session'[a].phase = session[a].phase \/ session'[a].phase \in {"settings", "login"}
        /\ \A b \in Addresses \ {a} : session'[b] = session[b]
    BY <1>1, <2>1, ReceivedKeeps DEF IInv, GateInv
  <2> QED
    BY <1>1, <2>1, <2>2, QuietKeepsLists
<1>3. CASE event.direction # SERVERBOUND
  BY <1>1, <1>3, QuietKeepsLists DEF Ends
<1> QED
  BY <1>2, <1>3

\* The login event keeps it.
LEMMA LoginKeepsLists ==
    ASSUME IInv, NEW a \in Addresses, on_player_login(a)
    PROVE  ListsInv'
<1>1. MoveTo(a, IF Refused(a) THEN "refused" ELSE "joined") /\ UNCHANGED connections
  BY DEF on_player_login, LoggedIn
<1>2. /\ session'[a].phase \in {"refused", "joined"}
      /\ session'[a].version = session[a].version
      /\ \A b \in Addresses \ {a} : session'[b] = session[b]
  BY <1>1, MoveToKeeps DEF IInv, GateInv, Phases
<1>3. DOMAIN connections \subseteq Addresses
  BY DEF IInv, GateInv, ConnectionsOK
<1> QED
  BY <1>1, <1>2, <1>3, QuietKeepsLists

\* A quit keeps it.
LEMMA QuitKeepsLists ==
    ASSUME IInv, NEW a \in Addresses, on_player_quit(a)
    PROVE  ListsInv'
<1>1. MoveTo(a, "closed") /\ connections' = remove_by_player(a)
  BY DEF on_player_quit, Quit
<1>2. \A b \in Addresses \ {a} : session'[b] = session[b]
  BY <1>1, MoveToKeeps DEF IInv, GateInv, Phases
<1>3. /\ DOMAIN connections' = DOMAIN connections \ {a}
      /\ \A b \in DOMAIN connections \ {a} : connections'[b] = connections[b]
  BY <1>1 DEF remove_by_player
<1>4. DOMAIN connections \subseteq Addresses
  BY DEF IInv, GateInv, ConnectionsOK
<1> QED
  BY <1>2, <1>3, <1>4 DEF IInv, ListsInv

(***************************************************************************)
(* What happens around the plugin keeps it: a client that comes to an      *)
(* address with a connection is one of the version that was lost there.    *)
(***************************************************************************)
LEMMA SilentKeepsLists ==
    ASSUME ~MixedReuse, IInv, NEW a \in Addresses, Silent(a)
    PROVE  ListsInv'
<1>1. UNCHANGED connections
  BY DEF Silent
<1>2. DOMAIN connections \subseteq Addresses /\ session \in [Addresses -> Sessions]
  BY DEF IInv, GateInv, ConnectionsOK, SessionsOK
<1>3. ASSUME NEW version \in ClientVersions, Open(a, version) PROVE ListsInv'
  <2>1. session' = [session EXCEPT ![a] = [phase |-> "open", version |-> version]]
    BY <1>3 DEF Open
  <2>2. a \in DOMAIN connections => version = session[a].version
    BY <1>3 DEF Open, InPhase, IInv, ListsInv, BelongsTo
  <2> QED
    BY <1>1, <1>2, <2>1, <2>2, QuietKeepsLists
<1>4. CASE Lose(a)
  <2>1. MoveTo(a, "lost")
    BY <1>4 DEF Lose
  <2>2. /\ session'[a].phase = "lost" /\ session'[a].version = session[a].version
        /\ \A b \in Addresses \ {a} : session'[b] = session[b]
    BY <2>1, MoveToKeeps DEF IInv, GateInv, Phases
  <2> QED
    BY <1>1, <1>2, <2>2, QuietKeepsLists
<1> QED
  BY <1>3, <1>4 DEF Silent

-----------------------------------------------------------------------------
(***************************************************************************)
(* The theorems on the lists.                                              *)
(***************************************************************************)

\* The invariant is inductive.
LEMMA ListsInductive == ASSUME ~MixedReuse PROVE IInv /\ [Next]_vars => IInv'
<1> SUFFICES ASSUME IInv, [Next]_vars PROVE IInv'
  OBVIOUS
<1>1. GateInv'
  BY GateInductive DEF IInv
<1>2. ASSUME UNCHANGED vars PROVE ListsInv'
  BY <1>2, QuietKeepsLists DEF vars
<1>3. ASSUME NEW a \in Addresses, Silent(a) PROVE ListsInv'
  BY <1>3, SilentKeepsLists
<1>4. ASSUME NEW a \in Addresses,
             NEW packet \in ServerboundPackets \cup {REQUEST_NETWORK_SETTINGS, LOGIN},
             on_packet_receive(a, packet)
      PROVE  ListsInv'
  BY <1>4, ReceiveKeepsLists
<1>5. ASSUME NEW a \in Addresses, NEW packet, on_packet_send(a, packet) PROVE ListsInv'
  BY <1>5, QuietKeepsLists DEF on_packet_send
<1>6. ASSUME NEW a \in Addresses, on_player_login(a) PROVE ListsInv'
  BY <1>6, LoginKeepsLists
<1>7. ASSUME NEW a \in Addresses, on_player_quit(a) PROVE ListsInv'
  BY <1>7, QuitKeepsLists
<1>8. PassBy \/ Transform \/ Stop \/ Finish => ListsInv'
  <2>1. PassBy => UNCHANGED <<session, connections>>
    BY DEF PassBy
  <2>2. Stop => ~Idle /\ Ends(FALSE, Ran)
    BY AtProtocolRuns DEF Stop, IInv, GateInv
  <2>3. Finish => ~Idle /\ Ends(TRUE, event.trail)
    BY DEF Finish
  <2> QED
    BY <2>1, <2>2, <2>3, QuietKeepsLists, TransformKeepsLists, EndsKeepsLists
<1>9. ListsInv'
  BY <1>2, <1>3, <1>4, <1>5, <1>6, <1>7, <1>8 DEF Next
<1> QED
  BY <1>1, <1>9 DEF IInv

\* It holds in every state.
LEMMA ListsInvariant == ASSUME ~MixedReuse PROVE Spec => []IInv
<1>1. Init => IInv
  BY GateInitial DEF Init, IInv, ListsInv
<1>2. IInv /\ [Next]_vars => IInv'
  BY ListsInductive
<1> QED
  BY <1>1, <1>2, PTL DEF Spec

(***************************************************************************)
(* The lists cached for a connection, which nothing invalidates, are the   *)
(* lists for the client connected there, if no client of another version   *)
(* takes over an address where a session was lost (pipeline._get_pipeline).*)
(***************************************************************************)
THEOREM ListsStayRight == ASSUME ~MixedReuse PROVE Spec => []PipelineAgrees
<1>1. IInv => PipelineAgrees
  BY DEF IInv, ListsInv, Agrees, PipelineAgrees
<1> QED
  BY <1>1, ListsInvariant, PTL

\* Under the same condition each protocol is initialised once for a connection with a chain.
THEOREM InitialisedOnce == ASSUME ~MixedReuse PROVE Spec => []InitOnce
<1>1. IInv => InitOnce
  BY DEF IInv, ListsInv, InitsAgree, InitOnce
<1> QED
  BY <1>1, ListsInvariant, PTL
============================================================================
