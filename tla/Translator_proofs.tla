------------------------- MODULE Translator_proofs --------------------------
(***************************************************************************)
(* For every number of addresses, every set of versions and every table of *)
(* handlers: the pipeline, with its connections and the lists it never     *)
(* invalidates, implements Translator, which has neither, provided that an *)
(* address where a session was lost is only reused by a client of the same *)
(* version.                                                                *)
(***************************************************************************)
EXTENDS Pipeline_proofs

(***************************************************************************)
(* Whoever has logged in has the lists of its version: Login is the packet *)
(* that resolves them.  Before that there may be none.                     *)
(***************************************************************************)
HasLists ==
    \A a \in DOMAIN connections :
        InPhase(a, {"login", "joined", "refused"}) =>
            connections[a].protocol_pipeline # None \/ connections[a].client_protocol = 0

(***************************************************************************)
(* While a loop runs: a serverbound packet but the first was given the     *)
(* lists of its client, and the first protocol has put the server's        *)
(* version in the packets that name one; a clientbound packet still has    *)
(* the client that it was sent to.                                         *)
(***************************************************************************)
ReceivingMaps ==
    /\ event.packet # REQUEST_NETWORK_SETTINGS => Settled(connections[event.address])
    /\ event.packet \in {REQUEST_NETWORK_SETTINGS, LOGIN} => event.at = 1 \/ event.seen = ServerProtocol
    /\ event.packet \notin {REQUEST_NETWORK_SETTINGS, LOGIN} => event.seen = None

SendingMaps ==
    /\ MaySend(event.address, event.packet)
    /\ connections[event.address].protocol_pipeline # None
    /\ event.seen = None

LoopMaps ==
    ~Idle => IF event.direction = SERVERBOUND THEN ReceivingMaps ELSE SendingMaps

TransInv == IInv /\ HasLists /\ LoopMaps

-----------------------------------------------------------------------------
(***************************************************************************)
(* One loop: what the base protocol at the head of a list adds to it.      *)
(***************************************************************************)

\* The trail without its base protocol is the trail of the chain.
LEMMA TrailAfterBase ==
    ASSUME NEW chain \in Seq(Pool), NEW direction, NEW packet, NEW n \in 0 .. Len(chain)
    PROVE  AfterBase(Trail(<<Base>> \o chain, direction, packet, n + 1)) = Trail(chain, direction, packet, n)
<1> DEFINE list == <<Base>> \o chain
           long == Trail(list, direction, packet, n + 1)
           short == Trail(chain, direction, packet, n)
<1>1. /\ Len(list) = Len(chain) + 1
      /\ list[1] = Base
      /\ \A i \in 1 .. Len(chain) : list[i + 1] = chain[i] /\ chain[i] # Base
  BY BaseApartAssumption
<1> HIDE DEF list
<1>2. /\ DOMAIN long = {j \in 1 .. n + 1 : has_handler_or_cancel(list[j], direction, packet)}
      /\ \A j \in DOMAIN long : long[j] = list[j]
  BY DEF Trail
<1>3. /\ DOMAIN short = {j \in 1 .. n : has_handler_or_cancel(chain[j], direction, packet)}
      /\ short = [i \in DOMAIN short |-> chain[i]]
  BY DEF Trail
<1> HIDE DEF long, short
<1>4. {j - 1 : j \in {j \in DOMAIN long : long[j] # Base}} = DOMAIN short
  <2>1. ASSUME NEW j \in DOMAIN long, long[j] # Base PROVE j - 1 \in DOMAIN short
    <3>1. j \in 2 .. n + 1 /\ j - 1 \in 1 .. n /\ list[(j - 1) + 1] = chain[j - 1]
      BY <1>1, <1>2, <2>1
    <3>2. (j - 1) + 1 = j
      BY <3>1
    <3> QED
      BY <1>2, <1>3, <3>1, <3>2
  <2>2. ASSUME NEW i \in DOMAIN short PROVE i + 1 \in DOMAIN long /\ long[i + 1] # Base /\ (i + 1) - 1 = i
    <3>1. i \in 1 .. n /\ i \in 1 .. Len(chain) /\ has_handler_or_cancel(chain[i], direction, packet)
      BY <1>3
    <3>2. i + 1 \in 1 .. n + 1 /\ list[i + 1] = chain[i] /\ chain[i] # Base
      BY <1>1, <3>1
    <3>3. i + 1 \in DOMAIN long
      BY <1>2, <3>1, <3>2
    <3> QED
      BY <1>2, <3>1, <3>2, <3>3
  <2> QED
    BY <2>1, <2>2
<1>5. \A i \in DOMAIN short : long[i + 1] = chain[i]
  BY <1>1, <1>2, <1>3
<1>6. [i \in DOMAIN short |-> long[i + 1]] = [i \in DOMAIN short |-> chain[i]]
  BY <1>5
<1>7. AfterBase(long) = [i \in DOMAIN short |-> long[i + 1]]
  BY <1>4, Zenon DEF AfterBase
<1> QED
  BY <1>3, <1>6, <1>7 DEF long, short, list

(***************************************************************************)
(* A loop with the base protocol at the head ends early there, if that is  *)
(* where the packet cannot be read, or as the loop over the chain would.   *)
(***************************************************************************)
LEMMA LoopAfterBase ==
    ASSUME NEW chain \in Seq(Pool), NEW direction \in {SERVERBOUND, CLIENTBOUND}, NEW packet,
           NEW result \in Outcomes(<<Base>> \o chain, direction, packet)
    PROVE  \/ /\ direction = SERVERBOUND /\ packet \in {REQUEST_NETWORK_SETTINGS, LOGIN}
              /\ result.forwarded = FALSE /\ AfterBase(result.trail) = <<>>
           \/ \E r \in Outcomes(chain, direction, packet) :
                  r.forwarded = result.forwarded /\ r.trail = AfterBase(result.trail)
<1> DEFINE list == <<Base>> \o chain
<1>1. /\ Len(list) = Len(chain) + 1 /\ Len(chain) \in Nat
      /\ list[1] = Base
      /\ \A i \in 1 .. Len(chain) : list[i + 1] = chain[i]
  OBVIOUS
<1>2. \A n \in 0 .. Len(chain) :
          AfterBase(Trail(list, direction, packet, n + 1)) = Trail(chain, direction, packet, n)
  BY TrailAfterBase
<1> HIDE DEF list
<1>3. ~Drops(list, direction, packet, 1)
  BY <1>1 DEF Drops, Cancels
<1>4. \A i \in 1 .. Len(chain) : Drops(list, direction, packet, i + 1) <=> Drops(chain, direction, packet, i)
  BY <1>1 DEF Drops
<1>5. ASSUME NEW i \in Stops(list, direction, packet),
             result = [forwarded |-> FALSE, trail |-> Trail(list, direction, packet, i)]
      PROVE  /\ result.forwarded = FALSE
             /\ \/ /\ direction = SERVERBOUND /\ packet \in {REQUEST_NETWORK_SETTINGS, LOGIN}
                   /\ AfterBase(result.trail) = <<>>
                \/ \E r \in Outcomes(chain, direction, packet) :
                       r.forwarded = FALSE /\ r.trail = AfterBase(result.trail)
  <2>1. /\ i \in 1 .. Len(chain) + 1
        /\ has_handler_or_cancel(list[i], direction, packet)
        /\ Drops(list, direction, packet, i) \/ MayStop(list[i], direction)
        /\ \A j \in 1 .. i - 1 : ~Drops(list, direction, packet, j)
    BY <1>1, <1>5 DEF Stops
  <2>2. CASE i = 1
    <3>1. direction = SERVERBOUND /\ packet \in {REQUEST_NETWORK_SETTINGS, LOGIN}
      BY <1>1, <1>3, <2>1, <2>2 DEF MayStop, has_handler_or_cancel, Handlers, Cancels
    <3>2. AfterBase(result.trail) = <<>>
      BY <1>1, <1>2, <1>5, <2>2, EmptyTrail
    <3> QED
      BY <1>5, <3>1, <3>2
  <2>3. CASE i # 1
    <3>1. i - 1 \in 1 .. Len(chain) /\ (i - 1) + 1 = i /\ list[i] = chain[i - 1]
      BY <1>1, <2>1, <2>3
    <3>2. \A j \in 1 .. (i - 1) - 1 : ~Drops(chain, direction, packet, j)
      BY <1>4, <2>1, <3>1
    <3>3. i - 1 \in Stops(chain, direction, packet)
      BY <1>4, <2>1, <3>1, <3>2 DEF Stops
    <3>4. AfterBase(result.trail) = Trail(chain, direction, packet, i - 1)
      BY <1>1, <1>2, <1>5, <3>1
    <3>5. [forwarded |-> FALSE, trail |-> Trail(chain, direction, packet, i - 1)]
              \in Outcomes(chain, direction, packet)
      BY <3>3 DEF Outcomes
    <3> QED
      BY <1>5, <3>4, <3>5
  <2> QED
    BY <2>2, <2>3
<1>6. ASSUME ~\E i \in 1 .. Len(list) : Drops(list, direction, packet, i),
             result = [forwarded |-> TRUE, trail |-> Trail(list, direction, packet, Len(list))]
      PROVE  /\ result.forwarded = TRUE
             /\ \E r \in Outcomes(chain, direction, packet) :
                    r.forwarded = TRUE /\ r.trail = AfterBase(result.trail)
  <2>1. ~\E i \in 1 .. Len(chain) : Drops(chain, direction, packet, i)
    BY <1>1, <1>4, <1>6
  <2>2. AfterBase(result.trail) = Trail(chain, direction, packet, Len(chain))
    BY <1>1, <1>2, <1>6
  <2>3. [forwarded |-> TRUE, trail |-> Trail(chain, direction, packet, Len(chain))]
            \in Outcomes(chain, direction, packet)
    BY <2>1 DEF Outcomes
  <2> QED
    BY <1>6, <2>2, <2>3
<1>7. \/ \E i \in Stops(list, direction, packet) :
             result = [forwarded |-> FALSE, trail |-> Trail(list, direction, packet, i)]
      \/ /\ ~\E i \in 1 .. Len(list) : Drops(list, direction, packet, i)
         /\ result = [forwarded |-> TRUE, trail |-> Trail(list, direction, packet, Len(list))]
  BY DEF Outcomes, list
<1> QED
  BY <1>5, <1>6, <1>7

\* Without a trail there is none to show.
LEMMA EmptyAfterBase == AfterBase(<<>>) = <<>>
<1>1. {j - 1 : j \in {j \in DOMAIN <<>> : <<>>[j] # Base}} = {}
  OBVIOUS
<1>2. \A f : [i \in {} |-> f[i + 1]] = <<>>
  OBVIOUS
<1> QED
  BY <1>1, <1>2, Zenon DEF AfterBase

\* A list that knows nothing of a packet forwards it untouched; so does an empty one.
LEMMA UntouchedIsForwarded ==
    ASSUME NEW chain \in Seq(Pool), NEW direction, NEW packet,
           \A i \in 1 .. Len(chain) : ~has_handler_or_cancel(chain[i], direction, packet)
    PROVE  Outcomes(chain, direction, packet) = {[forwarded |-> TRUE, trail |-> <<>>]}
<1>1. ~\E i \in 1 .. Len(chain) : Drops(chain, direction, packet, i)
  BY DEF Drops, has_handler_or_cancel
<1>2. Stops(chain, direction, packet) = {}
  BY DEF Stops
<1>3. Trail(chain, direction, packet, Len(chain)) = <<>>
  <2>1. {j \in 1 .. Len(chain) : has_handler_or_cancel(chain[j], direction, packet)} = {}
    OBVIOUS
  <2>2. [i \in {} |-> chain[i]] = <<>>
    OBVIOUS
  <2> QED
    BY <2>1, <2>2, Zenon DEF Trail
<1> QED
  BY <1>1, <1>2, <1>3 DEF Outcomes

LEMMA EmptyIsForwarded ==
    ASSUME NEW direction, NEW packet
    PROVE  Outcomes(<<>>, direction, packet) = {[forwarded |-> TRUE, trail |-> <<>>]}
<1>1. <<>> \in Seq(Pool) /\ Len(<<>>) = 0 /\ 1 .. 0 = {}
  OBVIOUS
<1> QED
  BY <1>1, UntouchedIsForwarded

-----------------------------------------------------------------------------
(***************************************************************************)
(* Translator is stated in its own copy of the vocabulary, which is the    *)
(* same.                                                                   *)
(***************************************************************************)
LEMMA SameVocabulary ==
    /\ Abstract!SERVERBOUND = SERVERBOUND
    /\ Abstract!CLIENTBOUND = CLIENTBOUND
    /\ Abstract!REQUEST_NETWORK_SETTINGS = REQUEST_NETWORK_SETTINGS
    /\ Abstract!LOGIN = LOGIN
    /\ Abstract!NoEvent = NoEvent
    /\ \A a, d, p, r, v : Abstract!Event(a, d, p, r, v) = Event(a, d, p, r, v)
    /\ \A s : Abstract!Reverse(s) = Reverse(s)
BY DEF Abstract!SERVERBOUND, SERVERBOUND, Abstract!CLIENTBOUND, CLIENTBOUND,
       Abstract!REQUEST_NETWORK_SETTINGS, REQUEST_NETWORK_SETTINGS, Abstract!LOGIN, LOGIN,
       Abstract!NoEvent, NoEvent, Abstract!Event, Event, Abstract!Reverse, Reverse

LEMMA SameOutcomes ==
    \A pipeline, direction, packet :
        Abstract!Outcomes(pipeline, direction, packet) = Outcomes(pipeline, direction, packet)
<1>1. /\ \A p, d : Abstract!Handlers(p, d) = Handlers(p, d)
      /\ \A p, d : Abstract!Cancels(p, d) = Cancels(p, d)
      /\ \A p, d : Abstract!MayStop(p, d) <=> MayStop(p, d)
  BY DEF Abstract!Handlers, Abstract!Cancels, Abstract!MayStop, Abstract!Base, Abstract!SERVERBOUND,
         Abstract!REQUEST_NETWORK_SETTINGS, Abstract!LOGIN, Abstract!PACKET_VIOLATION_WARNING,
         Handlers, Cancels, MayStop, Base, SERVERBOUND,
         REQUEST_NETWORK_SETTINGS, LOGIN, PACKET_VIOLATION_WARNING
<1>2. /\ \A p, d, k : Abstract!has_handler_or_cancel(p, d, k) <=> has_handler_or_cancel(p, d, k)
      /\ \A l, d, k, i : Abstract!Drops(l, d, k, i) <=> Drops(l, d, k, i)
  BY <1>1 DEF Abstract!has_handler_or_cancel, has_handler_or_cancel, Abstract!Drops, Drops
<1>3. \A l, d, k : Abstract!Stops(l, d, k) = Stops(l, d, k)
  BY <1>1, <1>2 DEF Abstract!Stops, Stops
<1>4. ASSUME NEW l, NEW d, NEW k, NEW n PROVE Abstract!Trail(l, d, k, n) = Trail(l, d, k, n)
  <2>1. {j \in 1 .. n : Abstract!has_handler_or_cancel(l[j], d, k)}
            = {j \in 1 .. n : has_handler_or_cancel(l[j], d, k)}
    BY <1>2
  <2> QED
    BY <2>1, Zenon DEF Abstract!Trail, Trail
<1>5. ASSUME NEW l, NEW d, NEW k PROVE Abstract!Outcomes(l, d, k) = Outcomes(l, d, k)
  <2>1. {[forwarded |-> FALSE, trail |-> Abstract!Trail(l, d, k, i)] : i \in Abstract!Stops(l, d, k)}
            = {[forwarded |-> FALSE, trail |-> Trail(l, d, k, i)] : i \in Stops(l, d, k)}
    BY <1>3, <1>4
  <2>2. (\E i \in 1 .. Len(l) : Abstract!Drops(l, d, k, i)) <=> (\E i \in 1 .. Len(l) : Drops(l, d, k, i))
    BY <1>2
  <2> QED
    BY <1>4, <2>1, <2>2 DEF Abstract!Outcomes, Outcomes
<1> QED
  BY <1>5

LEMMA SameSessions ==
    /\ Abstract!SessionsInit <=> SessionsInit
    /\ \A a, v : Abstract!Open(a, v) <=> Open(a, v)
    /\ \A a : Abstract!Lose(a) <=> Lose(a)
    /\ \A a, p : Abstract!MayReceive(a, p) <=> MayReceive(a, p)
    /\ \A a, p, f : Abstract!Received(a, p, f) <=> Received(a, p, f)
    /\ \A a, p : Abstract!MaySend(a, p) <=> MaySend(a, p)
    /\ \A a, r : Abstract!LoggedIn(a, r) <=> LoggedIn(a, r)
    /\ \A a : Abstract!Quit(a) <=> Quit(a)
BY DEF Abstract!SessionsInit, SessionsInit, Abstract!Open, Open, Abstract!Lose, Lose,
       Abstract!MayReceive, MayReceive, Abstract!Received, Received, Abstract!MaySend, MaySend,
       Abstract!LoggedIn, LoggedIn, Abstract!Quit, Quit, Abstract!InPhase, InPhase,
       Abstract!MoveTo, MoveTo, Abstract!REQUEST_NETWORK_SETTINGS, REQUEST_NETWORK_SETTINGS,
       Abstract!LOGIN, LOGIN

-----------------------------------------------------------------------------
(***************************************************************************)
(* The lists of a connection are those of a Translator's chain.            *)
(***************************************************************************)

\* The chain of a client is a sequence of registered protocols, whatever get_path answers.
LEMMA ChainType ==
    ASSUME NEW version \in ClientVersions \cup {0}
    PROVE  Abstract!Chain(version) \in Seq(Pool)
BY GetPathAssumption, ClientVersionsAssumption DEF Abstract!Chain

\* After _get_pipeline a connection has lists, unless its client is not known.
LEMMA ResolveSettles ==
    ASSUME NEW c, ConnectionOK(c)
    PROVE  Settled(Resolve(c))
<1> DEFINE chain == get_path(ServerProtocol, c.client_protocol)
           chained == needs_translation(c) /\ chain # None
<1>1. CASE Settled(c)
  BY <1>1 DEF Resolve
<1>2. CASE ~Settled(c)
  <2>1. Resolve(c).protocol_pipeline = IF chained THEN <<Base>> \o chain ELSE <<Base>>
    BY <1>2 DEF Resolve
  <2>2. c.client_protocol \in Versions
    BY <1>2, ClientVersionsAssumption DEF ConnectionOK, UserConnections, Settled
  <2>3. chained => <<Base>> \o chain \in Lists
    BY <2>2, GetPathAssumption, ListTypes DEF Headed
  <2>4. <<Base>> \in Lists
    BY DEF Lists
  <2> QED
    BY <2>1, <2>3, <2>4, NoPipelineAssumption DEF Settled, Lists
<1> QED
  BY <1>1, <1>2

\* The serverbound list is the base protocol and the chain.
LEMMA ServerboundListIs ==
    ASSUME NEW c, ConnectionOK(c), Agrees(c), Settled(c)
    PROVE  ServerboundList(c) = <<Base>> \o Abstract!Chain(c.client_protocol)
<1>1. c.client_protocol \in ClientVersions \cup {0}
  BY DEF ConnectionOK, UserConnections
<1>2. <<Base>> \o <<>> = <<Base>>
  OBVIOUS
<1>3. CASE c.protocol_pipeline = None
  BY <1>2, <1>3 DEF Settled, ServerboundList, Abstract!Chain
<1>4. CASE c.protocol_pipeline # None
  <2>1. c.client_protocol # 0 /\ ServerboundList(c) = ListsOf(c.client_protocol).serverbound
    BY <1>4 DEF Agrees, ServerboundList
  <2>2. CASE c.client_protocol = ServerProtocol
    BY <1>2, <2>1, <2>2, GetPathAssumption DEF ListsOf, Abstract!Chain
  <2>3. CASE c.client_protocol # ServerProtocol
    BY <1>2, <2>1, <2>3 DEF ListsOf, Abstract!Chain
  <2> QED
    BY <2>2, <2>3
<1> QED
  BY <1>3, <1>4

\* The clientbound list is the base protocol and the chain reversed, or nothing if there is no chain.
LEMMA ClientboundListIs ==
    ASSUME NEW c, ConnectionOK(c), Agrees(c), c.protocol_pipeline # None
    PROVE  LET chain == Abstract!Chain(c.client_protocol)
           IN  \/ ClientboundList(c) = <<Base>> \o Reverse(chain)
               \/ ClientboundList(c) = <<>> /\ chain = <<>>
<1> DEFINE path == get_path(ServerProtocol, c.client_protocol)
<1>1. c.client_protocol # 0 /\ c.clientbound_pipeline = ListsOf(c.client_protocol).clientbound
  BY DEF Agrees
<1>2. CASE c.client_protocol = ServerProtocol \/ path = None
  <2>1. c.clientbound_pipeline = None
    BY <1>1, <1>2 DEF ListsOf
  <2>2. Abstract!Chain(c.client_protocol) = <<>>
    BY <1>2, GetPathAssumption DEF Abstract!Chain
  <2> QED
    BY <2>1, <2>2 DEF ClientboundList
<1>3. CASE ~(c.client_protocol = ServerProtocol \/ path = None)
  <2>1. c.clientbound_pipeline = <<Base>> \o Reverse(path) /\ Abstract!Chain(c.client_protocol) = path
    BY <1>1, <1>3 DEF ListsOf, Abstract!Chain
  <2>2. path \in Seq(Pool)
    BY <1>1, <1>3, GetPathAssumption, ClientVersionsAssumption DEF ConnectionOK, UserConnections
  <2>3. <<Base>> \o Reverse(path) # None
    BY <2>2, ListTypes, NoPipelineAssumption DEF Lists
  <2> QED
    BY <2>1, <2>3 DEF ClientboundList
<1> QED
  BY <1>2, <1>3

-----------------------------------------------------------------------------
(***************************************************************************)
(* The invariant.                                                          *)
(***************************************************************************)

\* A received packet finds the lists of its connection, or resolves them.
LEMMA ReceiveKeepsMaps ==
    ASSUME TransInv, NEW a \in Addresses, NEW packet, on_packet_receive(a, packet)
    PROVE  HasLists' /\ LoopMaps'
<1> DEFINE c == Resolve(get_or_create(a))
           version == IF packet \in {REQUEST_NETWORK_SETTINGS, LOGIN} THEN session[a].version ELSE None
<1>1. UNCHANGED session /\ event' = Loop(a, SERVERBOUND, packet, ServerboundList(c), version)
  BY DEF on_packet_receive
<1>2. /\ ConnectionOK(get_or_create(a))
      /\ DOMAIN connections' = DOMAIN connections \cup {a}
      /\ connections'[a] = c
      /\ \A b \in DOMAIN connections \ {a} : connections'[b] = connections[b]
  BY ReceiveStarts DEF TransInv, IInv
<1>3. Settled(c)
  BY <1>2, ResolveSettles
<1>4. HasLists'
  <2> HIDE DEF c
  <2> QED
    BY <1>1, <1>2, <1>3 DEF TransInv, HasLists, InPhase, Settled
<1>5. LoopMaps'
  <2>1. /\ event'.address = a /\ event'.direction = SERVERBOUND /\ event'.packet = packet
        /\ event'.at = 1 /\ event'.seen = version
    BY <1>1, Starts
  <2> HIDE DEF c
  <2> QED
    BY <1>2, <1>3, <2>1 DEF LoopMaps, ReceivingMaps
<1> QED
  BY <1>4, <1>5

\* A sent packet starts its loop only with the lists.
LEMMA SendKeepsMaps ==
    ASSUME TransInv, NEW a \in Addresses, NEW packet, on_packet_send(a, packet)
    PROVE  HasLists' /\ LoopMaps'
<1>1. Idle /\ MaySend(a, packet) /\ UNCHANGED <<session, connections>>
  BY DEF on_packet_send
<1>2. HasLists'
  BY <1>1 DEF TransInv, HasLists, InPhase
<1>3. CASE a \in DOMAIN connections /\ connections[a].protocol_pipeline # None
  <2>1. event' = Loop(a, CLIENTBOUND, packet, ClientboundList(connections[a]), None)
    BY <1>3 DEF on_packet_send
  <2>2. event'.address = a /\ event'.direction = CLIENTBOUND /\ event'.packet = packet /\ event'.seen = None
    BY <2>1, Starts
  <2>3. MaySend(a, packet)'
    BY <1>1 DEF MaySend, InPhase
  <2> QED
    BY <1>1, <1>2, <1>3, <2>2, <2>3 DEF LoopMaps, SendingMaps, SERVERBOUND, CLIENTBOUND
<1>4. CASE ~(a \in DOMAIN connections /\ connections[a].protocol_pipeline # None)
  BY <1>1, <1>2, <1>4 DEF on_packet_send, LoopMaps, Idle
<1> QED
  BY <1>3, <1>4

\* The base protocol knows the packets that name a version: a loop that goes past it has run it.
LEMMA PassByKeepsMaps ==
    ASSUME TransInv, PassBy
    PROVE  HasLists' /\ LoopMaps'
<1>1. /\ AtProtocol /\ ~Knows /\ UNCHANGED <<session, connections>>
      /\ event' = [event EXCEPT !.at = @ + 1]
  BY DEF PassBy
<1>2. /\ event'.address = event.address /\ event'.direction = event.direction
      /\ event'.packet = event.packet /\ event'.seen = event.seen
  BY <1>1 DEF TransInv, IInv, GateInv, LoopOK, IsLoop
<1>3. ~Idle /\ Running
  BY <1>1, AtProtocolRuns DEF TransInv, IInv, GateInv
<1>4. HasLists'
  BY <1>1 DEF TransInv, HasLists, InPhase
<1>5. CASE event.direction = SERVERBOUND
  <2>1. event.packet \in {REQUEST_NETWORK_SETTINGS, LOGIN} => event.at # 1
    BY <1>1, <1>3, <1>5 DEF Running, Receiving, Headed, Knows, AtHand, has_handler_or_cancel, Handlers
  <2> QED
    BY <1>1, <1>2, <1>3, <1>4, <1>5, <2>1 DEF TransInv, LoopMaps, ReceivingMaps
<1>6. CASE event.direction # SERVERBOUND
  <2>1. MaySend(event.address, event.packet)'
    BY <1>1, <1>2, <1>3, <1>6 DEF TransInv, LoopMaps, SendingMaps, MaySend, InPhase
  <2> QED
    BY <1>1, <1>2, <1>3, <1>4, <1>6, <2>1 DEF TransInv, LoopMaps, SendingMaps
<1> QED
  BY <1>5, <1>6

\* A handler of the base protocol writes the server's version; only the first packet is detected.
LEMMA TransformKeepsMaps ==
    ASSUME TransInv, Transform
    PROVE  HasLists' /\ LoopMaps'
<1> DEFINE a == event.address
           detects == AtBase /\ event.packet = REQUEST_NETWORK_SETTINGS
<1>1. /\ AtProtocol /\ Knows /\ UNCHANGED session
      /\ event' = [event EXCEPT !.at = @ + 1, !.trail = Ran, !.seen = IF AtBase THEN ServerProtocol ELSE @]
  BY DEF Transform
<1>2. /\ event'.address = a /\ event'.direction = event.direction /\ event'.packet = event.packet
      /\ event'.seen = IF AtBase THEN ServerProtocol ELSE event.seen
  BY <1>1 DEF TransInv, IInv, GateInv, LoopOK, IsLoop
<1>3. ~Idle /\ Running
  BY <1>1, AtProtocolRuns DEF TransInv, IInv, GateInv
<1>4. /\ DOMAIN connections' = DOMAIN connections
      /\ \A b \in DOMAIN connections \ {a} : connections'[b] = connections[b]
      /\ a \in DOMAIN connections =>
            /\ connections'[a].protocol_pipeline = connections[a].protocol_pipeline
            /\ ~detects => connections'[a].client_protocol = connections[a].client_protocol
      /\ detects => session[a].phase = "open"
  BY TransformDetects DEF TransInv, IInv
<1>5. HasLists'
  <2> HIDE DEF a, detects
  <2> QED
    BY <1>1, <1>4 DEF TransInv, HasLists, InPhase
<1>6. CASE event.direction = SERVERBOUND
  <2>1. a \in DOMAIN connections /\ Headed(event.pipeline)
    BY <1>3, <1>6 DEF Running, Receiving
  <2>2. event.at = 1 => AtBase
    BY <1>6, <2>1 DEF Headed, AtBase, AtHand
  <2>3. AtBase => event.packet \in {REQUEST_NETWORK_SETTINGS, LOGIN}
    BY <1>1, <1>6 DEF AtBase, Knows, has_handler_or_cancel, Handlers, Cancels
  <2>4. ReceivingMaps
    BY <1>3, <1>6 DEF TransInv, LoopMaps
  <2>5. event.packet # REQUEST_NETWORK_SETTINGS => Settled(connections'[a])
    BY <1>4, <2>1, <2>4 DEF ReceivingMaps, Settled
  <2> QED
    BY <1>2, <1>5, <1>6, <2>2, <2>3, <2>4, <2>5 DEF LoopMaps, ReceivingMaps
<1>7. CASE event.direction # SERVERBOUND
  <2>1. ~AtBase /\ UNCHANGED connections
    BY <1>7 DEF AtBase, Transform
  <2>2. MaySend(event.address, event.packet)'
    BY <1>1, <1>2, <1>3, <1>7 DEF TransInv, LoopMaps, SendingMaps, MaySend, InPhase
  <2> QED
    BY <1>1, <1>2, <1>3, <1>5, <1>7, <2>1, <2>2 DEF TransInv, LoopMaps, SendingMaps
<1> QED
  BY <1>6, <1>7

\* The packet that takes a session to the login has resolved the lists before its loop.
LEMMA EndsKeepsMaps ==
    ASSUME TransInv, ~Idle, NEW forwarded, NEW trail, Ends(forwarded, trail)
    PROVE  HasLists' /\ LoopMaps'
<1> DEFINE a == event.address
<1>1. event' = NoLoop /\ UNCHANGED connections /\ Running /\ a \in Addresses /\ DOMAIN connections \subseteq Addresses
  BY DEF Ends, TransInv, IInv, GateInv, ConnectionsOK, LoopOK, Running
<1>2. LoopMaps'
  BY <1>1, NoLoopIsOK DEF LoopMaps, Idle
<1>3. CASE event.direction = SERVERBOUND
  <2>1. MayReceive(a, event.packet) /\ Received(a, event.packet, forwarded)
    BY <1>1, <1>3 DEF Running, Receiving, Ends
  <2>2. event.packet # REQUEST_NETWORK_SETTINGS => Settled(connections[a])
    BY <1>3 DEF TransInv, LoopMaps, ReceivingMaps
  <2> HIDE DEF a
  <2>3. /\ session'[a].phase = session[a].phase \/ session'[a].phase \in {"settings", "login"}
        /\ session'[a].phase = "login" => session[a].phase \in {"settings", "login"}
        /\ \A b \in Addresses \ {a} : session'[b] = session[b]
    BY <1>1, <2>1, ReceivedKeeps DEF TransInv, IInv, GateInv
  <2>4. session[a].phase # "open" => event.packet # REQUEST_NETWORK_SETTINGS
    BY <2>1, PacketsAssumption DEF MayReceive, InPhase, LOGIN, REQUEST_NETWORK_SETTINGS
  <2>5. HasLists'
    BY <1>1, <2>2, <2>3, <2>4 DEF TransInv, HasLists, InPhase, Settled
  <2> QED
    BY <1>2, <2>5
<1>4. CASE event.direction # SERVERBOUND
  <2>1. UNCHANGED session
    BY <1>4 DEF Ends
  <2> QED
    BY <1>1, <1>2, <2>1 DEF TransInv, HasLists, InPhase
<1> QED
  BY <1>3, <1>4

\* The steps of sessions keep it: only the login event leads on from the login.
LEMMA SessionStepKeepsHasLists ==
    ASSUME TransInv, NEW a \in Addresses, Silent(a) \/ on_player_login(a) \/ on_player_quit(a)
    PROVE  HasLists'
<1>1. DOMAIN connections \subseteq Addresses /\ SessionsOK
  BY DEF TransInv, IInv, GateInv, ConnectionsOK
<1>2. /\ \A b \in Addresses \ {a} : session'[b] = session[b]
      /\ session'[a].phase \in {"login", "joined", "refused"} => session[a].phase = "login"
  <2>1. ASSUME NEW version, Open(a, version)
        PROVE  session'[a].phase = "open" /\ \A b \in Addresses \ {a} : session'[b] = session[b]
    BY <1>1, <2>1 DEF Open, SessionsOK
  <2>2. ASSUME NEW phase \in Phases, MoveTo(a, phase)
        PROVE  session'[a].phase = phase /\ \A b \in Addresses \ {a} : session'[b] = session[b]
    BY <1>1, <2>2, MoveToKeeps
  <2>3. {"lost", "closed", "joined", "refused"} \subseteq Phases
    BY DEF Phases
  <2> QED
    BY <2>1, <2>2, <2>3
    DEF Silent, Lose, on_player_login, LoggedIn, on_player_quit, Quit, InPhase
<1>3. /\ DOMAIN connections' \subseteq DOMAIN connections
      /\ \A b \in DOMAIN connections' : connections'[b] = connections[b]
  BY DEF Silent, on_player_login, on_player_quit, remove_by_player
<1> QED
  BY <1>1, <1>2, <1>3 DEF TransInv, HasLists, InPhase

\* The invariant is inductive.
LEMMA TransInductive == ASSUME ~MixedReuse PROVE TransInv /\ [Next]_vars => TransInv'
<1> SUFFICES ASSUME TransInv, [Next]_vars PROVE TransInv'
  OBVIOUS
<1>1. IInv'
  BY ListsInductive DEF TransInv
<1>2. ASSUME UNCHANGED vars PROVE HasLists' /\ LoopMaps'
  BY <1>2 DEF vars, TransInv, HasLists, LoopMaps, ReceivingMaps, SendingMaps, MaySend, InPhase, Idle
<1>3. ASSUME NEW a \in Addresses, NEW packet, on_packet_receive(a, packet) \/ on_packet_send(a, packet)
      PROVE  HasLists' /\ LoopMaps'
  BY <1>3, ReceiveKeepsMaps, SendKeepsMaps
<1>4. ASSUME NEW a \in Addresses, Silent(a) \/ on_player_login(a) \/ on_player_quit(a)
      PROVE  HasLists' /\ LoopMaps'
  <2>1. Idle /\ UNCHANGED event
    BY <1>4 DEF Silent, on_player_login, on_player_quit
  <2> QED
    BY <1>4, <2>1, SessionStepKeepsHasLists DEF LoopMaps, Idle
<1>5. ASSUME PassBy \/ Transform PROVE HasLists' /\ LoopMaps'
  BY <1>5, PassByKeepsMaps, TransformKeepsMaps
<1>6. ASSUME Stop \/ Finish PROVE HasLists' /\ LoopMaps'
  <2>1. Stop => ~Idle /\ Ends(FALSE, Ran)
    BY AtProtocolRuns DEF Stop, TransInv, IInv, GateInv
  <2>2. Finish => ~Idle /\ Ends(TRUE, event.trail)
    BY DEF Finish
  <2> QED
    BY <1>6, <2>1, <2>2, EndsKeepsMaps
<1>7. HasLists' /\ LoopMaps'
  BY <1>2, <1>3, <1>4, <1>5, <1>6 DEF Next
<1> QED
  BY <1>1, <1>7 DEF TransInv

\* It holds in every state.
LEMMA TransInvariant == ASSUME ~MixedReuse PROVE Spec => []TransInv
<1>1. Init => TransInv
  BY GateInitial, NoLoopIsOK DEF Init, TransInv, IInv, ListsInv, HasLists, LoopMaps, Idle
<1>2. TransInv /\ [Next]_vars => TransInv'
  BY TransInductive
<1> QED
  BY <1>1, <1>2, PTL DEF Spec

-----------------------------------------------------------------------------
(***************************************************************************)
(* The refinement, action by action.                                       *)
(***************************************************************************)

\* What is visible of an event.
LEMMA VisibleEvent ==
    ASSUME NEW a, NEW direction, NEW packet, NEW seen, NEW result, NEW r,
           r.forwarded = result.forwarded, r.trail = AfterBase(result.trail)
    PROVE  Visible(Event(a, direction, packet, result, seen)) = Event(a, direction, packet, r, seen)
BY DEF Visible, Event

(***************************************************************************)
(* The loop over the list of a connection ends as one over the chain of    *)
(* the client: without lists there is only RequestNetworkSettings, which   *)
(* no chain touches.                                                       *)
(***************************************************************************)
LEMMA ReceivedAsByChain ==
    ASSUME NEW c, ConnectionOK(c), Agrees(c),
           NEW version \in ClientVersions \cup {0},
           NEW packet, packet = REQUEST_NETWORK_SETTINGS \/ (c.client_protocol = version /\ Settled(c)),
           NEW result \in Outcomes(ServerboundList(c), SERVERBOUND, packet)
    PROVE  \E r \in Abstract!Outcomes(Abstract!Chain(version), SERVERBOUND, packet) \cup Abstract!Unreadable(packet) :
               r.forwarded = result.forwarded /\ r.trail = AfterBase(result.trail)
<1> DEFINE chain == Abstract!Chain(version)
           own == IF Settled(c) THEN Abstract!Chain(c.client_protocol) ELSE <<>>
<1>1. own \in Seq(Pool) /\ chain \in Seq(Pool)
  <2>1. c.client_protocol \in ClientVersions \cup {0}
    BY DEF ConnectionOK, UserConnections
  <2> QED
    BY <2>1, ChainType
<1>2. ServerboundList(c) = <<Base>> \o own
  <2>1. <<Base>> \o <<>> = <<Base>>
    OBVIOUS
  <2> QED
    BY <2>1, ServerboundListIs DEF Settled, ServerboundList
<1>3. packet # REQUEST_NETWORK_SETTINGS => own = chain
  OBVIOUS
<1> HIDE DEF own, chain
<1>4. \/ /\ packet \in {REQUEST_NETWORK_SETTINGS, LOGIN}
         /\ result.forwarded = FALSE /\ AfterBase(result.trail) = <<>>
      \/ \E r \in Outcomes(own, SERVERBOUND, packet) :
             r.forwarded = result.forwarded /\ r.trail = AfterBase(result.trail)
  <2>1. SERVERBOUND \in {SERVERBOUND, CLIENTBOUND}
    OBVIOUS
  <2>2. result \in Outcomes(<<Base>> \o own, SERVERBOUND, packet)
    BY <1>2
  <2> QED
    BY <1>1, <2>1, <2>2, LoopAfterBase, ZenonT(30)
<1>5. CASE packet \in {REQUEST_NETWORK_SETTINGS, LOGIN} /\ result.forwarded = FALSE /\ AfterBase(result.trail) = <<>>
  <2> DEFINE unread == [forwarded |-> FALSE, trail |-> <<>>]
  <2>1. unread \in Abstract!Unreadable(packet)
    BY <1>5, SameVocabulary DEF Abstract!Unreadable
  <2>2. unread.forwarded = result.forwarded /\ unread.trail = AfterBase(result.trail)
    BY <1>5
  <2> HIDE DEF unread
  <2> QED
    BY <2>1, <2>2
<1>6. Outcomes(own, SERVERBOUND, packet) = Outcomes(chain, SERVERBOUND, packet)
  <2>1. CASE packet = REQUEST_NETWORK_SETTINGS
    <3>1. \A p \in Pool : ~has_handler_or_cancel(p, SERVERBOUND, packet)
      BY <2>1, HandshakeAssumption
    <3>2. /\ \A i \in 1 .. Len(own) : ~has_handler_or_cancel(own[i], SERVERBOUND, packet)
          /\ \A i \in 1 .. Len(chain) : ~has_handler_or_cancel(chain[i], SERVERBOUND, packet)
      BY <1>1, <3>1
    <3> QED
      BY <1>1, <3>2, UntouchedIsForwarded
  <2> QED
    BY <1>3, <2>1
<1> QED
  BY <1>4, <1>5, <1>6, SameOutcomes DEF chain

\* The clientbound list ends as the chain reversed.
LEMMA SentAsByChain ==
    ASSUME NEW c, ConnectionOK(c), Agrees(c), c.protocol_pipeline # None,
           NEW packet, NEW result \in Outcomes(ClientboundList(c), CLIENTBOUND, packet)
    PROVE  \E r \in Abstract!Outcomes(Abstract!Reverse(Abstract!Chain(c.client_protocol)), CLIENTBOUND, packet) :
               r.forwarded = result.forwarded /\ r.trail = AfterBase(result.trail)
<1> DEFINE chain == Abstract!Chain(c.client_protocol)
<1>1. Reverse(chain) \in Seq(Pool)
  <2>1. c.client_protocol \in ClientVersions \cup {0}
    BY DEF ConnectionOK, UserConnections
  <2>2. chain \in Seq(Pool)
    BY <2>1, ChainType
  <2> QED
    BY <2>2 DEF Reverse
<1>2. \/ ClientboundList(c) = <<Base>> \o Reverse(chain)
      \/ ClientboundList(c) = <<>> /\ chain = <<>>
  BY ClientboundListIs
<1> HIDE DEF chain
<1>3. \E r \in Outcomes(Reverse(chain), CLIENTBOUND, packet) :
          r.forwarded = result.forwarded /\ r.trail = AfterBase(result.trail)
  <2>1. CASE ClientboundList(c) = <<Base>> \o Reverse(chain)
    <3>1. CLIENTBOUND # SERVERBOUND /\ CLIENTBOUND \in {SERVERBOUND, CLIENTBOUND}
      BY DEF CLIENTBOUND, SERVERBOUND
    <3>2. result \in Outcomes(<<Base>> \o Reverse(chain), CLIENTBOUND, packet)
      BY <2>1
    <3> QED
      BY <1>1, <3>1, <3>2, LoopAfterBase, ZenonT(30)
  <2>2. CASE ClientboundList(c) = <<>> /\ chain = <<>>
    <3>1. Reverse(chain) = <<>>
      BY <2>2 DEF Reverse
    <3> QED
      BY <2>2, <3>1, EmptyIsForwarded, EmptyAfterBase
  <2> QED
    BY <1>2, <2>1, <2>2
<1> QED
  BY <1>3, SameOutcomes, SameVocabulary DEF chain

(***************************************************************************)
(* What the loop has made of the packet when it ends is one of the results *)
(* that its list has in closed form.                                       *)
(***************************************************************************)
LEMMA StopIsOutcome ==
    ASSUME LoopOK, Stop
    PROVE  [forwarded |-> FALSE, trail |-> Ran] \in Outcomes(event.pipeline, event.direction, event.packet)
<1>1. /\ AtProtocol /\ Knows /\ (IsCancelled \/ MayStop(AtHand, event.direction))
      /\ RunSoFar /\ event.at \in 1 .. Len(event.pipeline) /\ Len(event.pipeline) \in Nat
  BY AtProtocolRuns DEF Stop, Running
<1>2. event.at \in Stops(event.pipeline, event.direction, event.packet)
  BY <1>1 DEF Stops, Drops, IsCancelled, Knows, AtHand, RunSoFar
<1>3. Ran = Trail(event.pipeline, event.direction, event.packet, event.at)
  BY <1>1, RanGrows
<1> QED
  BY <1>2, <1>3 DEF Outcomes

LEMMA FinishIsOutcome ==
    ASSUME LoopOK, Finish
    PROVE  [forwarded |-> TRUE, trail |-> event.trail] \in Outcomes(event.pipeline, event.direction, event.packet)
<1>1. event.at - 1 = Len(event.pipeline) /\ RunSoFar
  BY FinishIsBehind DEF Running
<1> QED
  BY <1>1 DEF RunSoFar, Outcomes

\* The end of a serverbound loop is the step in which a Translator receives the packet.
LEMMA EndsAsReceive ==
    ASSUME TransInv, ~Idle, event.direction = SERVERBOUND, NEW forwarded, NEW trail, Ends(forwarded, trail),
           [forwarded |-> forwarded, trail |-> trail] \in Outcomes(event.pipeline, event.direction, event.packet),
           forwarded => event.at # 1
    PROVE  Abstract!Receive(event.address, event.packet)
<1> DEFINE a == event.address
           packet == event.packet
           version == session[a].version
           c == connections[a]
           result == [forwarded |-> forwarded, trail |-> trail]
<1>1. /\ Running /\ Receiving /\ ReceivingMaps /\ a \in Addresses /\ a \in DOMAIN connections
      /\ MayReceive(a, packet) /\ Received(a, packet, forwarded)
      /\ event.pipeline = ServerboundList(c)
  BY DEF TransInv, IInv, GateInv, LoopOK, LoopMaps, Running, Receiving, ListAt, Ends
<1>2. version \in ClientVersions \cup {0}
  BY <1>1 DEF TransInv, IInv, GateInv, SessionsOK, Sessions
<1>3. ConnectionOK(c) /\ Agrees(c)
  BY <1>1 DEF TransInv, IInv, GateInv, ConnectionsOK, ListsInv
<1>4. packet = REQUEST_NETWORK_SETTINGS \/ (c.client_protocol = version /\ Settled(c))
  BY <1>1 DEF ReceivingMaps, MayReceive, InPhase, TransInv, IInv, GateInv, KnowsClient
<1>5. PICK r \in Abstract!Outcomes(Abstract!Chain(version), SERVERBOUND, packet) \cup Abstract!Unreadable(packet) :
          r.forwarded = forwarded /\ r.trail = AfterBase(trail)
  <2>1. result \in Outcomes(ServerboundList(c), SERVERBOUND, packet)
    BY <1>1
  <2>2. result.forwarded = forwarded /\ result.trail = trail
    OBVIOUS
  <2> HIDE DEF version, c, packet, result
  <2> QED
    BY <1>2, <1>3, <1>4, <2>1, <2>2, ReceivedAsByChain
<1>6. (IF forwarded THEN event.seen ELSE None) = Abstract!SeenVersion(packet, r.forwarded)
  BY <1>1, <1>5, SameVocabulary DEF ReceivingMaps, Abstract!SeenVersion
<1>7. Visible(last)' = Abstract!Event(a, Abstract!SERVERBOUND, packet, r, Abstract!SeenVersion(packet, r.forwarded))
  <2>1. last' = Event(a, SERVERBOUND, packet, result, IF forwarded THEN event.seen ELSE None)
    BY DEF Ends
  <2>2. Visible(last)' = Visible(last')
    BY DEF Visible
  <2>3. r.forwarded = result.forwarded /\ r.trail = AfterBase(result.trail)
    BY <1>5
  <2> HIDE DEF result
  <2> QED
    BY <1>6, <2>1, <2>2, <2>3, VisibleEvent, SameVocabulary
<1>8. Abstract!Received(a, packet, r.forwarded) /\ Abstract!MayReceive(a, packet)
  BY <1>1, <1>5, SameSessions
<1> QED
  BY <1>5, <1>7, <1>8, SameVocabulary DEF Abstract!Receive

\* Who is in a phase in which the server sends has a connection, whose lists are resolved after the login.
LEMMA SendsToKnown ==
    ASSUME TransInv, NEW a \in Addresses, NEW packet, MaySend(a, packet)
    PROVE  /\ a \in DOMAIN connections
           /\ ConnectionOK(connections[a]) /\ Agrees(connections[a])
           /\ connections[a].client_protocol = session[a].version
           /\ connections[a].protocol_pipeline # None \/ session[a].version = 0 \/ packet \in EarlyPackets
<1>1. (InPhase(a, {"settings"}) /\ packet \in EarlyPackets) \/ InPhase(a, {"login", "joined"})
  BY DEF MaySend, InPhase
<1>2. a \in DOMAIN connections /\ connections[a].client_protocol = session[a].version
  BY <1>1 DEF TransInv, IInv, GateInv, KnowsClient, InPhase
<1>3. ConnectionOK(connections[a]) /\ Agrees(connections[a])
  BY <1>2 DEF TransInv, IInv, GateInv, ConnectionsOK, ListsInv
<1> QED
  BY <1>1, <1>2, <1>3 DEF TransInv, HasLists, InPhase

\* The end of a clientbound loop is the step in which a Translator sends the packet.
LEMMA EndsAsSend ==
    ASSUME TransInv, ~Idle, event.direction # SERVERBOUND, NEW forwarded, NEW trail, Ends(forwarded, trail),
           [forwarded |-> forwarded, trail |-> trail] \in Outcomes(event.pipeline, event.direction, event.packet)
    PROVE  Abstract!Send(event.address, event.packet)
<1> DEFINE a == event.address
           packet == event.packet
           c == connections[a]
           result == [forwarded |-> forwarded, trail |-> trail]
<1>1. /\ Running /\ SendingMaps /\ a \in Addresses /\ event.direction = CLIENTBOUND
      /\ MaySend(a, packet) /\ c.protocol_pipeline # None /\ UNCHANGED session
  BY DEF TransInv, IInv, GateInv, LoopOK, LoopMaps, SendingMaps, Running, Ends
<1>2. /\ a \in DOMAIN connections /\ ConnectionOK(c) /\ Agrees(c)
      /\ c.client_protocol = session[a].version
  BY <1>1, SendsToKnown
<1>3. event.pipeline = ClientboundList(c)
  BY <1>1, <1>2 DEF Running, ListAt
<1>4. PICK r \in Abstract!Outcomes(Abstract!Reverse(Abstract!Chain(c.client_protocol)), CLIENTBOUND, packet) :
          r.forwarded = forwarded /\ r.trail = AfterBase(trail)
  <2>1. result \in Outcomes(ClientboundList(c), CLIENTBOUND, packet)
    BY <1>1, <1>3
  <2>2. result.forwarded = forwarded /\ result.trail = trail
    OBVIOUS
  <2> HIDE DEF c, packet, result
  <2> QED
    BY <1>1, <1>2, <2>1, <2>2, SentAsByChain
<1>5. (IF forwarded THEN event.seen ELSE None) = None
  BY <1>1 DEF SendingMaps
<1>6. Visible(last)' = Abstract!Event(a, Abstract!CLIENTBOUND, packet, r, None)
  <2>1. last' = Event(a, CLIENTBOUND, packet, result, IF forwarded THEN event.seen ELSE None)
    BY <1>1 DEF Ends
  <2>2. Visible(last)' = Visible(last')
    BY DEF Visible
  <2>3. r.forwarded = result.forwarded /\ r.trail = AfterBase(result.trail)
    BY <1>4
  <2> HIDE DEF result
  <2> QED
    BY <1>5, <2>1, <2>2, <2>3, VisibleEvent, SameVocabulary
<1>7. Abstract!MaySend(a, packet)
  BY <1>1, SameSessions
<1> QED
  BY <1>1, <1>2, <1>4, <1>6, <1>7, SameVocabulary DEF Abstract!Send

\* A packet that is left alone is one that the chain at hand does not touch, if there is one.
LEMMA LeftAloneAsSend ==
    ASSUME TransInv, NEW a \in Addresses, NEW packet, on_packet_send(a, packet),
           ~(a \in DOMAIN connections /\ connections[a].protocol_pipeline # None)
    PROVE  Abstract!Send(a, packet)
<1> DEFINE chain == Abstract!Chain(session[a].version)
           result == [forwarded |-> TRUE, trail |-> <<>>]
<1>1. MaySend(a, packet) /\ UNCHANGED session /\ last' = Event(a, CLIENTBOUND, packet, result, None)
  BY DEF on_packet_send
<1>2. session[a].version = 0 \/ packet \in EarlyPackets
  BY <1>1, SendsToKnown
<1>3. chain \in Seq(Pool) /\ Reverse(chain) \in Seq(Pool)
  <2>1. session[a].version \in ClientVersions \cup {0}
    BY DEF TransInv, IInv, GateInv, SessionsOK, Sessions
  <2>2. chain \in Seq(Pool)
    BY <2>1, ChainType
  <2> QED
    BY <2>2 DEF Reverse
<1>4. result \in Outcomes(Reverse(chain), CLIENTBOUND, packet)
  <2>1. CASE session[a].version = 0
    <3>1. Reverse(chain) = <<>>
      BY <2>1 DEF Reverse, Abstract!Chain
    <3> QED
      BY <3>1, EmptyIsForwarded
  <2>2. CASE packet \in EarlyPackets
    <3> HIDE DEF chain
    <3>1. \A i \in 1 .. Len(Reverse(chain)) : ~has_handler_or_cancel(Reverse(chain)[i], CLIENTBOUND, packet)
      <4> DEFINE reversed == Reverse(chain)
      <4>1. reversed \in Seq(Pool)
        BY <1>3
      <4> HIDE DEF reversed
      <4>2. \A i \in 1 .. Len(reversed) : reversed[i] \in Pool
        BY <4>1
      <4> QED
        BY <2>2, <4>2, HandshakeAssumption DEF reversed
    <3> QED
      BY <1>3, <3>1, UntouchedIsForwarded
  <2> QED
    BY <1>2, <2>1, <2>2
<1>5. result \in Abstract!Outcomes(Abstract!Reverse(chain), Abstract!CLIENTBOUND, packet)
  BY <1>4, SameOutcomes, SameVocabulary
<1>6. Visible(last)' = Abstract!Event(a, Abstract!CLIENTBOUND, packet, result, None)
  <2>1. Visible(last)' = Visible(last')
    BY DEF Visible
  <2>2. result.trail = AfterBase(result.trail)
    BY EmptyAfterBase
  <2> HIDE DEF result
  <2> QED
    BY <1>1, <2>1, <2>2, VisibleEvent, SameVocabulary
<1>7. Abstract!MaySend(a, packet)
  BY <1>1, SameSessions
<1> QED
  BY <1>1, <1>5, <1>6, <1>7 DEF Abstract!Send

(***************************************************************************)
(* A packet event is one step of a Translator, the end of its loop; the    *)
(* start and the turns before it are stutters.                             *)
(***************************************************************************)
LEMMA EndsMaps ==
    ASSUME TransInv, Stop \/ Finish
    PROVE  Abstract!Next
<1>1. LoopOK
  BY DEF TransInv, IInv, GateInv
<1>2. PICK forwarded \in BOOLEAN, trail \in {Ran, event.trail} :
          /\ ~Idle /\ Ends(forwarded, trail)
          /\ [forwarded |-> forwarded, trail |-> trail] \in Outcomes(event.pipeline, event.direction, event.packet)
          /\ event.direction = SERVERBOUND /\ forwarded => event.at # 1
  <2>1. CASE Stop
    BY <1>1, <2>1, StopIsOutcome, AtProtocolRuns DEF Stop
  <2>2. CASE Finish
    BY <1>1, <2>2, FinishIsOutcome, FinishIsBehind DEF Finish
  <2> QED
    BY <2>1, <2>2
<1>3. Running /\ event.address \in Addresses
  BY <1>1, <1>2 DEF LoopOK, Running
<1>4. CASE event.direction = SERVERBOUND
  <2>1. Abstract!Receive(event.address, event.packet)
    BY <1>2, <1>4, EndsAsReceive
  <2>2. event.packet \in ServerboundPackets \cup {REQUEST_NETWORK_SETTINGS, LOGIN}
    BY <1>3, <1>4 DEF Running, Receiving, MayReceive
  <2> QED
    BY <1>3, <2>1, <2>2, SameVocabulary DEF Abstract!Next
<1>5. CASE event.direction # SERVERBOUND
  <2>1. Abstract!Send(event.address, event.packet)
    BY <1>2, <1>5, EndsAsSend
  <2>2. event.packet \in EarlyPackets \cup ClientboundPackets
    BY <1>2, <1>5 DEF TransInv, LoopMaps, SendingMaps, MaySend
  <2> QED
    BY <1>3, <2>1, <2>2 DEF Abstract!Next
<1> QED
  BY <1>4, <1>5

\* The steps of a session are those of a Translator's session; the gate decides on the client at hand.
LEMMA SessionStepMaps ==
    ASSUME TransInv, NEW a \in Addresses, Silent(a) \/ on_player_login(a) \/ on_player_quit(a)
    PROVE  /\ \/ \E version \in ClientVersions : Abstract!Open(a, version)
              \/ Abstract!Lose(a)
              \/ Abstract!LoggedIn(a, session[a].version \in Blocked)
              \/ Abstract!Quit(a)
           /\ UNCHANGED Visible(last)
<1>1. UNCHANGED Visible(last)
  BY DEF Silent, on_player_login, on_player_quit, Visible
<1>2. CASE Silent(a)
  BY <1>1, <1>2, SameSessions DEF Silent
<1>3. CASE on_player_login(a)
  <2>1. InPhase(a, {"login"}) /\ LoggedIn(a, Refused(a))
    BY <1>3 DEF on_player_login, LoggedIn
  <2>2. a \in DOMAIN connections /\ connections[a].client_protocol = session[a].version
    BY <2>1 DEF TransInv, IInv, GateInv, KnowsClient, InPhase
  <2>3. Refused(a) <=> session[a].version \in Blocked
    BY <2>2 DEF Refused
  <2>4. LoggedIn(a, session[a].version \in Blocked)
    BY <2>1, <2>3 DEF LoggedIn
  <2> QED
    BY <1>1, <2>4, SameSessions
<1>4. CASE on_player_quit(a)
  BY <1>1, <1>4, SameSessions DEF on_player_quit
<1> QED
  BY <1>2, <1>3, <1>4

\* Every step maps to a step or a stutter.
LEMMA StepMaps == TransInv /\ [Next]_vars => [Abstract!Next]_(Abstract!vars)
<1> SUFFICES ASSUME TransInv, [Next]_vars PROVE [Abstract!Next]_(Abstract!vars)
  OBVIOUS
<1>1. ASSUME UNCHANGED <<session, last>> PROVE UNCHANGED Abstract!vars
  BY <1>1 DEF Abstract!vars, Visible
<1>2. CASE UNCHANGED vars \/ PassBy \/ Transform
  BY <1>1, <1>2 DEF vars, PassBy, Transform
<1>3. ASSUME NEW a \in Addresses, NEW packet, on_packet_receive(a, packet)
      PROVE  UNCHANGED Abstract!vars
  BY <1>1, <1>3 DEF on_packet_receive
<1>4. ASSUME NEW a \in Addresses, NEW packet \in EarlyPackets \cup ClientboundPackets, on_packet_send(a, packet)
      PROVE  Abstract!Next \/ UNCHANGED Abstract!vars
  <2>1. CASE a \in DOMAIN connections /\ connections[a].protocol_pipeline # None
    BY <1>1, <1>4, <2>1 DEF on_packet_send
  <2>2. CASE ~(a \in DOMAIN connections /\ connections[a].protocol_pipeline # None)
    BY <1>4, <2>2, LeftAloneAsSend DEF Abstract!Next
  <2> QED
    BY <2>1, <2>2
<1>5. ASSUME NEW a \in Addresses, Silent(a) \/ on_player_login(a) \/ on_player_quit(a)
      PROVE  Abstract!Next
  BY <1>5, SessionStepMaps DEF Abstract!Next, Abstract!PlayerLogin
<1>6. CASE Stop \/ Finish
  BY <1>6, EndsMaps
<1> QED
  BY <1>2, <1>3, <1>4, <1>5, <1>6 DEF Next

-----------------------------------------------------------------------------
(***************************************************************************)
(* The pipeline implements Translator: the connections, the lists cached   *)
(* in them and the version detected in the middle of a loop are invisible, *)
(* as long as an address where a session was lost is only reused by a      *)
(* client of the same version (pipeline.on_packet_receive, on_packet_send, *)
(* plugin.on_player_login).                                                *)
(***************************************************************************)
THEOREM PipelineTranslates == ASSUME ~MixedReuse PROVE Spec => Translates
<1>1. Init => Abstract!Init
  <2>1. AfterBase(<<>>) = <<>>
    BY EmptyAfterBase
  <2>2. Visible(NoEvent) = NoEvent
    <3> DEFINE none == [forwarded |-> FALSE, trail |-> <<>>]
    <3>1. none.trail = AfterBase(none.trail)
      BY <2>1
    <3> HIDE DEF none
    <3>2. Visible(Event(None, None, None, none, None)) = Event(None, None, None, none, None)
      BY <3>1, VisibleEvent
    <3> QED
      BY <3>2 DEF NoEvent, none
  <2> QED
    BY <2>2, SameSessions, SameVocabulary DEF Init, Abstract!Init
<1>2. TransInv /\ [Next]_vars => [Abstract!Next]_(Abstract!vars)
  BY StepMaps
<1> QED
  BY <1>1, <1>2, TransInvariant, PTL DEF Spec, Translates, Abstract!Spec
=============================================================================
