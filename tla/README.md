# A verification project for Endweave

Endweave is a plugin for Endstone (a Minecraft Bedrock server) that lets clients of
other protocol versions join. It intercepts every packet, finds the chain of
version-to-version protocols that leads from the client's version to the server's, and
lets each protocol of the chain rewrite the packet.

This directory holds TLA+ modules translated from `src/src/endstone_endweave/`, TLC
configurations that check them on small instances, and TLAPS proofs of what matters most
for every instance. File names below are relative to that source directory.

## 1. The system

| Component | State it keeps | Operations | Talks to |
|---|---|---|---|
| Protocol registry and chain search (`protocol/manager.py`) | `_protocols` (by version pair, in insertion order), `_path_cache`, `_base_protocols` | `register`, `register_base`, `get_path` with `_bfs`, `get_supported_versions` | called by the plugin at start-up and by the pipeline for a new connection |
| Packet pipeline (`pipeline.py`) | none of its own; fills two lists cached in a connection | `on_packet_receive`, `on_packet_send`, `_get_pipeline`, failure dumps | registry, connections, protocols |
| Connections (`connection.py`) | one `UserConnection` per network address: client version, two cached lists, a warning flag, typed storage | `get_or_create`, `get`, `remove_by_player`, `remove_by_address` | pipeline, base protocol, login gate |
| Base protocol, dispatch (`protocol/base.py`, `protocol/__init__.py`) | handler and cancel tables per direction | `transform`, `has_handler_or_cancel`, `init`; detects the client version, rewrites Login | writes the connection's client version |
| Plugin (`plugin.py`) | gated versions, supported and advertised versions | `on_enable`, the packet, ping, login, join and quit events | everything |
| Ten registered protocols (`protocol/v*_to_v*`) | constant tables | one handler per rewritten packet | codec, rewriters, mappings |
| ID remapping (`protocol/mapping_data.py`, `protocol/mappings`, `rewriter/`) | constant shifts | `shift_up`, `shift_down`, `cap`, the sound and actor event rewriters | handlers |
| Codec (`codec/`) | read position, output buffer, cancelled flag | fields of all types, `passthrough`, `read`, `write`, `map`, `to_bytes` | handlers |
| Packet numbers and version names (`protocol/packet_ids.py`, `versions.py`) | constants | - | all |
| Update checker (`update.py`) | the message found by a background request | `check`, `notify_if_needed` | plugin |
| Crash reports, debug output, metrics (`exception.py`, `debug.py`, `metrics.py`) | configuration | formatting, log filters, reporting | pipeline, plugin |

What is hard about it, and what makes it correct:

* **The cache of the registry.** Answers are remembered, "no path" included. A later
  registration must not leave an old answer behind, and the search must end and return
  a shortest chain although the registered protocols form cycles.
* **The lists of a connection.** They are filled by the first packet that follows the
  version detection and are never invalidated. The version detection itself runs *inside*
  the loop over the list that was resolved before it. The lists must be those of the
  client that is connected now.
* **Connections outlive sessions.** They are keyed by address, created by the first
  packet, and removed only by a `PlayerQuitEvent`, which a session that never produced a
  player does not raise. What the next session at the address inherits matters most for
  the login gate, which looks the client's version up by address.
* **Order and partial failure.** Serverbound packets go through the chain from the
  client to the server, clientbound ones in reverse. A handler in the middle may raise or
  cancel after others have rewritten the payload; the packet must then be dropped.
* **Numbers and layouts.** Shifts of IDs in both directions, variable-length integers,
  bytes that wrap, and the agreement of what one protocol of a chain writes with what the
  next one reads.

The events run one at a time on the server's thread, and the plugin awaits nothing in
them, so an event handler runs to its end before the next one. The two packet events are
modelled one protocol at a time all the same, for what they leave behind when a protocol
in the middle raises or cancels; the other events are one action each. The only concurrency
is the background request of the update checker.

`PROJECT.json` lists these hazards one by one at their lines, with the properties that
cover them.

## 2. The modules

| Module | Models |
|---|---|
| `Protocols` | the vocabulary: versions, protocols, chains, shortest chains, unreachability; `Paths` is the contract of `get_path` |
| `ChainResolution` | abstract specification of the registry: every answer is a shortest chain of what is registered at that moment, no cache and no search |
| `ProtocolManager` | `manager.py`: registration, cache, breadth-first search statement by statement, the survey of supported versions |
| `ProtocolManager_proofs` | its theorems: types, that what is cached is right and shortest, the order of the search, and that answers stay the same |
| `ChainResolution_proofs` | its theorems: that it implements `ChainResolution`, and that the contract of `get_path` can be met |
| `MCProtocolManager` | a graph of four versions and six protocols for TLC |
| `PacketTransform` | the tables of a protocol, and in closed form (`Outcomes`) what a list of protocols may make of a packet, which is how `Translator` says it |
| `Sessions` | **the environment, not code of the repository**: clients that connect, name their version, log in, become players, quit or are lost |
| `Translator` | abstract specification of the plugin: every packet is rewritten by the chain of the client connected now; no connections, nothing remembered |
| `Pipeline` | `pipeline.py`, with the loop of a packet event one protocol at a time, `connection.py`, `protocol/base.py` and the event handlers of `plugin.py` |
| `Pipeline_proofs` | its theorems on the connections, the login gate, the cached lists and what becomes of a packet when a protocol raises or cancels |
| `Translator_proofs` | its theorem that it implements `Translator` |
| `Registry` | the ten `create_protocol` functions: which packets each protocol handles and drops, per direction |
| `MCPipeline` | `Pipeline` with `Registry` for TLC, on a server of version 944 |
| `IdShifts` | `protocol/mapping_data.py`: `shift_up`, `shift_down`, `cap` |
| `Remapping` | `rewriter/sound.py`, `rewriter/actor_event.py`, the handlers of sound and block events: a packet that carries a number, one protocol after the other; the numberings of the versions are constants, and `TablesAssumption` says what it means for a table to fit them |
| `Mappings` | the tables of `protocol/mappings`, which protocol uses which, and the numberings of `codec/types/enums.py` |
| `MCRemapping` | `Remapping` with `Mappings` for TLC |
| `Remapping_proofs` | its theorems |
| `PacketWrapper` | `codec/wrapper.py` as an interpreter: a payload as tokens, a handler as a sequence of steps, what each step does to the wrapper |
| `Primitives` | the primitive field types of `codec/types/primitives.py` |
| `GameTypes`, `BiomeTypes`, `CommandTypes`, `CraftingTypes` | the compound field types of `codec/types`: settings, items, camera splines, attribute layers, structures; biome definitions; commands; recipes and their ingredients |
| `StartGamePacket`, `CameraPacket` | the parts that the handlers of these packets share |
| `V860V898`, `V898V924`, `V924V944`, `V944V975`, `V975V1001` | every packet handler of the protocols between two neighbouring versions, both ways, and the tables that register them |
| `Layouts` | **the environment, not code of the repository**: the packets of the game, at each version, that some protocol rewrites or drops |
| `GamePackets` | **the environment, not code of the repository**: the payloads that the game sends in a layout, and whether it can read a payload as one |
| `Delivery` | abstract specification of a way: the packet goes past each protocol once, in order; only a protocol with a handler changes, drops or fails it; no wrapper |
| `Journeys` | one packet from its sender through the handlers of every protocol on the way to its receiver, one call of the wrapper after the other, and what must hold of it at each stop |
| `Journeys_proofs` | its theorems |
| `MCJourneys` | `Journeys` with every packet and every way for TLC |
| `VarInts` | the variable-length integers of `codec/reader.py` and `codec/writer.py`, digit by digit |
| `VarInts_proofs` | its theorems |
| `MCVarInts` | `VarInts` for TLC, with the powers of a small base |
| `Nbt` | `codec/types/nbt.py`: compound tags, read into objects and written anew by each protocol, token by token |
| `Nbt_proofs` | its theorems |
| `MCNbt` | `Nbt` for TLC, with tags of every type |

How they fit: `Pipeline` and `Translator` both extend `Sessions`, which extends
`PacketTransform`, which extends `Protocols`; `Pipeline` instantiates `Translator`, and
`ProtocolManager` instantiates `ChainResolution`. `Pipeline` takes `get_path` as a
constant operator and assumes only that it returns a list or `None`, and the empty list for
two equal versions. That there is such an operator, and that the contract `Paths` gives
nothing else, is `ContractIsMet`; that the manager meets the contract is `ResolvesChains`,
and that its answers do not change between two registrations `AnswersStay`. (Nothing is
registered after `on_enable`.) The runs of `Pipeline` give `get_path` one of the answers
that the contract allows.

The modules of the contents of packets are a second tree: `Journeys` extends `Layouts`,
which extends the field types and instantiates the five modules of handlers, and
everything in it is written in the vocabulary of `PacketWrapper`. It instantiates `Delivery`,
and `MCJourneys` takes the senders and receivers from `GamePackets`. It takes from the first
tree what that shows: that a packet goes through the chain of its client, in the order of
its direction (`Translates`), and that a failed or cancelled packet is dropped
(`AllOrNothing`).

### Correspondence of state and actions

`ProtocolManager`: `protocols` is `_protocols` as the sequence of its values in insertion
order (a key assigned again keeps its position), `path_cache` is `_path_cache`. A call of
`get_path` is one of `ReturnSame`, `ReturnCached`, `ReturnDirect` or `StartSearch`; the
search then goes on with `PopLeft` (`queue.popleft()` and the adjacency list), `FollowEdge`
(one turn of the inner loop, with its return), `EdgesDone` and `QueueEmpty`. A call of
`get_supported_versions` keeps its loop in `survey`; the paths it asks for are returned to
it (`ReturnToSurvey`) rather than to a caller. The adjacency list is a set of positions in
`protocols`, visited in ascending order, which is the order of the dictionary.

`Pipeline`: `connections` is `_connections`; a connection has the fields of
`UserConnection` that decide what happens to packets, plus `inits`, which counts the calls
of `Protocol.init`. `Resolve` is `_get_pipeline`; its result replaces the connection and its
list is read back by `ServerboundList`. `event` is the packet event under way: the list that
its loop goes through, the position in it, and the payload. `on_packet_receive` and
`on_packet_send` find the list and start the loop (or leave the packet alone). A turn is
`PassBy`, for a protocol that does not know the packet; `Transform`, for one whose handler
returns, and whose bytes are the payload of the next; or `Stop`, for one that drops the
packet by its table or whose handler raises or cancels. `Finish` is the end of the list.
`Stop` and `Finish` set `last`, which records what became of the packet, and tell `Sessions`;
until then no other event begins (`Idle`). A payload is abstracted to its *trail*, which maps
the positions of the list where a protocol ran to that protocol. A handler is assumed to be
able to raise or to cancel, except the base protocol's clientbound one, which swallows its
errors. `Detect` is `detect_client_protocol`: it changes the connection in the turn of the
base protocol, while the loop goes on over the list that was resolved before, and its
change stays when a later protocol of the list drops the packet.

`Translator` has no loop: a packet meets one of the `Outcomes` of its chain at once. `Trail`
are the protocols that know the packet up to a position, `Drops` holds where a protocol
cancels it by its table, and `Stops` are the positions where the loop may end early.

`Remapping`: `packet` is the payload as far as its numbers go, `at` the version whose wire
format it is in; `Translate` is one turn of the loop of `on_packet_send`, by a protocol
whose server side is `at`. Any such protocol may come next, so the ways that `get_path`
chooses are among those that are checked, and so are detours. `sent`, `origin` and `oldest`
are history. An item of actor data is a value with its type: only a number under the key of
the heartbeat is a sound. `AddActor`, `AddItemActor`, `AddPlayer` and `SetActorData` carry the same list
and are rewritten alike: they are one kind of packet. A sound that v1001 spells is
represented by the number its name has in the table of names, which is one-to-one. The
tables (`Mappings`) come from the mapping files, the numberings from the enumerations that
name each version's IDs: that the two agree is what TLC evaluates as `TablesAssumption`.

`PacketWrapper`: a payload is a sequence of tokens, one for each primitive value: its
encoding, its value where control depends on it (else a datum that tells the values of one
payload apart), and the field it was meant as by its sender. The last is a ghost: no code
reads it. A type of `codec/types` is the sequence of fields its `read` and its `write` go
through (`When` and `Unless` are their conditions, `Times` their loops, `Only` the values
they raise on), and a handler is the sequence of calls it makes of its wrapper: `Pass`
(`passthrough`), `Read`, `Write`, `As` (`map`), `PassAll`, `Cancel`, ... `New` writes a value
of the handler's own. A wrapper is a record: `in` is what its reader has left, `out` what its
writer has, `env` the handler's local variables by the names of the fields they were read
from, `todo` the steps that the handler has still to take, each with the method it is
under, and `st` whether it goes on. `Perform` is what one step does; a step with a body puts
the body in front of what is to do (a loop, itself once more behind it), so that a handler
is run without recursion. Reading past the end, or a token of another encoding, ends the
handler: the real reader would raise, or read garbage and be wrong from there on. `ToBytes`
appends what was left unread, as `to_bytes` does.

`Journeys`: `payload` is the packet in the layout of version `at`, `sent` the packet as its
sender wrote it. One turn of the loop over a chain is either `PassBy`, for a protocol without a
handler, or `Enter` (a new wrapper), then `Work` for each step of the handler, and at its end
`Forward` (`to_bytes`) or `Drop` (the handler cancelled, or raised, or a read did; the status says
which). `Deliver` is the end of the loop. A route goes over
the neighbouring versions: the registered protocols join no others, but for 859, which has
no handlers.

`Layouts` has no source in the repository: a field is in it because the comments of a
handler name it and the handlers on both sides of a version read and write it. Where a
handler and the one before it disagree about a version, the layout follows what most of
them say, and the route is one of the findings or of the *disputed* ones below.

`VarInts`: `result`, `count` and `rest` are the local variables of the loops of
`read_uvarint` and `write_uvarint`. `Receive` is a byte of the sender, `RunOut` the end of
the payload; `Write` is a call of a writer with what the reader of the same protocol
returned, `Carry` one digit of its loop, which the reader of the next protocol takes at
once (the bytes between two protocols are a queue). A field may be signed, unsigned or the
height of a `NETWORK_BLOCK_POS`, at each protocol anew: that is how heights change their
kind at v944. The 64-bit functions are the same with another width and limit.

`Nbt`: the wire is a queue of tokens between two protocols, and the reader takes each token
as soon as it is written. `_read_value` and `_write_value` call themselves; what they are in
the middle of is kept as a stack: `frames` are the calls of `_read_value` for lists, compounds
and arrays that are in progress, with their local variables, and `path` those of
`_write_value`, with the number of elements that are written. `doing` and `writing` say what
the reader and the writer do next. `Take` is a read of one token by the reader, whatever it
waits for (`ReadRoot`, `ReadEntry`, `ReadName`, `ReadValue`, `ReadCount`, `ReadElement`); `Begin`
is a call of `_read_value`, with its check of the depth and of the type, and `Deliver` its
return. `Receive` is a token of any sender and `RunOut` the end of its payload; `Carry` is a
token of a protocol that writes a tag; `Loop` is a turn of the loop of a list or an array,
which moves no token. `Pass` hands what was read to the next writer. `Another` starts with
a new tag, which is one of the game (`GameTags`) or any sender's. In the payloads of
`Journeys` a tag is one token.

Names with an underscore and a capital (`PopLeft_Peek`, `Settled_Uncached`, ...) are faulty
variants of the definition after them, a bug someone could plausibly write there. No
specification uses them; putting one in place of the definition makes the property named
for it in `PROJECT.json` fail.

### The environment

`Sessions` and `Layouts` are assumptions. `Sessions` states what the code assumes of the server: `RequestNetworkSettings` is the first
packet of a session; once it is forwarded, `Login` follows; a client that logged in is
refused or becomes a player; a player, or a refused client, leaves with a
`PlayerQuitEvent`; and before there is a player a session may be lost without an event. A
client of the next session at an address where one was lost is the same client trying
again or, with `MixedReuse`, any client.

## 3. The runs

| Run | What it checks | Bounds |
|---|---|---|
| `manager` (`MCProtocolManager.cfg`) | `TypeOK`, `CacheFresh`, `BreadthFirst`; `ResolvesChains` (the manager implements `ChainResolution`); `AnswersStay` (an answer changes only when something is registered); `CallsReturn` | 4 versions, 6 protocols, at most 4 registered at a time, server version 1 |
| `pipeline` (`MCPipeline.cfg`) | `TypeOK`, `PipelineAgrees`, `InitOnce`; `Translates` (the pipeline implements `Translator`) | 2 addresses, 5 client versions, one early, two late clientbound and two serverbound packets |
| `mixed_reuse` (`MCPipelineMixed.cfg`) | `KnowsClient`, `GateHolds`; `AllOrNothing` (a packet is let through by every protocol of the list or not at all), with addresses reused by other clients | 2 addresses, 3 client versions, two of them gated; one early, one late clientbound and one serverbound packet |
| `remapping` (`MCRemapping.cfg`) | `TypeOK`, `SoundKeepsMeaning`, `ActorDataKept`, `EventArrives`, `InstrumentKept` | none on sounds, events and instruments: all that each version's server sends; actor data of 5 keys with 5 items |
| `journeys` (`MCJourneys.cfg`) | `TypeOK`, `Understood`, `DataKept`, `NetIdsDistinct`, `DroppedRightly`; `HandlersKeep` (each protocol by itself keeps the fields that both its versions have); `Delivers` (the loop with its wrappers implements `Delivery`) | every packet that a protocol on the way handles, between every two versions that are joined, both directions, but for the numbers of `remapping` and the ways that are disputed (below); senders with at most two choices off the least one |
| `numbers` (`MCVarInts.cfg`) | `TypeOK`, `ReadAlike`, `NoneTooLong`; `Arrives`, `ReadersStop` | digits of base 8, numbers of 7 bits, 3 bytes |
| `tags` (`MCNbt.cfg`) | `TypeOK`, `TagKept`, `NoneRefused` | tags nested at most two deep; at most 10 tokens of a sender, out of 13 |
| `stale_pipeline`, `base_skipped` (`Finding*.cfg`) | one property each, violated (section 5) | 1 address |
| `aim_assist`, `biome_definitions`, `join_info` (`Finding*.cfg`) | `Understood`, violated (section 5) | one route each |

**Why the bounds are enough.** For the manager, four versions with six protocols contain
every shape that the search treats differently: a direct protocol, a chain of two and of
three, a shorter way beside a longer one, a cycle between two versions, a version that
reaches nothing and a second protocol for the same key. `MaxRegistered` lets four be
registered at once, in every order, with queries in between, so that every cached answer
meets every later registration. For the pipeline, two addresses show that sessions do not
interfere; the five client versions are the server's own (no translation), one behind a
single newer protocol (975), one behind two newer ones (1001, where the order of the chain
shows), one behind two older ones (898) and one without a chain (999). The packets are
chosen from the real tables: `START_GAME` is rewritten by both protocols of each long
chain, `LOCATOR_BAR` is handled by one protocol and dropped by another,
`SERVERBOUND_DIAGNOSTICS` is dropped or handled depending on the client,
`INVENTORY_TRANSACTION` is rewritten serverbound by several protocols. Every handler on the
way may raise or cancel, so the loop stops at every position of each of these lists. With
addresses taken over by others there are more states: `mixed_reuse` keeps a client behind
two newer protocols, one behind two older ones and one without a chain, so that lists of
every length are inherited; the clientbound packet is rewritten by both protocols of each
list, the serverbound one is handled by one of them and then dropped by the other.

For the numbers, every sound that has a name, every event and every instrument of each
version is sent from each version that a protocol serves; only the values of actor data are
chosen: two sounds that were inserted at different steps and "no sound" of the oldest and of the
newest version, as integers of both widths, and a value of a type that is no sound; each of
them is tried under every key.

For the journeys, the routes are computed (`EveryWay`): every packet that some protocol on the
way from one version to another handles or drops, wherever it is sent from, between an
older server and any newer client and between a server of at most v944 and any older
client. That is every pair of versions with a chain among the ten protocols (859 apart). A
payload is as large as it must be to be misread: a list that the packet is about has one or
two elements, an option is present or absent, a field that selects the form of the packet
takes a value of each kind that a handler or a layout tells apart. `MaxChoices` keeps the product small: of all these choices, two at a time differ
from the least one, so that each form of the packet is combined with each form of every
one of its parts. The run has 618,792 states, for every call of a wrapper is a step. The lists
whose length decides the width of another field (the enum values of
`commands.py`: 256 and 65536) are scaled down to 1 and 2 (`ByteIndexes`, `ShortIndexes`).

Four kinds of route are left out (`Disputed`), for there the handlers of neighbouring
versions contradict each other about what is sent: the two packets of `aim_assist` and
`biome_definitions`; the sound of a v975 client on its way to an older server; and the
clientbound inventory transaction of a server before v944. `Special` adds two forms of packets
that are disputed in the same way: gathering data in the join information of `StartGame`
(`join_info` has it), and the actions of a rower in `Animate` at v898.

For the codec, 8, 7 bits and 3 bytes stand to each other as 128, 32 bits and 5 bytes do: the
last byte that a reader accepts has bits beyond the width, and the largest number fills it
in part. Every sequence of bytes that a sender can choose is tried, the overlong ones
included. A sender of a tag may send any ten tokens, which is enough to go one level deeper
than the limit and to use every unusual form that a reader accepts: counts below zero, a
list of `END` with a count, the same name twice, the name of the root. The tags of the game
are longer: there is one for each type, each number of elements and each type of element at
each depth, the last one included. The depth is 2 for 512: lists inside lists and
compounds, with a level between the first and the last. The number of protocols has no bound.

**Deadlock** is checked in every run.

**Fairness.** `manager` and `numbers` check liveness. In `manager`, `FairSpec` adds weak fairness of the steps of
a search and of a survey. Both are loops of one thread that waits for nothing, so once
entered they go on; no fairness is assumed of the callers. `CallsReturn` holds because
`visited` bounds what is queued. In `numbers`, `Fairness` has the loop of a reader go on, with
another byte or at the end of the payload, and the loop of a writer: both run in one call
that waits for nothing. A sender is free to let a payload end at any byte. `ReadersStop` holds
because the shift is bounded, `Arrives` because the mask comes before the loop.

## 4. The proofs

TLAPS checks these theorems for all values of the constants that satisfy the named
assumptions, which TLC evaluates in the runs:

* `VersionsAssumption`: there are finitely many versions; `PoolAssumption`: a protocol has two
  versions and a name; `BaseApartAssumption`: the base protocol is none of the registered
  ones; `NoneAssumption`, `NoPipelineAssumption`: Python's `None` is not a list;
  `ClientVersionsAssumption`, `ServerProtocolAssumption`, `ServersAssumption`: the versions
  belong to `Versions`; `MaxRegisteredAssumption`, `MixedReuseAssumption`: a number and a Boolean;
* `GetPathAssumption`: `get_path` returns a list or `None`, and the empty list for equal
  versions; `PacketsAssumption`: the two packets that name the client's version are not sent
  again; `HandshakeAssumption`: no registered protocol handles or drops what is exchanged
  before a connection has its lists;
* `StepsAssumption`, `NumberingAssumption`, `GrowthAssumption`, `TablesAssumption`: see `Remapping`
  below;
* `BaseAssumption`, `ModulusAssumption`, `LimitAssumption`, `PowerAssumption`, `WidthAssumption`: a
  number of the width fits into the bytes that a reader accepts;
* `RoutesAssumption`: the protocols of a route are all registered; `HandlersAssumption`, which has
  no constants to be chosen, is what the tables of handlers are: see `Journeys_proofs` below;
* `MaxDepthAssumption`, `TokensAssumption`, `MaxTokensAssumption`: types; `GameAssumption`: the tags
  of the game are formed, and nested no deeper than the limit.

The theorems, and what their proofs rest on:

* `ProtocolManager_proofs!TypeCorrect`. The invariant has two parts that the next theorems rest
  on: `CacheSound`, that a cached path is a chain of registered protocols and a cached `None`
  right; and, for what enters the cache comes out of a search, `SearchInv`: every queued path,
  and the one being extended, is empty at the client version or a chain of registered
  protocols from it; the visited versions contain everything queued; and every edge out of a
  visited version that is neither queued nor under way leads to a visited version, never to
  the goal. When the queue runs empty, the visited versions are a closed set without the
  server version, which is the definition of `Unreachable`.
* `ProtocolManager_proofs!CacheIsFresh` and `VisitsInOrder`. Between two pops, every version at
  most as many protocols away as the head of the queue has been visited (`Near`), and every
  queued path is a shortest one without a loop (`ShortTo`); the queue spans two levels, the
  nearer first. The step that needs all of it is the end of the inner loop, where the level
  may rise by one: a version one protocol further away has a last protocol, and what is
  before it is a version of the level below (`ChainWithoutLast`), which is queued no longer,
  so its protocols were followed. An edge into the goal then closes a chain that no shorter
  one undercuts. `LoopFree` bounds its length by the number of versions, an injection.
* `ChainResolution_proofs!ManagerResolvesChains`: `ResolvesChains` for every graph. It adds that
  no key occurs twice in the dictionary, without which a replaced protocol would linger, and
  that a survey has collected exactly the clients it has passed that have a path, and its
  search is for the next of them. `NoneAlone` is what lets the survey test for `None`.
* `Pipeline_proofs!TypeCorrect`, `ClientIsKnown` and `GateIsSafe`, for every reuse of
  addresses. `GateHolds` needs `KnowsClient` (the gate looks at the connection, the property
  at the client), which needs that every list of a connection starts with the base protocol
  (`ConnectionsOK`), and what a loop under way has done so far (`LoopOK`): at its first
  position it carries the client's version, and from the second on, if the packet is a
  `RequestNetworkSettings`, the connection has it. So when the loop lets that packet
  through, the connection holds the version of the client.
* `Pipeline_proofs!NeverHalfTranslated`: `AllOrNothing`, an action property, for every table of
  handlers and every reuse of addresses. The part of the invariant that it needs is
  `Running`: the list is that of the connection, the trail is made of exactly the protocols
  before the position that know the packet, and none of them drops it (`RunSoFar`). `StopRanSoFar`,
  `FinishRanAll` and `LeftAloneRanAll` are the three ways in which a packet ends. That the
  list of a connection does not change while a loop goes over it, although the base protocol
  changes the connection, is `DetectKeeps`.
* `Pipeline_proofs!ListsStayRight` and `InitialisedOnce`, for `~MixedReuse`. The invariant
  adds that a connection belongs to a session that was opened and holds either no version or
  that session's: so writing the detected version either changes nothing or finds the lists
  still empty. `stale_pipeline` shows that the condition is necessary.
* `Translator_proofs!PipelineTranslates`: `Translates`, that the pipeline implements
  `Translator`, for `~MixedReuse`, any number of addresses and any tables. The start of a loop
  and each of its turns but the last are stutters of the translator; `Stop` and `Finish`, where the
  packet is dropped or goes on, are its `Receive` or `Send` (`EndsMaps`). The invariant adds
  `HasLists`: a client that has logged in has its lists, for `Login` resolves them; and
  `LoopMaps`: the list of a loop under way is the resolved one and the version it carries is
  the one the server will see. The heart is `LoopAfterBase`: the outcomes of a list that the
  base protocol heads either end at its head, which only a packet of the handshake can do,
  or are the outcomes of the chain, all positions shifted by one; `StopIsOutcome` and
  `FinishIsOutcome` say that a loop ends in one of them. A packet that comes before the
  lists goes through the base protocol alone in the pipeline and through the whole chain in
  the translator, which by `HandshakeAssumption` has nothing to do for it. That a later one goes
  through the chain of the right client is `KnowsClient` together with the invariant on the
  lists.
* `ProtocolManager_proofs!AnswersStayTheSame`: `AnswersStay`, an action property. A step that is
  not a registration changes nothing in the cache, and an answer that is given is the one
  that is in the cache then. The invariant adds that a search is only made for a
  question without a cached answer.
* `ChainResolution_proofs!ContractIsMet`: for every set of protocols and every two versions
  `Paths` is not empty. If no chain leads from one to the other, the versions that can be
  reached from the first are a closed set without the second, as `Unreachable` asks; if one
  does, there is a shortest, for `<` is well-founded on the naturals, and it has no loop,
  for a loop can be cut (`LoopsAreCut`).
* `Remapping_proofs`: `SoundsKeepTheirMeaning`, `ActorDataIsKept`, `EventsArrive`,
  `InstrumentsAreKept` and `TypeCorrect`, for every ladder of versions and every set of
  protocols, from `StepsAssumption` and `NumberingAssumption` (types), `GrowthAssumption`
  (versions only add) and `TablesAssumption` (a table inserts exactly what the newer of its
  two versions has in addition). The heart is `TableKeepsSound`: one table, applied to a
  number that is right at its server's version given the oldest version passed, makes one
  that is right at its client's. Each property is inductive together with `IInv`, which ties
  the packet to its history. `DownUndoesUp`, `UpMakesRoom` and `CapCollapses` are about the
  shifts by themselves.

* `VarInts_proofs`: `SameToAll` (`ReadAlike`), `WrittenFits` (`NoneTooLong`) and `TypeCorrect`, for
  every base, width and limit that fit each other, so for both widths of the code. The
  invariant says of a number that is under way that what the reader has, plus what the
  writer has left times the power of the next digit, is the code of the number that the
  first protocol read (`MoveDigit` is the step), and that what is left fits into the bytes
  that are left: hence no reader is ever full before the writer is done. `ReadAlike` then
  needs that writing and reading a number as one kind, and then as another, keeps its bits
  up to the width.

* `Nbt_proofs`: `TagIsKept` (`TagKept`), `NoLaterFailure` (`NoneRefused`) and `TypeCorrect`, for
  every limit on the nesting, every set of tokens and every set of tags of the game. A tag
  is data of any depth, and what holds of it would be shown by induction over it, which
  the prover cannot do. The invariant goes round that: it names, for each depth, a set of the
  tags that were read so far (`SomeReader`), in which whatever is inside a tag belongs to
  the next depth; a value that is complete joins the set of its depth, and at the depth
  below the limit the set stays empty. While a protocol writes, the reader's frames are
  compared with the writer's path level by level (`SomePair`, with `Alike`, `Level` and `Ready`):
  same type, what was read is what was written, what is expected is what is left. That no
  name is given twice in what a protocol writes makes `Put` an `Append` (`PutAppends`); that a
  list of nothing keeps the type of its elements is in `Content`.

* `Journeys_proofs`: `TypeCorrect`, `DroppedOnlyRightly` (`DroppedRightly`), `JourneyIsDelivery`
  (`Delivers`) and `DataIsKept` (`DataKept`), for every set of routes over registered protocols,
  whatever payloads are sent, and of any size. A handler is a program with nested and repeated steps,
  of which nothing can be shown by induction here. The invariant (`IInv`) does without:
  whatever the wrapper has still to do is a step of one of the *parts* of the handler it was
  made for (`PartOf`), or one that the wrapper put in itself to come back to. The parts are
  the bodies of the program's steps, and theirs, six levels deep; that no handler nests
  deeper, and has only steps that the wrapper knows, is the first half of
  `HandlersAssumption`. So each step of a wrapper preserves it (`StepFollows`, with one case for
  each kind of step in `NestingFollows` and `PlainFollows`), and a wrapper is cancelled only by a
  step of its own handler that says so. The second half of `HandlersAssumption` says of the
  tables that such a handler is registered only where the packet may be dropped. Both halves
  are facts about the tables of the ten protocols that TLC evaluates, not choices.
  `JourneyIsDelivery` then maps `Enter` and `Work` to stutters, `PassBy` and `Forward` to
  `Cross`, and `Drop` to `Drop` or `Fail`. `DataIsKept` is a composition: under `HandlersKeep`, which speaks of one protocol and the
  two versions it joins, what all versions on the way have arrives. It needs that the
  versions passed are those before and the next one (`OneStepOn`), and that more versions
  have fewer fields in common (`FewerKeepMore`). `HandlersKeep` is a hypothesis of the theorem;
  that the handlers meet it is what the run checks.

Only model-checked: `CallsReturn`, `Arrives` and `ReadersStop`, which are liveness; and, of
`Journeys`, `Understood`, `HandlersKeep` and `NetIdsDistinct`. Those three say what single handlers
compute from single layouts, for every payload: about a hundred programs, each with an
induction over the lists of its packet. Checking every packet on every way is not a sample
of the handlers but all of them, up to the sizes of a payload.

## 5. Findings

* **The base protocol is skipped for clients without a chain** (`base_skipped`).
  `pipeline.py:241` says "Base protocols are always included.", and they are in
  `protocol_pipeline`; `clientbound_pipeline` is only filled when there is a chain
  (`pipeline.py:286`), so for a client of the server's version and for one without a chain
  `on_packet_send` loops over nothing, and a `PacketViolationWarning` is not logged.
* **A reused address can carry the previous client's lists** (`stale_pipeline`). A session
  lost before the login leaves its connection, version included. If the next client at that
  address has another version, its `RequestNetworkSettings` resolves and caches the lists
  for the *old* version before the detection stores the new one. `mixed_reuse` and
  `GateIsSafe` show that the login gate is not affected, `NeverHalfTranslated` that even then a
  packet is run through the whole of the list that the connection has, or dropped.
  Connections of lost sessions stay in general: only a `PlayerQuitEvent` removes an entry, and
  `remove_by_address`, which could, has no caller.
* **Camera aim assist presets of a v860 server are misread** (`aim_assist`).
  `v860_to_v898/handlers/camera_aim_assist.py:18-39` reads the categories as a list of named
  lists of categories; its counterpart in `v898_to_v860` writes, and `v898_to_v924` reads, one
  list of categories.
* **Biome definitions reach a v1001 client unchanged** (`biome_definitions`).
  `v975_to_v1001/protocol.py:27-31` describes a clientbound handler that relocates the chunk
  generation; `create_protocol` registers none, and there is none.
* **The gathering data of v924's join information is not expected by one of its two
  handlers** (`join_info`). `v924_to_v944/handlers/start_game.py:68` says what v924 has, and
  reads it; `v924_to_v898/handlers/start_game.py:60-62` reads its first Boolean only. A server
  without gathering data is not affected (`journeys`).

`stale_pipeline` depends on `Sessions`: that a session can end before there is a player, without
a `PlayerQuitEvent`. No test of the repository covers such a session.

The last three depend on `Layouts`, and so on the other handlers of the repository being
right about the packet.

Noticed while reading, not shown by a run:

* `v944_to_v975/handlers/level_sound_event.py` appends a field for clients; no serverbound
  handler strips it from the sound of a v975 client, which a v944 server would read with
  it. Neither are serverbound sounds remapped for the servers before v975.
* `v860_to_v898/handlers/animate.py` takes the rowing time out in one direction; in the other
  (39-44) it is left in the packet.
* The clientbound inventory transaction gets a handler with v975 only: the changed height of
  an item use does not reach it between v924 and v944, while the serverbound one has it.
* `v944_to_v924/handlers/start_game.py` reads three Booleans of the join information and not
  what they announce; the handlers of this repository write them as false.
* The last paragraph of the comment of `v975_to_v1001/protocol.py` (38-39) says `BossEvent` is
  not handled, and it is, in both directions. Colour 6 of a v1001 boss bar and white become
  the same colour at v975.
* A network id or item data beyond 16 bits makes the handlers of recipes and items raise, and
  the packet is dropped.
* Going down to v924, a trumpet keeps its number and plays as a mob head
  (`v944_to_v924/handlers/block_pos.py:84`); `InstrumentKept` makes this exception.
* A sound that v1001 has no name for comes back from a v1001 client as sound 0.
* `read_uvarint64` is said to read "up to 64 bits" and accepts 70, `read_uvarint` 35: the first
  protocol that reads such a number sees more than the ones after it. `ReadAlike` says how.
* The version that the server list advertises is the largest supported one, whether or not it
  is gated (`plugin.py:89`, `plugin.py:116`).

## 6. What is not modelled

* Text: recipe ids, labels, messages and names are data. A handler that composes one makes up
  a value.
* The bytes inside a string, a float or a number of a fixed width, and their limits; a
  value that does not fit its field raises only where a handler is about that.
* Packets that no protocol handles or drops: they pass unread.
* The values of the enumerations, but for the ones that a handler or a layout tells apart and
  the numberings of sounds, events and instruments.
* Serverbound sound events in `Remapping`.
* The configuration in `on_enable`; the advertised version and `on_server_list_ping`.
* The typed storage of a connection: no registered protocol uses it.
* `register_base` as an operation: it is called once, before any packet.
* Packet events outside a session (before `RequestNetworkSettings`, after the quit).
* The update checker: one request sets one message that joining players are shown, whichever
  comes first. Dump files, messages, log filters, metrics: nothing reads them back.

## 7. Plan

1. **Done:** registry with its refinement and proofs; pipeline with its refinement and
   proofs; tables of the registered protocols.
2. **Done:** `IdShifts` and `Remapping`, with the real tables and their theorems.
3. **Done:** the contents of packets: wrapper, field types, every handler, layouts, journeys.
4. **Done:** the codec below fields: `VarInts` and `Nbt`, both with their theorems.
5. **Done:** the answers of the manager, and of a survey, as theorems; that they stay; that
   the contract of `get_path` can be met.
6. **Done:** the refinement of the pipeline as a theorem.
7. **Done:** the wrapper without recursion, `Delivery`, and the theorems of `Journeys`.
8. Left: the gate as an abstract specification of its own; the composition of
   `ProtocolManager` with `Pipeline` in one specification, which is by the contract of
   `get_path` so far; a layout for each of the handlers' own steps, with which `HandlersKeep` and
   `Understood` could be proved handler by handler.
