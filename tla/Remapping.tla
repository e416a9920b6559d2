----------------------------- MODULE Remapping -----------------------------
(***************************************************************************)
(* The numbers that change between versions, on their way from a server to *)
(* a client (rewriter/sound.py, rewriter/actor_event.py and the handlers   *)
(* of LEVEL_SOUND_EVENT and TILE_EVENT): sounds, the sound kept in the     *)
(* data of an actor, actor events and the instruments of note blocks.      *)
(*                                                                         *)
(* Each protocol on the way rewrites the number with its own table, not    *)
(* knowing which protocols come before and after it.  A packet may take    *)
(* any way along the protocols, so also the ways that get_path chooses.    *)
(***************************************************************************)
EXTENDS IdShifts

CONSTANTS
    Versions,       \* protocol numbers
    Steps,          \* the registered protocols with their tables
    Named,          \* the sounds that have a name (SOUND_EVENT_NAMES)
    Keys,           \* keys of actor data
    HEARTBEAT,      \* the key whose value is a sound (actor_data_sound_key)
    Items,          \* the items of actor data that servers send, each a value with its type
    \* The numberings of the game's versions (codec/types/enums.py):
    Undefined,      \* Undefined[v]: the number of sounds of v, and v's id for "no sound"
    EventCount,     \* EventCount[v]: the number of actor events of v
    KnownKeys,      \* KnownKeys[v]: the actor data of v
    Instruments,    \* Instruments[v]: the number of instruments of v
    Trumpets,       \* the instruments inserted amid the others
    HasTrumpets,    \* the versions that have them
    Spelled         \* the versions that name a sound instead of numbering it

VARIABLES
    packet,     \* the packet as it is now, or Nothing
    at,         \* the version it has reached
    sent,       \* history: the packet as the server sent it
    origin,     \* history: the server's version
    oldest      \* history: the oldest version that it has passed

vars == <<packet, at, sent, origin, oldest>>

\* A sound without a name: the default of SOUND_EVENT_NAMES.get.
Nameless == -1

\* Of the types that a value of actor data may have, those of a sound (DataItemType).
INT == 2
INT64 == 7
DataItemTypes == 0 .. 8
DataItems == [type_id : DataItemTypes, value : Nat]

Remaps == {"none", "shift_up", "shift_down", "cap"}
Upgrades == {"none", "up", "down"}

StepType ==
    [server_protocol : Versions, client_protocol : Versions,
     sound : IdShift, sound_remap : Remaps, dropped : SUBSET Keys,
     actor_event : IdShift, events : Upgrades,
     note_instrument : IdShift, notes : Upgrades,
     names : BOOLEAN]

ASSUME StepsAssumption == Steps \subseteq StepType

ASSUME NumberingAssumption ==
    /\ Versions \subseteq Nat
    /\ Named \subseteq Nat
    /\ HEARTBEAT \in Keys
    /\ Items \subseteq DataItems
    /\ Undefined \in [Versions -> Nat]
    /\ EventCount \in [Versions -> 0 .. 256]
    /\ KnownKeys \in [Versions -> SUBSET Keys]
    /\ Instruments \in [Versions -> Nat]
    /\ Trumpets \in IdShift
    /\ HasTrumpets \subseteq Versions
    /\ Spelled \subseteq Versions

\* The game only ever adds sounds, events, actor data and instruments.
ASSUME GrowthAssumption ==
    \A v, w \in Versions : v <= w =>
        /\ Undefined[v] <= Undefined[w]
        /\ EventCount[v] <= EventCount[w]
        /\ KnownKeys[v] \subseteq KnownKeys[w]
        /\ v \in HasTrumpets => w \in HasTrumpets

(***************************************************************************)
(* The sounds: each table inserts what the newer of its two versions has   *)
(* in addition; a protocol without one joins versions of the same sounds.  *)
(***************************************************************************)
SoundsFit(p) ==
    LET old == Undefined[p.server_protocol]
        new == Undefined[p.client_protocol]
        first == p.sound.insert_at
        rest == first + p.sound.count
    IN  /\ p.sound_remap = "shift_up" => first = old /\ rest = new
        /\ p.sound_remap = "shift_down" => first = new /\ rest = old
        /\ p.sound_remap = "cap" => first = new /\ new <= old
        /\ p.sound_remap = "none" => old = new

\* The same of the actor events.
EventsFit(p) ==
    LET old == EventCount[p.server_protocol]
        new == EventCount[p.client_protocol]
        first == p.actor_event.insert_at
        rest == first + p.actor_event.count
    IN  /\ p.events = "up" => first = old /\ rest = new
        /\ p.events = "down" => first = new /\ rest = old
        /\ p.events = "none" => old = new

\* A protocol to an older version drops the actor data that it does not have.
KeysFit(p) ==
    /\ HEARTBEAT \notin p.dropped
    /\ KnownKeys[p.client_protocol] \cap p.dropped = {}
    /\ KnownKeys[p.server_protocol] \ p.dropped \subseteq KnownKeys[p.client_protocol]

\* The trumpets are inserted and taken away where a version has them and the next has not.
NotesFit(p) ==
    LET old == p.server_protocol \in HasTrumpets
        new == p.client_protocol \in HasTrumpets
    IN  /\ p.notes = "up" => ~old /\ new
        /\ p.notes = "down" => old /\ ~new
        /\ p.notes = "none" => old = new
        /\ p.notes # "none" => p.note_instrument = Trumpets

\* A version that names the sounds is reached by the one protocol that names them, and left by none.
NamesFit(p) ==
    /\ p.server_protocol \notin Spelled
    /\ p.names <=> p.client_protocol \in Spelled
    /\ p.names => p.sound_remap = "none" /\ Undefined[p.client_protocol] \notin Named

ASSUME TablesAssumption ==
    \A p \in Steps : SoundsFit(p) /\ EventsFit(p) /\ KeysFit(p) /\ NotesFit(p) /\ NamesFit(p)

(***************************************************************************)
(* A packet: a sound or an actor event is its number; a block event is     *)
(* that of a note block, its number an instrument, or another's; actor     *)
(* data is a function of its keys.  A sound may be spelled: its name is    *)
(* represented by the number that the table of names has for it.           *)
(***************************************************************************)
LevelSoundEvents == [kind : {"LEVEL_SOUND_EVENT"}, number : Nat \cup {Nameless}, spelled : BOOLEAN]
ActorEvents == [kind : {"ACTOR_EVENT"}, number : 0 .. 255]
TileEvents == [kind : {"TILE_EVENT"}, note : BOOLEAN, number : Nat]
IsActorData(m) ==
    /\ m = [kind |-> "SET_ACTOR_DATA", data |-> m.data]
    /\ m.data \in [DOMAIN m.data -> DataItems]
    /\ DOMAIN m.data \subseteq Keys

Nothing == [kind |-> "NOTHING"]

IsPacket(m) ==
    \/ m = Nothing
    \/ m \in LevelSoundEvents
    \/ m \in ActorEvents
    \/ m \in TileEvents
    \/ m.kind = "SET_ACTOR_DATA" /\ IsActorData(m)

\* The actor data whose value is the number of a sound.
IsSound(k, item) == k = HEARTBEAT /\ item.type_id \in {INT, INT64}

Sounds(v) == {n \in Named : n < Undefined[v]} \cup {Undefined[v]}

\* What a server of version v sends.
Sendable(v) ==
    [kind : {"LEVEL_SOUND_EVENT"}, number : Sounds(v), spelled : {FALSE}]
    \cup [kind : {"ACTOR_EVENT"}, number : 0 .. EventCount[v] - 1]
    \cup [kind : {"TILE_EVENT"}, note : BOOLEAN, number : 0 .. Instruments[v] - 1]
    \cup [kind : {"SET_ACTOR_DATA"},
          data : {d \in UNION {[K -> Items] : K \in SUBSET KnownKeys[v]} :
                     \A k \in DOMAIN d : IsSound(k, d[k]) => d[k].value \in Sounds(v)}]

\* A chain starts at a version that some protocol has as its server.
Servers == {p.server_protocol : p \in Steps}

Init ==
    /\ packet = Nothing
    /\ sent = Nothing
    /\ at \in Servers
    /\ origin = at
    /\ oldest = at

(***************************************************************************)
(* The rewriters.                                                          *)
(***************************************************************************)
remap_sound(p, v) ==
    IF p.sound_remap = "shift_up" THEN shift_up(p.sound, v)
    ELSE IF p.sound_remap = "shift_down" THEN shift_down(p.sound, v)
    ELSE IF p.sound_remap = "cap" THEN cap(p.sound, v)
    ELSE v

\* SOUND_EVENT_NAMES.get.
NameOf(v) == IF v \in Named THEN v ELSE Nameless

rewrite_level_sound_event(p, m) ==
    IF p.names THEN [m EXCEPT !.number = NameOf(m.number), !.spelled = TRUE]
    ELSE [m EXCEPT !.number = remap_sound(p, m.number)]

Remapped(p, item) == [item EXCEPT !.value = remap_sound(p, item.value)]

\* Faulty variant: every value is taken for a sound.
remap_actor_data_AllKeys(p, m) ==
    [m EXCEPT !.data = [k \in DOMAIN m.data \ p.dropped |-> Remapped(p, m.data[k])]]

remap_actor_data(p, m) ==
    [m EXCEPT !.data = [k \in DOMAIN m.data \ p.dropped |->
                           IF IsSound(k, m.data[k]) THEN Remapped(p, m.data[k]) ELSE m.data[k]]]

\* Faulty variant: the events that the older version does not have collapse, as the sounds do.
rewrite_actor_event_Collapsing(p, m) ==
    IF p.events = "none" THEN m
    ELSE IF p.events = "up" THEN [m EXCEPT !.number = shift_up(p.actor_event, m.number) % 256]
    ELSE [m EXCEPT !.number = shift_down(p.actor_event, m.number) % 256]

\* An event that the older version does not have is dropped; the number is a byte.
rewrite_actor_event(p, m) ==
    LET first == p.actor_event.insert_at
    IN  IF p.events = "none" THEN m
        ELSE IF p.events = "up" THEN [m EXCEPT !.number = shift_up(p.actor_event, m.number) % 256]
        ELSE IF m.number \in first .. first + p.actor_event.count - 1 THEN Nothing
        ELSE [m EXCEPT !.number = shift_down(p.actor_event, m.number) % 256]

\* Faulty variant: the first instrument to be moved is not.
rewrite_tile_event_OffByOne(p, m) ==
    LET first == p.note_instrument.insert_at
        count == p.note_instrument.count
    IN  IF m.note /\ p.notes = "up" /\ m.number > first THEN [m EXCEPT !.number = m.number + count]
        ELSE IF m.note /\ p.notes = "down" /\ m.number > first + count THEN [m EXCEPT !.number = m.number - count]
        ELSE m

\* Going down, the inserted instruments are left as they are.
rewrite_tile_event(p, m) ==
    LET first == p.note_instrument.insert_at
        count == p.note_instrument.count
    IN  IF m.note /\ p.notes = "up" /\ m.number >= first THEN [m EXCEPT !.number = m.number + count]
        ELSE IF m.note /\ p.notes = "down" /\ m.number >= first + count THEN [m EXCEPT !.number = m.number - count]
        ELSE m

Rewrite(p, m) ==
    IF m.kind = "LEVEL_SOUND_EVENT" THEN rewrite_level_sound_event(p, m)
    ELSE IF m.kind = "SET_ACTOR_DATA" THEN remap_actor_data(p, m)
    ELSE IF m.kind = "ACTOR_EVENT" THEN rewrite_actor_event(p, m)
    ELSE rewrite_tile_event(p, m)

\* The server at the start of a chain sends a packet.
Send ==
    /\ sent = Nothing
    /\ packet' \in Sendable(at)
    /\ sent' = packet'
    /\ UNCHANGED <<at, origin, oldest>>

\* One protocol of the chain, the client side of which is the next version reached.
Translate(p) ==
    /\ packet # Nothing
    /\ p.server_protocol = at
    /\ at' = p.client_protocol
    /\ packet' = Rewrite(p, packet)
    /\ oldest' = IF p.client_protocol < oldest THEN p.client_protocol ELSE oldest
    /\ UNCHANGED <<sent, origin>>

\* The packet has reached its client, or was dropped; another server sends the next one.
Done ==
    /\ sent # Nothing
    /\ packet' = Nothing
    /\ sent' = Nothing
    /\ at' \in Servers
    /\ origin' = at'
    /\ oldest' = at'

Next == Send \/ Done \/ \E p \in Steps : Translate(p)

Spec == Init /\ [][Next]_vars

(***************************************************************************)
(* Properties.                                                             *)
(***************************************************************************)
\* Packets, versions and the history have their types.
TypeOK ==
    /\ IsPacket(packet)
    /\ IsPacket(sent)
    /\ at \in Versions
    /\ origin \in Versions
    /\ oldest \in Versions

\* Every version that the packet has passed has sound n.
Lasting(n) == n < Undefined[oldest]

(***************************************************************************)
(* On every way through the protocols, whatever their order, a sound that  *)
(* all versions on the way have stays the same sound, and any other is "no *)
(* sound" of the version reached: never another sound, and never an id     *)
(* that the version does not have (SoundRewriter.rewrite_level_sound_event *)
(* with the tables of protocol/mappings, and the table of names).          *)
(***************************************************************************)
SoundKeepsMeaning ==
    packet.kind = "LEVEL_SOUND_EVENT" =>
        /\ packet.spelled <=> at \in Spelled
        /\ packet.number = IF Lasting(sent.number) THEN sent.number
                           ELSE IF packet.spelled THEN Nameless
                           ELSE Undefined[at]

(***************************************************************************)
(* Actor data loses exactly the keys that some version on the way does not *)
(* have; a sound in it keeps its meaning as a sound event does, and no     *)
(* other value, nor the same key with a value of another type, is touched  *)
(* (SoundRewriter._remap_actor_data).                                      *)
(***************************************************************************)
ActorDataKept ==
    packet.kind = "SET_ACTOR_DATA" =>
        /\ DOMAIN packet.data = DOMAIN sent.data \cap KnownKeys[oldest]
        /\ \A k \in DOMAIN packet.data :
               packet.data[k] = IF ~IsSound(k, sent.data[k]) \/ Lasting(sent.data[k].value) THEN sent.data[k]
                                ELSE [sent.data[k] EXCEPT !.value = Undefined[at]]

(***************************************************************************)
(* An actor event arrives as the event that was sent, or not at all, and   *)
(* the latter only if some version on the way does not have it             *)
(* (ActorEventRewriter).                                                   *)
(***************************************************************************)
EventArrives ==
    sent.kind = "ACTOR_EVENT" =>
        \/ packet.kind = "ACTOR_EVENT" /\ packet.number = sent.number /\ sent.number < EventCount[at]
        \/ packet = Nothing /\ sent.number >= EventCount[oldest]

\* An instrument's number in the numbering with the trumpets.
Instrument(v, n) == IF v \in HasTrumpets THEN n ELSE shift_up(Trumpets, n)

Inserted == Trumpets.insert_at .. Trumpets.insert_at + Trumpets.count - 1

(***************************************************************************)
(* A note block plays on the instrument that was sent, unless that was a   *)
(* trumpet and a version on the way has none; and the value of any other   *)
(* block's event is not taken for an instrument (rewrite_tile_event).      *)
(***************************************************************************)
InstrumentKept ==
    packet.kind = "TILE_EVENT" =>
        IF packet.note
        THEN \/ Instrument(origin, sent.number) \in Inserted /\ oldest \notin HasTrumpets
             \/ Instrument(at, packet.number) = Instrument(origin, sent.number)
        ELSE packet.number = sent.number
=============================================================================
