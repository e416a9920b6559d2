-------------------------- MODULE Remapping_proofs -------------------------
(***************************************************************************)
(* The numbers on their way, for every ladder of versions and every set of *)
(* protocols whose tables fit it (TablesAssumption): however many of them  *)
(* a packet passes, in whatever order, each rewriting the number without   *)
(* knowing the others.                                                     *)
(***************************************************************************)
EXTENDS Remapping, TLAPS

(***************************************************************************)
(* What the tables do by themselves (protocol/mapping_data.py).            *)
(***************************************************************************)

\* An id that went up comes down as itself, whatever was inserted.
THEOREM DownUndoesUp ==
    ASSUME NEW shift \in IdShift, NEW v \in Int
    PROVE  shift_down(shift, shift_up(shift, v)) = v
BY DEF IdShift, shift_up, shift_down

\* Going up, no id lands in the inserted range, and ids stay in order.
THEOREM UpMakesRoom ==
    ASSUME NEW shift \in IdShift, NEW v \in Int, NEW w \in Int, v < w
    PROVE  /\ shift_up(shift, v) < shift_up(shift, w)
           /\ shift_up(shift, v) \notin shift.insert_at .. shift.insert_at + shift.count - 1
BY DEF IdShift, shift_up

(***************************************************************************)
(* The lossy downgrade and the collapsing one differ only in ids beyond    *)
(* the inserted range.                                                     *)
(***************************************************************************)
THEOREM CapCollapses ==
    ASSUME NEW shift \in IdShift, NEW v \in Int, v <= shift.insert_at + shift.count
    PROVE  cap(shift, v) = shift_down(shift, v)
BY DEF IdShift, cap, shift_down

-----------------------------------------------------------------------------
(***************************************************************************)
(* The invariant: what the packet is, and what is left of where it came    *)
(* from.  SoundKeepsMeaning and the others are each inductive with it.     *)
(***************************************************************************)
History ==
    /\ sent = Nothing => packet = Nothing
    /\ packet # Nothing => packet.kind = sent.kind
    /\ oldest <= at
    /\ oldest <= origin
    /\ sent = Nothing => origin = at /\ oldest = at /\ at \notin Spelled

SoundsSent ==
    /\ sent.kind = "LEVEL_SOUND_EVENT" => sent.number \in Nat /\ (Lasting(sent.number) => sent.number \in Named)
    /\ packet.kind = "LEVEL_SOUND_EVENT" => (packet.spelled <=> at \in Spelled)
    /\ packet.kind = "LEVEL_SOUND_EVENT" /\ at \notin Spelled => packet.number \in Nat

IInv == TypeOK /\ History /\ SoundsSent

\* What there is to know of a protocol on the way.
LEMMA StepFacts ==
    ASSUME NEW p \in Steps
    PROVE  /\ p \in StepType
           /\ p.server_protocol \in Versions /\ p.client_protocol \in Versions
           /\ p.sound \in IdShift /\ p.actor_event \in IdShift /\ p.note_instrument \in IdShift
           /\ p.sound_remap \in Remaps /\ p.events \in Upgrades /\ p.notes \in Upgrades
           /\ SoundsFit(p) /\ EventsFit(p) /\ KeysFit(p) /\ NotesFit(p) /\ NamesFit(p)
BY StepsAssumption, TablesAssumption DEF StepType

\* The oldest version passed, after one more.
Older(v, o) == IF v < o THEN v ELSE o

LEMMA OlderFacts ==
    ASSUME NEW v \in Versions, NEW o \in Versions
    PROVE  Older(v, o) \in Versions /\ Older(v, o) <= v /\ Older(v, o) <= o /\ Older(v, o) \in {v, o}
BY NumberingAssumption DEF Older

(***************************************************************************)
(* One table, applied to a sound that is as it should be at the server's   *)
(* version, leaves it as it should be at the client's: itself if every     *)
(* version so far has it, and "no sound" otherwise.                        *)
(***************************************************************************)
LEMMA TableKeepsSound ==
    ASSUME NEW p \in Steps, NEW o \in Versions, o <= p.server_protocol, NEW n \in Nat, NEW v,
           v = IF n < Undefined[o] THEN n ELSE Undefined[p.server_protocol]
    PROVE  remap_sound(p, v) = IF n < Undefined[Older(p.client_protocol, o)] THEN n ELSE Undefined[p.client_protocol]
<1> DEFINE old == Undefined[p.server_protocol]
           new == Undefined[p.client_protocol]
           low == Undefined[Older(p.client_protocol, o)]
<1>1. /\ p.server_protocol \in Versions /\ p.client_protocol \in Versions
      /\ p.sound \in IdShift /\ p.sound_remap \in Remaps /\ SoundsFit(p)
  BY StepFacts
<1>2. old \in Nat /\ new \in Nat /\ low \in Nat /\ Undefined[o] \in Nat
  BY <1>1, OlderFacts, NumberingAssumption
<1>3. low <= new /\ low <= Undefined[o] /\ low \in {new, Undefined[o]}
  BY <1>1, OlderFacts, GrowthAssumption
<1>4. Undefined[o] <= old
  BY <1>1, GrowthAssumption
<1>5. v \in Nat
  BY <1>2
<1> DEFINE first == p.sound.insert_at
           count == p.sound.count
<1>6. first \in Nat /\ count \in Nat
  BY <1>1 DEF IdShift
<1> HIDE DEF old, new, low, first, count
<1>7. v = IF n < Undefined[o] THEN n ELSE old
  BY DEF old
<1>8. CASE p.sound_remap = "shift_up"
  <2>1. first = old /\ first + count = new
    BY <1>1, <1>8 DEF SoundsFit, first, count, old, new
  <2>2. remap_sound(p, v) = IF v >= first THEN v + count ELSE v
    BY <1>8 DEF remap_sound, shift_up, first, count
  <2> QED
    BY <2>1, <2>2, <1>2, <1>3, <1>4, <1>5, <1>6, <1>7 DEF new, low
<1>9. CASE p.sound_remap = "shift_down"
  <2>1. first = new /\ first + count = old
    BY <1>1, <1>9 DEF SoundsFit, first, count, old, new
  <2>2. remap_sound(p, v) = IF v >= first + count THEN v - count ELSE IF v >= first THEN first ELSE v
    BY <1>9 DEF remap_sound, shift_down, first, count
  <2> QED
    BY <2>1, <2>2, <1>2, <1>3, <1>4, <1>5, <1>6, <1>7 DEF new, low
<1>10. CASE p.sound_remap = "cap"
  <2>1. first = new /\ new <= old
    BY <1>1, <1>10 DEF SoundsFit, first, old, new
  <2>2. remap_sound(p, v) = IF v >= first THEN first ELSE v
    BY <1>10 DEF remap_sound, cap, first
  <2> QED
    BY <2>1, <2>2, <1>2, <1>3, <1>4, <1>5, <1>6, <1>7 DEF new, low
<1>11. CASE p.sound_remap = "none"
  <2>1. old = new
    BY <1>1, <1>11 DEF SoundsFit, old, new
  <2>2. remap_sound(p, v) = v
    BY <1>11 DEF remap_sound
  <2> QED
    BY <2>1, <2>2, <1>2, <1>3, <1>4, <1>5, <1>7 DEF new, low
<1> QED
  BY <1>1, <1>8, <1>9, <1>10, <1>11 DEF Remaps

\* A table makes a number of a number.
LEMMA TableType ==
    ASSUME NEW p \in Steps, NEW v \in Nat
    PROVE  remap_sound(p, v) \in Nat
BY StepFacts DEF remap_sound, shift_up, shift_down, cap, IdShift, Remaps

-----------------------------------------------------------------------------
(***************************************************************************)
(* Types and history.                                                      *)
(***************************************************************************)

\* A packet's kind tells what it is.
LEMMA KindTells ==
    ASSUME NEW m, IsPacket(m)
    PROVE  /\ m.kind = "LEVEL_SOUND_EVENT" => m \in LevelSoundEvents
           /\ m.kind = "ACTOR_EVENT" => m \in ActorEvents
           /\ m.kind = "TILE_EVENT" => m \in TileEvents
           /\ m.kind = "SET_ACTOR_DATA" => IsActorData(m)
           /\ m # Nothing => m.kind \in {"LEVEL_SOUND_EVENT", "ACTOR_EVENT", "TILE_EVENT", "SET_ACTOR_DATA"}
           /\ m.kind = "NOTHING" => m = Nothing
BY DEF IsPacket, Nothing, LevelSoundEvents, ActorEvents, TileEvents, IsActorData

\* The rewriters make a packet of the same kind, or drop it.
LEMMA RewriteType ==
    ASSUME NEW p \in Steps, NEW m, IsPacket(m), m # Nothing,
           m.kind = "LEVEL_SOUND_EVENT" => m.number \in Nat
    PROVE  IsPacket(Rewrite(p, m)) /\ (Rewrite(p, m) # Nothing => Rewrite(p, m).kind = m.kind)
<1> USE KindTells
<1>1. CASE m.kind = "LEVEL_SOUND_EVENT"
  <2>1. m \in LevelSoundEvents /\ m.number \in Nat
    BY <1>1
  <2>2. NameOf(m.number) \in Nat \cup {Nameless} /\ remap_sound(p, m.number) \in Nat
    BY <2>1, TableType DEF NameOf
  <2>3. rewrite_level_sound_event(p, m) \in LevelSoundEvents
    BY <2>1, <2>2 DEF rewrite_level_sound_event, LevelSoundEvents
  <2> QED
    BY <1>1, <2>3 DEF Rewrite, IsPacket, LevelSoundEvents
<1>2. CASE m.kind = "SET_ACTOR_DATA"
  <2>1. IsActorData(m)
    BY <1>2
  <2> DEFINE data == [k \in DOMAIN m.data \ p.dropped |->
                         IF IsSound(k, m.data[k]) THEN Remapped(p, m.data[k]) ELSE m.data[k]]
  <2>2. data \in [DOMAIN m.data \ p.dropped -> DataItems]
    <3>1. \A k \in DOMAIN m.data : m.data[k] \in DataItems /\ Remapped(p, m.data[k]) \in DataItems
      BY <2>1, TableType DEF IsActorData, DataItems, Remapped
    <3> QED
      BY <3>1
  <2>3. remap_actor_data(p, m) = [kind |-> "SET_ACTOR_DATA", data |-> data]
    BY <2>1 DEF remap_actor_data, IsActorData
  <2>4. IsActorData([kind |-> "SET_ACTOR_DATA", data |-> data])
    BY <2>1, <2>2 DEF IsActorData
  <2> QED
    BY <1>2, <2>3, <2>4 DEF Rewrite, IsPacket
<1>3. CASE m.kind = "ACTOR_EVENT"
  <2>1. m \in ActorEvents /\ p.actor_event \in IdShift /\ p.events \in Upgrades
    BY <1>3, StepFacts
  <2>2. shift_up(p.actor_event, m.number) \in Int /\ shift_down(p.actor_event, m.number) \in Int
    BY <2>1 DEF ActorEvents, IdShift, shift_up, shift_down
  <2>3. rewrite_actor_event(p, m) \in ActorEvents \cup {Nothing}
    BY <2>1, <2>2 DEF rewrite_actor_event, ActorEvents
  <2> QED
    BY <1>3, <2>3 DEF Rewrite, IsPacket, ActorEvents
<1>4. CASE m.kind = "TILE_EVENT"
  <2>1. m \in TileEvents /\ p.note_instrument \in IdShift
    BY <1>4, StepFacts
  <2>2. rewrite_tile_event(p, m) \in TileEvents
    BY <2>1 DEF rewrite_tile_event, TileEvents, IdShift
  <2> QED
    BY <1>4, <2>2 DEF Rewrite, IsPacket, TileEvents
<1> QED
  BY <1>1, <1>2, <1>3, <1>4

\* A sound that a version has, other than "no sound", has a name.
LEMMA SoundsFacts ==
    ASSUME NEW v \in Versions, NEW n \in Sounds(v)
    PROVE  n \in Nat /\ (n < Undefined[v] => n \in Named)
<1>1. Undefined[v] \in Nat /\ Named \subseteq Nat
  BY NumberingAssumption
<1> QED
  BY <1>1 DEF Sounds

\* What a server sends is a packet, and not nothing.
LEMMA SendableType ==
    ASSUME NEW v \in Versions, NEW m \in Sendable(v)
    PROVE  /\ IsPacket(m) /\ m # Nothing
           /\ m.kind = "LEVEL_SOUND_EVENT" => m.number \in Sounds(v) /\ m.spelled = FALSE
           /\ m.kind = "ACTOR_EVENT" => m.number \in 0 .. EventCount[v] - 1
           /\ m.kind = "SET_ACTOR_DATA" =>
                 /\ DOMAIN m.data \subseteq KnownKeys[v]
                 /\ \A k \in DOMAIN m.data : IsSound(k, m.data[k]) => m.data[k].value \in Sounds(v)
<1>1. CASE m \in [kind : {"LEVEL_SOUND_EVENT"}, number : Sounds(v), spelled : {FALSE}]
  <2>1. m.kind = "LEVEL_SOUND_EVENT" /\ m.number \in Sounds(v) /\ m.spelled = FALSE
    BY <1>1
  <2>2. Sounds(v) \subseteq Nat
    BY SoundsFacts
  <2>3. m \in LevelSoundEvents
    BY <1>1, <2>2 DEF LevelSoundEvents
  <2> QED
    BY <2>1, <2>3 DEF IsPacket, Nothing
<1>2. CASE m \in [kind : {"ACTOR_EVENT"}, number : 0 .. EventCount[v] - 1]
  <2>1. m.kind = "ACTOR_EVENT" /\ m.number \in 0 .. EventCount[v] - 1
    BY <1>2
  <2>2. EventCount[v] \in 0 .. 256
    BY NumberingAssumption
  <2>3. m \in ActorEvents
    BY <1>2, <2>2 DEF ActorEvents
  <2> QED
    BY <2>1, <2>3 DEF IsPacket, Nothing
<1>3. CASE m \in [kind : {"TILE_EVENT"}, note : BOOLEAN, number : 0 .. Instruments[v] - 1]
  <2>1. m.kind = "TILE_EVENT"
    BY <1>3
  <2>2. m \in TileEvents
    BY <1>3, NumberingAssumption DEF TileEvents
  <2> QED
    BY <2>1, <2>2 DEF IsPacket, Nothing
<1>4. CASE m \in [kind : {"SET_ACTOR_DATA"},
                  data : {d \in UNION {[K -> Items] : K \in SUBSET KnownKeys[v]} :
                             \A k \in DOMAIN d : IsSound(k, d[k]) => d[k].value \in Sounds(v)}]
  <2>1. /\ m = [kind |-> "SET_ACTOR_DATA", data |-> m.data]
        /\ m.data \in UNION {[K -> Items] : K \in SUBSET KnownKeys[v]}
        /\ \A k \in DOMAIN m.data : IsSound(k, m.data[k]) => m.data[k].value \in Sounds(v)
    BY <1>4
  <2>2. PICK K \in SUBSET KnownKeys[v] : m.data \in [K -> Items]
    BY <2>1
  <2>3. K \subseteq Keys /\ Items \subseteq DataItems /\ DOMAIN m.data = K
    BY <2>2, NumberingAssumption
  <2>4. IsActorData(m)
    BY <2>1, <2>2, <2>3 DEF IsActorData
  <2>5. m.kind = "SET_ACTOR_DATA"
    BY <2>1
  <2> QED
    BY <2>1, <2>3, <2>4, <2>5 DEF IsPacket, Nothing
<1> QED
  BY <1>1, <1>2, <1>3, <1>4 DEF Sendable

\* Between packets, or with one that was just sent, a chain has only begun.
LEMMA IInvHolds == Init => IInv
<1> SUFFICES ASSUME Init PROVE IInv
  OBVIOUS
<1>1. at \in Versions /\ at \in Nat /\ at \notin Spelled
  BY NumberingAssumption, StepFacts DEF Init, Servers, NamesFit
<1>2. IsPacket(Nothing) /\ Nothing.kind = "NOTHING"
  BY DEF IsPacket, Nothing
<1> QED
  BY <1>1, <1>2 DEF Init, IInv, TypeOK, History, SoundsSent

\* The invariant is inductive.
LEMMA IInvInductive == IInv /\ [Next]_vars => IInv'
<1> SUFFICES ASSUME IInv, [Next]_vars PROVE IInv'
  OBVIOUS
<1> USE DEF IInv, TypeOK, History
<1>1. CASE Send
  <2>1. at \in Versions /\ origin = at /\ oldest = at /\ at \notin Spelled
    BY <1>1 DEF Send
  <2>2. packet' \in Sendable(at) /\ sent' = packet' /\ at' = at /\ origin' = origin /\ oldest' = oldest
    BY <1>1 DEF Send
  <2>3. /\ IsPacket(packet') /\ packet' # Nothing
        /\ packet'.kind = "LEVEL_SOUND_EVENT" => packet'.number \in Sounds(at) /\ packet'.spelled = FALSE
    BY <2>1, <2>2, SendableType
  <2>4. TypeOK' /\ History'
    BY <2>1, <2>2, <2>3
  <2>5. SoundsSent'
    <3>1. packet'.kind = "LEVEL_SOUND_EVENT" =>
              packet'.number \in Nat /\ (packet'.number < Undefined[at] => packet'.number \in Named)
      BY <2>1, <2>3, SoundsFacts
    <3> QED
      BY <2>1, <2>2, <2>3, <3>1 DEF SoundsSent, Lasting
  <2> QED
    BY <2>4, <2>5
<1>2. CASE Done
  <2>1. /\ packet' = Nothing /\ sent' = Nothing
        /\ at' \in Versions /\ origin' = at' /\ oldest' = at' /\ at' \notin Spelled
    BY <1>2, StepFacts DEF Done, Servers, NamesFit
  <2>2. IsPacket(Nothing) /\ Nothing.kind = "NOTHING"
    BY DEF IsPacket, Nothing
  <2> QED
    BY <2>1, <2>2, NumberingAssumption DEF SoundsSent
<1>3. ASSUME NEW p \in Steps, Translate(p) PROVE IInv'
  <2>1. /\ packet # Nothing /\ p.server_protocol = at /\ at' = p.client_protocol
        /\ packet' = Rewrite(p, packet) /\ sent' = sent /\ origin' = origin
        /\ oldest' = Older(p.client_protocol, oldest)
    BY <1>3 DEF Translate, Older
  <2>2. p.server_protocol \in Versions /\ p.client_protocol \in Versions /\ NamesFit(p)
    BY StepFacts
  <2>3. packet.kind = "LEVEL_SOUND_EVENT" => packet \in LevelSoundEvents /\ packet.number \in Nat
    BY <2>1, <2>2, KindTells DEF SoundsSent, NamesFit
  <2>4. IsPacket(packet') /\ (packet' # Nothing => packet'.kind = packet.kind)
    BY <2>1, <2>3, RewriteType
  <2>5. /\ oldest' \in Versions /\ oldest' <= p.client_protocol /\ oldest' <= oldest
    BY <2>1, <2>2, OlderFacts
  <2>6. sent # Nothing
    BY <2>1
  <2>7. TypeOK' /\ History'
    BY <2>1, <2>2, <2>4, <2>5, <2>6, NumberingAssumption
  <2>8. sent'.kind = "LEVEL_SOUND_EVENT" =>
            sent'.number \in Nat /\ (Lasting(sent.number)' => sent'.number \in Named)
    <3>1. Undefined[oldest'] <= Undefined[oldest] /\ Undefined[oldest'] \in Nat /\ Undefined[oldest] \in Nat
      BY <2>5, GrowthAssumption, NumberingAssumption
    <3> QED
      BY <2>1, <3>1 DEF SoundsSent, Lasting
  <2>9. packet'.kind = "LEVEL_SOUND_EVENT" =>
            /\ packet'.spelled <=> p.client_protocol \in Spelled
            /\ p.client_protocol \notin Spelled => packet'.number \in Nat
    <3>1. SUFFICES ASSUME packet'.kind = "LEVEL_SOUND_EVENT" PROVE <2>9!2
      OBVIOUS
    <3>2. packet.kind = "LEVEL_SOUND_EVENT" /\ packet \in LevelSoundEvents /\ packet.number \in Nat
      BY <2>3, <2>4, <3>1 DEF Nothing
    <3>3. packet' = rewrite_level_sound_event(p, packet)
      BY <2>1, <3>2 DEF Rewrite
    <3>4. packet.spelled = FALSE
      BY <2>1, <2>2, <3>2 DEF SoundsSent, NamesFit, LevelSoundEvents
    <3>5. CASE p.names
      BY <2>2, <3>2, <3>3, <3>5 DEF rewrite_level_sound_event, LevelSoundEvents, NamesFit
    <3>6. CASE ~p.names
      <4>1. remap_sound(p, packet.number) \in Nat
        BY <3>2, TableType
      <4> QED
        BY <2>2, <3>2, <3>3, <3>4, <3>6, <4>1 DEF rewrite_level_sound_event, LevelSoundEvents, NamesFit
    <3> QED
      BY <3>5, <3>6
  <2> QED
    BY <2>1, <2>7, <2>8, <2>9 DEF SoundsSent
<1>4. CASE UNCHANGED vars
  BY <1>4 DEF vars, SoundsSent, Lasting
<1> QED
  BY <1>1, <1>2, <1>3, <1>4 DEF Next

-----------------------------------------------------------------------------
(***************************************************************************)
(* The properties, each for one protocol on the way.                       *)
(***************************************************************************)

\* What every case of the proofs below starts from.
LEMMA OnTheWay ==
    ASSUME IInv, NEW p \in Steps, Translate(p)
    PROVE  /\ packet # Nothing /\ sent # Nothing /\ packet.kind = sent.kind /\ IsPacket(packet) /\ IsPacket(sent)
           /\ at \in Versions /\ oldest \in Versions /\ oldest <= at
           /\ p.server_protocol = at /\ at' = p.client_protocol /\ p.client_protocol \in Versions
           /\ packet' = Rewrite(p, packet) /\ sent' = sent /\ origin' = origin
           /\ oldest' = Older(p.client_protocol, oldest)
           /\ packet' # Nothing => packet'.kind = packet.kind
<1>1. /\ packet # Nothing /\ p.server_protocol = at /\ at' = p.client_protocol
      /\ packet' = Rewrite(p, packet) /\ sent' = sent /\ origin' = origin
      /\ oldest' = Older(p.client_protocol, oldest)
  BY DEF Translate, Older
<1>2. packet.kind = "LEVEL_SOUND_EVENT" => packet.number \in Nat
  BY <1>1, StepFacts, Zenon DEF IInv, SoundsSent, NamesFit
<1> QED
  BY <1>1, <1>2, RewriteType, StepFacts DEF IInv, TypeOK, History

LEMMA SoundStep ==
    ASSUME IInv, SoundKeepsMeaning, NEW p \in Steps, Translate(p)
    PROVE  SoundKeepsMeaning'
<1> SUFFICES ASSUME packet'.kind = "LEVEL_SOUND_EVENT"
             PROVE  /\ packet'.spelled <=> p.client_protocol \in Spelled
                    /\ packet'.number = IF sent.number < Undefined[Older(p.client_protocol, oldest)] THEN sent.number
                                        ELSE IF packet'.spelled THEN Nameless
                                        ELSE Undefined[p.client_protocol]
  BY OnTheWay DEF SoundKeepsMeaning, Lasting
<1> DEFINE n == sent.number
           low == Undefined[Older(p.client_protocol, oldest)]
           reached == Undefined[p.client_protocol]
<1>1. packet.kind = "LEVEL_SOUND_EVENT" /\ packet \in LevelSoundEvents /\ packet' = rewrite_level_sound_event(p, packet)
  BY OnTheWay, KindTells DEF Rewrite, Nothing
<1>2. at \notin Spelled /\ NamesFit(p)
  BY OnTheWay, StepFacts DEF NamesFit
<1>3. packet.spelled = FALSE
  BY <1>1, <1>2 DEF SoundKeepsMeaning, LevelSoundEvents
<1>4. n \in Nat /\ (Lasting(n) => n \in Named)
  BY <1>1, OnTheWay DEF IInv, SoundsSent
<1>5. packet.number = IF n < Undefined[oldest] THEN n ELSE Undefined[p.server_protocol]
  BY <1>1, <1>3, OnTheWay DEF SoundKeepsMeaning, Lasting
<1>6. remap_sound(p, packet.number) = IF n < low THEN n ELSE reached
  BY <1>4, <1>5, OnTheWay, TableKeepsSound
<1>7. CASE p.names
  <2>1. remap_sound(p, packet.number) = packet.number
    BY <1>2, <1>7 DEF NamesFit, remap_sound
  <2>2. packet'.number = NameOf(packet.number) /\ packet'.spelled = TRUE
    BY <1>1, <1>7 DEF rewrite_level_sound_event, LevelSoundEvents
  <2>3. reached \notin Named /\ p.client_protocol \in Spelled
    BY <1>2, <1>7 DEF NamesFit
  <2>4. n < low => Lasting(n)
    <3>1. low <= Undefined[oldest] /\ low \in Nat /\ Undefined[oldest] \in Nat
      BY OnTheWay, OlderFacts, GrowthAssumption, NumberingAssumption
    <3> QED
      BY <3>1, <1>4 DEF Lasting
  <2>5. NameOf(packet.number) = IF n < low THEN n ELSE Nameless
    BY <1>4, <1>6, <2>1, <2>3, <2>4 DEF NameOf
  <2> QED
    BY <2>2, <2>3, <2>5
<1>8. CASE ~p.names
  <2>1. packet'.number = remap_sound(p, packet.number) /\ packet'.spelled = FALSE
    BY <1>1, <1>3, <1>8 DEF rewrite_level_sound_event, LevelSoundEvents
  <2> QED
    BY <2>1, <1>2, <1>6, <1>8 DEF NamesFit
<1> QED
  BY <1>7, <1>8

LEMMA ActorDataStep ==
    ASSUME IInv, ActorDataKept, NEW p \in Steps, Translate(p)
    PROVE  ActorDataKept'
<1> DEFINE low == Older(p.client_protocol, oldest)
<1> SUFFICES ASSUME packet'.kind = "SET_ACTOR_DATA"
             PROVE  /\ DOMAIN packet'.data = DOMAIN sent.data \cap KnownKeys[low]
                    /\ \A k \in DOMAIN packet'.data :
                           packet'.data[k] = IF ~IsSound(k, sent.data[k]) \/ sent.data[k].value < Undefined[low]
                                             THEN sent.data[k]
                                             ELSE [sent.data[k] EXCEPT !.value = Undefined[p.client_protocol]]
  BY OnTheWay DEF ActorDataKept, Lasting
<1>1. /\ packet.kind = "SET_ACTOR_DATA" /\ IsActorData(packet) /\ IsActorData(sent)
      /\ packet' = remap_actor_data(p, packet)
  BY OnTheWay, KindTells DEF Rewrite, Nothing
<1>2. packet'.data = [k \in DOMAIN packet.data \ p.dropped |->
                         IF IsSound(k, packet.data[k]) THEN Remapped(p, packet.data[k]) ELSE packet.data[k]]
  BY <1>1 DEF remap_actor_data, IsActorData
<1>3. /\ DOMAIN packet.data = DOMAIN sent.data \cap KnownKeys[oldest]
      /\ \A k \in DOMAIN packet.data :
             packet.data[k] = IF ~IsSound(k, sent.data[k]) \/ Lasting(sent.data[k].value) THEN sent.data[k]
                              ELSE [sent.data[k] EXCEPT !.value = Undefined[at]]
  BY <1>1 DEF ActorDataKept
<1>4. KnownKeys[low] = KnownKeys[oldest] \ p.dropped
  <2>1. KeysFit(p) /\ p.client_protocol \in Versions /\ low \in Versions
    BY StepFacts, OnTheWay, OlderFacts
  <2>2. KnownKeys[oldest] \subseteq KnownKeys[p.server_protocol]
    BY OnTheWay, GrowthAssumption
  <2>3. KnownKeys[low] \subseteq KnownKeys[oldest] /\ KnownKeys[low] \subseteq KnownKeys[p.client_protocol]
    BY <2>1, OnTheWay, OlderFacts, GrowthAssumption
  <2>4. low \in {p.client_protocol, oldest}
    BY OnTheWay, OlderFacts
  <2> QED
    BY <2>1, <2>2, <2>3, <2>4 DEF KeysFit
<1>5. ASSUME NEW k \in DOMAIN packet'.data
      PROVE  packet'.data[k] = IF ~IsSound(k, sent.data[k]) \/ sent.data[k].value < Undefined[low]
                               THEN sent.data[k]
                               ELSE [sent.data[k] EXCEPT !.value = Undefined[p.client_protocol]]
  <2> DEFINE item == sent.data[k]
             before == packet.data[k]
  <2>1. k \in DOMAIN packet.data /\ k \in DOMAIN sent.data /\ item \in DataItems
    BY <1>1, <1>2, <1>3, <1>5 DEF IsActorData
  <2>2. before = IF ~IsSound(k, item) \/ Lasting(item.value) THEN item ELSE [item EXCEPT !.value = Undefined[at]]
    BY <1>3, <2>1
  <2>3. packet'.data[k] = IF IsSound(k, before) THEN Remapped(p, before) ELSE before
    BY <1>2, <1>5
  <2> HIDE DEF item, before
  <2>4. IsSound(k, before) <=> IsSound(k, item)
    BY <2>1, <2>2 DEF IsSound, DataItems
  <2>5. CASE ~IsSound(k, item)
    BY <2>2, <2>3, <2>4, <2>5 DEF item
  <2>6. CASE IsSound(k, item)
    <3>1. item.value \in Nat
      BY <2>1 DEF DataItems
    <3>2. before.value = IF item.value < Undefined[oldest] THEN item.value ELSE Undefined[p.server_protocol]
      BY <2>1, <2>2, <2>6, OnTheWay DEF Lasting, DataItems
    <3>3. remap_sound(p, before.value) = IF item.value < Undefined[low] THEN item.value
                                         ELSE Undefined[p.client_protocol]
      BY <3>1, <3>2, OnTheWay, TableKeepsSound
    <3>4. Remapped(p, before) = [item EXCEPT !.value = remap_sound(p, before.value)]
      BY <2>1, <2>2 DEF Remapped, DataItems
    <3>5. [item EXCEPT !.value = item.value] = item
      BY <2>1 DEF DataItems
    <3> QED
      BY <2>3, <2>4, <2>6, <3>3, <3>4, <3>5 DEF item
  <2> QED
    BY <2>5, <2>6
<1> QED
  BY <1>2, <1>3, <1>4, <1>5

LEMMA EventStep ==
    ASSUME IInv, EventArrives, NEW p \in Steps, Translate(p)
    PROVE  EventArrives'
<1> DEFINE n == sent.number
           low == Older(p.client_protocol, oldest)
           first == p.actor_event.insert_at
           count == p.actor_event.count
<1> SUFFICES ASSUME sent.kind = "ACTOR_EVENT"
             PROVE  \/ packet'.kind = "ACTOR_EVENT" /\ packet'.number = n /\ n < EventCount[p.client_protocol]
                    \/ packet' = Nothing /\ n >= EventCount[low]
  BY OnTheWay DEF EventArrives
<1>1. /\ packet \in ActorEvents /\ packet.kind = "ACTOR_EVENT" /\ packet' = rewrite_actor_event(p, packet)
      /\ packet.number = n /\ n < EventCount[p.server_protocol]
  BY OnTheWay, KindTells DEF EventArrives, Rewrite
<1>2. n \in 0 .. 255 /\ n % 256 = n
  BY <1>1 DEF ActorEvents
<1>3. first \in Nat /\ count \in Nat /\ EventsFit(p) /\ p.events \in Upgrades
  BY StepFacts DEF IdShift
<1>4. /\ EventCount[low] \in Nat /\ EventCount[p.client_protocol] \in Nat /\ EventCount[p.server_protocol] \in Nat
      /\ EventCount[low] <= EventCount[p.client_protocol]
  <2>1. low \in Versions /\ low <= p.client_protocol /\ p.client_protocol \in Versions /\ p.server_protocol \in Versions
    BY OnTheWay, OlderFacts
  <2>2. \A v \in Versions : EventCount[v] \in 0 .. 256
    BY NumberingAssumption
  <2>3. EventCount[low] <= EventCount[p.client_protocol]
    BY <2>1, GrowthAssumption
  <2> HIDE DEF low
  <2> QED
    BY <2>1, <2>2, <2>3, SMTT(30)
<1>5. CASE p.events = "none"
  BY <1>1, <1>3, <1>5 DEF rewrite_actor_event, EventsFit
<1>6. CASE p.events = "up"
  <2>1. first = EventCount[p.server_protocol] /\ first + count = EventCount[p.client_protocol]
    BY <1>3, <1>6 DEF EventsFit
  <2>2. packet' = [packet EXCEPT !.number = shift_up(p.actor_event, n) % 256]
    BY <1>1, <1>6 DEF rewrite_actor_event
  <2>3. shift_up(p.actor_event, n) = n
    BY <1>1, <1>2, <1>3, <2>1 DEF shift_up
  <2> QED
    BY <1>1, <1>2, <1>3, <2>1, <2>2, <2>3 DEF ActorEvents
<1>7. CASE p.events = "down"
  <2>1. first = EventCount[p.client_protocol] /\ first + count = EventCount[p.server_protocol]
    BY <1>3, <1>7 DEF EventsFit
  <2>2. CASE n \in first .. first + count - 1
    BY <1>1, <1>2, <1>4, <1>7, <2>1, <2>2 DEF rewrite_actor_event
  <2>3. CASE n \notin first .. first + count - 1
    <3>1. n < first
      BY <1>1, <1>2, <1>3, <2>1, <2>3, SMTT(30)
    <3>2. shift_down(p.actor_event, n) = n
      BY <1>2, <1>3, <3>1 DEF shift_down
    <3>3. packet' = [packet EXCEPT !.number = n]
      BY <1>1, <1>2, <1>7, <2>3, <3>2 DEF rewrite_actor_event
    <3> QED
      BY <1>1, <2>1, <3>1, <3>3 DEF ActorEvents
  <2> QED
    BY <2>2, <2>3
<1> QED
  BY <1>3, <1>5, <1>6, <1>7 DEF Upgrades

LEMMA InstrumentStep ==
    ASSUME IInv, InstrumentKept, NEW p \in Steps, Translate(p)
    PROVE  InstrumentKept'
<1> DEFINE low == Older(p.client_protocol, oldest)
           new == p.client_protocol
           first == Trumpets.insert_at
           count == Trumpets.count
<1> SUFFICES ASSUME packet'.kind = "TILE_EVENT"
             PROVE  IF packet'.note
                    THEN \/ Instrument(origin, sent.number) \in Inserted /\ low \notin HasTrumpets
                         \/ Instrument(new, packet'.number) = Instrument(origin, sent.number)
                    ELSE packet'.number = sent.number
  BY OnTheWay DEF InstrumentKept
<1>1. packet \in TileEvents /\ packet.kind = "TILE_EVENT" /\ packet' = rewrite_tile_event(p, packet)
  BY OnTheWay, KindTells DEF Rewrite, Nothing
<1>2. packet'.note = packet.note /\ packet.number \in Nat
  BY <1>1 DEF rewrite_tile_event, TileEvents
<1>3. first \in Nat /\ count \in Nat
  BY NumberingAssumption DEF IdShift
<1>4. NotesFit(p) /\ p.notes \in Upgrades
  BY StepFacts
<1>5. /\ new \notin HasTrumpets => low \notin HasTrumpets
      /\ oldest \notin HasTrumpets => low \notin HasTrumpets
  BY OnTheWay, OlderFacts, GrowthAssumption
<1>6. CASE ~packet.note
  BY <1>1, <1>2, <1>6 DEF rewrite_tile_event, InstrumentKept
<1>7. CASE packet.note /\ Instrument(origin, sent.number) \in Inserted /\ oldest \notin HasTrumpets
  BY <1>2, <1>5, <1>7
<1>8. CASE packet.note /\ Instrument(at, packet.number) = Instrument(origin, sent.number)
  <2>1. CASE p.notes = "none"
    BY <1>1, <1>2, <1>4, <1>8, <2>1, OnTheWay DEF rewrite_tile_event, NotesFit, Instrument
  <2>2. CASE p.notes = "up"
    <3>1. p.note_instrument = Trumpets /\ at \notin HasTrumpets /\ new \in HasTrumpets
      BY <1>4, <2>2, OnTheWay DEF NotesFit
    <3>2. packet'.number = shift_up(Trumpets, packet.number)
      BY <1>1, <1>8, <2>2, <3>1 DEF rewrite_tile_event, shift_up, TileEvents
    <3> QED
      BY <1>2, <1>8, <3>1, <3>2 DEF Instrument
  <2>3. CASE p.notes = "down"
    <3>1. p.note_instrument = Trumpets /\ at \in HasTrumpets /\ new \notin HasTrumpets
      BY <1>4, <2>3, OnTheWay DEF NotesFit
    <3>2. Instrument(origin, sent.number) = packet.number
      BY <1>8, <3>1 DEF Instrument
    <3>3. CASE packet.number >= first + count
      <4>1. packet'.number = packet.number - count
        BY <1>1, <1>8, <2>3, <3>1, <3>3 DEF rewrite_tile_event, TileEvents
      <4>2. shift_up(Trumpets, packet.number - count) = packet.number
        BY <1>2, <1>3, <3>3 DEF shift_up
      <4> QED
        BY <1>2, <1>8, <3>1, <3>2, <4>1, <4>2 DEF Instrument
    <3>4. CASE packet.number \in first .. first + count - 1
      BY <1>2, <1>5, <1>8, <3>1, <3>2, <3>4 DEF Inserted
    <3>5. CASE packet.number < first
      <4>1. packet'.number = packet.number
        BY <1>1, <1>2, <1>3, <2>3, <3>1, <3>5 DEF rewrite_tile_event, TileEvents
      <4>2. shift_up(Trumpets, packet.number) = packet.number
        BY <1>2, <1>3, <3>5 DEF shift_up
      <4> QED
        BY <1>2, <1>8, <3>1, <3>2, <4>1, <4>2 DEF Instrument
    <3> QED
      BY <1>2, <1>3, <3>3, <3>4, <3>5
  <2> QED
    BY <1>4, <2>1, <2>2, <2>3 DEF Upgrades
<1>9. packet.kind = "TILE_EVENT" => <1>6!1 \/ <1>7!1 \/ <1>8!1
  BY DEF InstrumentKept
<1> QED
  BY <1>1, <1>6, <1>7, <1>8, <1>9

-----------------------------------------------------------------------------
(***************************************************************************)
(* The theorems.                                                           *)
(***************************************************************************)

Properties == SoundKeepsMeaning /\ ActorDataKept /\ EventArrives /\ InstrumentKept

\* Without a packet there is nothing to keep.
LEMMA PropertiesInit == Init => Properties
<1>1. Nothing.kind = "NOTHING"
  BY DEF Nothing
<1> QED
  BY <1>1 DEF Init, Properties, SoundKeepsMeaning, ActorDataKept, EventArrives, InstrumentKept

LEMMA PropertiesDone == Done => Properties'
<1>1. Nothing.kind = "NOTHING"
  BY DEF Nothing
<1> QED
  BY <1>1 DEF Done, Properties, SoundKeepsMeaning, ActorDataKept, EventArrives, InstrumentKept

\* A packet that was just sent is as it was sent.
LEMMA PropertiesSent ==
    ASSUME IInv, Send
    PROVE  Properties'
<1>1. /\ sent = Nothing /\ packet' \in Sendable(at) /\ sent' = packet'
      /\ at' = at /\ origin' = at /\ oldest' = at /\ at \in Versions /\ at \notin Spelled
  BY DEF Send, IInv, TypeOK, History
<1>2. /\ IsPacket(packet') /\ packet' # Nothing
      /\ packet'.kind = "LEVEL_SOUND_EVENT" => packet'.number \in Sounds(at) /\ packet'.spelled = FALSE
      /\ packet'.kind = "ACTOR_EVENT" => packet'.number \in 0 .. EventCount[at] - 1
      /\ packet'.kind = "SET_ACTOR_DATA" =>
            /\ DOMAIN packet'.data \subseteq KnownKeys[at]
            /\ \A k \in DOMAIN packet'.data : IsSound(k, packet'.data[k]) => packet'.data[k].value \in Sounds(at)
  BY <1>1, SendableType
<1>3. \A n \in Sounds(at) : n < Undefined[at] \/ n = Undefined[at]
  BY DEF Sounds
<1>4. SoundKeepsMeaning'
  BY <1>1, <1>2, <1>3 DEF SoundKeepsMeaning, Lasting
<1>5. ActorDataKept'
  <2> SUFFICES ASSUME packet'.kind = "SET_ACTOR_DATA"
               PROVE  /\ DOMAIN packet'.data = DOMAIN packet'.data \cap KnownKeys[at]
                      /\ \A k \in DOMAIN packet'.data :
                             packet'.data[k] = IF ~IsSound(k, packet'.data[k]) \/ packet'.data[k].value < Undefined[at]
                                               THEN packet'.data[k]
                                               ELSE [packet'.data[k] EXCEPT !.value = Undefined[at]]
    BY <1>1 DEF ActorDataKept, Lasting
  <2>1. IsActorData(packet')
    BY <1>2, KindTells
  <2>2. ASSUME NEW k \in DOMAIN packet'.data, packet'.data[k].value = Undefined[at]
        PROVE  [packet'.data[k] EXCEPT !.value = Undefined[at]] = packet'.data[k]
    BY <2>1, <2>2 DEF IsActorData, DataItems
  <2> QED
    BY <1>2, <1>3, <2>2
<1>6. EventArrives'
  <2>1. EventCount[at] \in Nat
    BY <1>1, NumberingAssumption
  <2> QED
    BY <1>1, <1>2, <2>1 DEF EventArrives
<1>7. InstrumentKept'
  BY <1>1 DEF InstrumentKept
<1> QED
  BY <1>4, <1>5, <1>6, <1>7 DEF Properties

\* Packets, versions and the history keep their types.
THEOREM TypeCorrect == Spec => []TypeOK
<1>1. IInv => TypeOK
  BY DEF IInv
<1> QED
  BY <1>1, IInvHolds, IInvInductive, PTL DEF Spec

\* On every way a sound stays itself or becomes "no sound", as SoundKeepsMeaning says.
THEOREM SoundsKeepTheirMeaning == Spec => []SoundKeepsMeaning
<1>1. Init => IInv /\ SoundKeepsMeaning
  BY IInvHolds, PropertiesInit DEF Properties
<1>2. IInv /\ SoundKeepsMeaning /\ [Next]_vars => (IInv /\ SoundKeepsMeaning)'
  <2> SUFFICES ASSUME IInv, SoundKeepsMeaning, [Next]_vars PROVE SoundKeepsMeaning'
    BY IInvInductive
  <2>1. CASE UNCHANGED vars
    BY <2>1 DEF vars, SoundKeepsMeaning, Lasting
  <2> QED
    BY <2>1, PropertiesDone, PropertiesSent, SoundStep DEF Next, Properties
<1> QED
  BY <1>1, <1>2, PTL DEF Spec

\* Actor data loses only what a version on the way does not have, as ActorDataKept says.
THEOREM ActorDataIsKept == Spec => []ActorDataKept
<1>1. Init => IInv /\ ActorDataKept
  BY IInvHolds, PropertiesInit DEF Properties
<1>2. IInv /\ ActorDataKept /\ [Next]_vars => (IInv /\ ActorDataKept)'
  <2> SUFFICES ASSUME IInv, ActorDataKept, [Next]_vars PROVE ActorDataKept'
    BY IInvInductive
  <2>1. CASE UNCHANGED vars
    BY <2>1 DEF vars, ActorDataKept, Lasting
  <2> QED
    BY <2>1, PropertiesDone, PropertiesSent, ActorDataStep DEF Next, Properties
<1> QED
  BY <1>1, <1>2, PTL DEF Spec

\* An event arrives as it was sent, or was dropped for a version without it, as EventArrives says.
THEOREM EventsArrive == Spec => []EventArrives
<1>1. Init => IInv /\ EventArrives
  BY IInvHolds, PropertiesInit DEF Properties
<1>2. IInv /\ EventArrives /\ [Next]_vars => (IInv /\ EventArrives)'
  <2> SUFFICES ASSUME IInv, EventArrives, [Next]_vars PROVE EventArrives'
    BY IInvInductive
  <2>1. CASE UNCHANGED vars
    BY <2>1 DEF vars, EventArrives
  <2> QED
    BY <2>1, PropertiesDone, PropertiesSent, EventStep DEF Next, Properties
<1> QED
  BY <1>1, <1>2, PTL DEF Spec

\* A note block keeps its instrument, as far as InstrumentKept says.
THEOREM InstrumentsAreKept == Spec => []InstrumentKept
<1>1. Init => IInv /\ InstrumentKept
  BY IInvHolds, PropertiesInit DEF Properties
<1>2. IInv /\ InstrumentKept /\ [Next]_vars => (IInv /\ InstrumentKept)'
  <2> SUFFICES ASSUME IInv, InstrumentKept, [Next]_vars PROVE InstrumentKept'
    BY IInvInductive
  <2>1. CASE UNCHANGED vars
    BY <2>1 DEF vars, InstrumentKept
  <2> QED
    BY <2>1, PropertiesDone, PropertiesSent, InstrumentStep DEF Next, Properties
<1> QED
  BY <1>1, <1>2, PTL DEF Spec
=============================================================================
