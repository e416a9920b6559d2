------------------------------ MODULE Mappings ------------------------------
(***************************************************************************)
(* The tables of protocol/mappings, which protocol uses which of them and  *)
(* in which direction (the create_protocol of each version pair), and the  *)
(* numberings of the game's versions (codec/types/enums.py).               *)
(***************************************************************************)
EXTENDS Registry, IdShifts

\* ActorDataIDs.
HEARTBEAT_SOUND_EVENT == 126
AIM_ASSIST_KEYS == {136, 137, 138}
OTHER_KEY == 0

\* LevelSoundEvent: what the members UNDEFINED_V* are numbered.
UndefinedSound(v) ==
    CASE v <= 860 -> 566
      [] v = 898 -> 578
      [] v = 924 -> 597
      [] v = 944 -> 599
      [] v >= 975 -> 601

\* ActorEvent: KINETIC_DAMAGE_DEALT = 80 is there since v898.
KINETIC_DAMAGE_DEALT == 80
ActorEventCount(v) == IF v < 898 THEN KINETIC_DAMAGE_DEALT ELSE KINETIC_DAMAGE_DEALT + 1

\* NoteBlockInstrument: 16 up to BANJO and PLING, five heads, and since v944 the trumpets before these.
TRUMPET == 16
NoteBlockInstrumentCount(v) == IF v < 944 THEN TRUMPET + 5 ELSE TRUMPET + 4 + 5

\* SOUND_EVENT_NAMES: the ids between 0 and 600 but those that its comment calls blank slots.
SoundEventNames == 0 .. 600 \ ({378, 522, 535} \cup 391 .. 425)

NoShift == inserted(0, 0)

\* MAPPINGS of each module of protocol/mappings.
v860_v898 ==
    [sound |-> inserted(12, UndefinedSound(860)), actor_event |-> inserted(1, KINETIC_DAMAGE_DEALT),
     note_instrument |-> NoShift, dropped |-> {}]
v898_v924 ==
    [sound |-> inserted(19, UndefinedSound(898)), actor_event |-> NoShift,
     note_instrument |-> NoShift, dropped |-> AIM_ASSIST_KEYS]
v924_v944 ==
    [sound |-> inserted(2, UndefinedSound(924)), actor_event |-> NoShift,
     note_instrument |-> inserted(4, TRUMPET), dropped |-> {}]
v944_v975 ==
    [sound |-> inserted(2, UndefinedSound(944)), actor_event |-> NoShift,
     note_instrument |-> NoShift, dropped |-> {}]

NoMappings == [sound |-> NoShift, actor_event |-> NoShift, note_instrument |-> NoShift, dropped |-> {}]

\* A protocol that rewrites no number.
Plain(factory) ==
    [server_protocol |-> factory.protocol.server_protocol, client_protocol |-> factory.protocol.client_protocol,
     sound |-> NoShift, sound_remap |-> "none", dropped |-> {}, actor_event |-> NoShift, events |-> "none",
     note_instrument |-> NoShift, notes |-> "none", names |-> FALSE]

\* A protocol that uses the tables of M.
Using(factory, M, remap) ==
    [Plain(factory) EXCEPT !.sound = M.sound, !.sound_remap = remap,
                           !.actor_event = M.actor_event, !.note_instrument = M.note_instrument]

step_v859_to_v860 == Plain(create_v859_to_v860)
step_v860_to_v859 == Plain(create_v860_to_v859)
step_v860_to_v898 == [Using(create_v860_to_v898, v860_v898, "shift_up") EXCEPT !.events = "up"]
step_v898_to_v860 == [Using(create_v898_to_v860, v860_v898, "shift_down") EXCEPT !.events = "down"]
step_v898_to_v924 == Using(create_v898_to_v924, v898_v924, "shift_up")
step_v924_to_v898 == [Using(create_v924_to_v898, v898_v924, "cap") EXCEPT !.dropped = v898_v924.dropped]
step_v924_to_v944 == [Using(create_v924_to_v944, v924_v944, "shift_up") EXCEPT !.notes = "up"]
step_v944_to_v924 == [Using(create_v944_to_v924, v924_v944, "shift_down") EXCEPT !.notes = "down"]
step_v944_to_v975 == Using(create_v944_to_v975, v944_v975, "shift_up")
step_v975_to_v1001 == [Plain(create_v975_to_v1001) EXCEPT !.names = TRUE]

RegisteredSteps ==
    {step_v859_to_v860, step_v860_to_v859, step_v860_to_v898, step_v898_to_v860, step_v898_to_v924,
     step_v924_to_v898, step_v924_to_v944, step_v944_to_v924, step_v944_to_v975, step_v975_to_v1001}
=============================================================================
