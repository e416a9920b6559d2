---------------------------- MODULE MCRemapping ----------------------------
(***************************************************************************)
(* Remapping with the protocols that the plugin registers, their tables,   *)
(* and every sound, event and instrument that a server sends.              *)
(***************************************************************************)
EXTENDS Remapping, Mappings

MCUndefined == [v \in RegisteredVersions |-> UndefinedSound(v)]
MCEventCount == [v \in RegisteredVersions |-> ActorEventCount(v)]
MCInstruments == [v \in RegisteredVersions |-> NoteBlockInstrumentCount(v)]
MCTrumpets == inserted(4, TRUMPET)
MCHasTrumpets == {v \in RegisteredVersions : v >= 944}
MCSpelled == {1001}

\* The sound, the keys of the aim assist, and one that every version has.
MCKeys == {OTHER_KEY, HEARTBEAT_SOUND_EVENT} \cup AIM_ASSIST_KEYS
MCKnownKeys == [v \in RegisteredVersions |-> IF v < 924 THEN MCKeys \ AIM_ASSIST_KEYS ELSE MCKeys]

\* Sounds that were inserted, and "no sound" of the oldest and the newest versions; and no sound.
MCItems ==
    {[type_id |-> INT, value |-> 566], [type_id |-> INT64, value |-> 577],
     [type_id |-> INT, value |-> 598], [type_id |-> INT64, value |-> 601],
     [type_id |-> 3, value |-> 577]}
=============================================================================
