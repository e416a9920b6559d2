------------------------------ MODULE V860V898 -------------------------------
(***************************************************************************)
(* The packet handlers between v860 and v898: those of v860_to_v898 (named *)
(* Up where the two differ, for an older server and a newer client) and of *)
(* v898_to_v860 (Down).  "ToV898" and "ToV860" say which layout a handler  *)
(* writes; a handler of one protocol's serverbound packets writes the      *)
(* layout its clientbound handlers read.                                   *)
(***************************************************************************)
EXTENDS CommandTypes, StartGamePacket

\* animate.py: the rowing time goes, the swing source comes and is absent.
Rowing == 128..255
AnimateToV898 ==
  As("action", VAR_INT, BYTE) \o Pass(UVAR_INT64 \o FLOAT_LE)
  \o When("action", Rowing, Read(FLOAT_LE)) \o None
AnimateToV860 ==
  As("action", BYTE, VAR_INT) \o Pass(UVAR_INT64 \o FLOAT_LE)
  \o Read(F("swing source", Opt(STR)))

\* interact.py: v860 has a position for STOP_RIDING and INTERACT_UPDATE, and
\* only then; v898 says whether it has one.
HasPosition == {3, 4}
InteractToV860 ==
  Pass(F("action", BYTE) \o UVAR_INT64) \o Read(F("has_mouse_position", BOOL))
  \o When("action", HasPosition,
       When("has_mouse_position", {1}, Pass(VEC3))
       \o When("has_mouse_position", {0}, Rep(3, New("position", FLOAT_LE, 0))))
  \o Unless("action", HasPosition,
       When("has_mouse_position", {1}, Read(VEC3)))
InteractToV898 ==
  Pass(F("action", BYTE) \o UVAR_INT64)
  \o When("action", HasPosition, New("?", BOOL, 1))
  \o Unless("action", HasPosition, New("?", BOOL, 0))

\* mob_effect.py.
MobEffect ==
  UVAR_INT64 \o BYTE \o VAR_INT \o VAR_INT \o BOOL \o VAR_INT \o UVAR_INT64
MobEffectToV898 == Pass(MobEffect) \o New("ambient", BOOL, 0)
MobEffectToV860 == Pass(MobEffect) \o Read(BOOL)

\* resource_pack_stack.py: v860 lists the behaviour packs before the others.
Pack == STR \o STR \o STR
ResourcePackStackToV898 ==
  Pass(BOOL) \o Read(F("behavior packs", UVAR_INT)) \o Times("behavior packs", Read(Pack))
  \o Each("packs", Pass(Pack))
ResourcePackStackToV860 ==
  Pass(BOOL) \o Empty \o Each("packs", Pass(Pack))

\* event.py: the type is written again, as the variant of the data after it.
EventToV898 ==
  Pass(VAR_INT64 \o F("event type", VAR_INT) \o BOOL)
  \o Meant("event type", "event data") \o Write(F("event type", UVAR_INT)) \o PassAll
EventToV860 == Pass(VAR_INT64 \o VAR_INT \o BOOL) \o Read(UVAR_INT) \o PassAll

\* camera_aim_assist.py.  Going up, the categories are read as lists of lists.
Priorities == Arr(STR \o INT_LE)
AimAssistPresetTail == Arr(STR) \o Arr(STR \o STR) \o Opt(STR) \o Opt(STR)
CameraAimAssistToV898 ==
  Each("outer",
    Pass(STR)
    \o Each("categories",
         Pass(STR \o Priorities \o Priorities) \o Empty \o Pass(Opt(INT_LE) \o Opt(INT_LE))))
  \o Each("presets",
       Pass(STR \o Arr(STR)) \o Empty \o Empty \o Pass(AimAssistPresetTail))

\* Going down, the three lists of exclusions become one.
Names(x) == F(x \o " names", Times(x, F("exclusion", STR)))
Exclusions(x) == Read(F(x, UVAR_INT) \o Names(x))
CameraAimAssistToV860 ==
  Each("categories",
    Pass(STR \o Priorities \o Priorities) \o Read(Priorities) \o Pass(Opt(INT_LE) \o Opt(INT_LE)))
  \o Each("presets",
       Pass(STR) \o Exclusions("blocks") \o Exclusions("entities") \o Exclusions("tags")
       \o Sum("exclusions", <<"blocks", "entities", "tags">>)
       \o Write(F("exclusions", UVAR_INT) \o Names("blocks") \o Names("entities") \o Names("tags"))
       \o Pass(AimAssistPresetTail))

\* start_game.py: everything but the checksum and the last flag is passed.
StartGameToV898 ==
  Pass(StartGameHead(LEVEL_SETTINGS_V860) \o Rep(4, STR) \o StartGameLevel) \o ResetChecksum
  \o Pass(StartGameFlags) \o Read(BOOL)
StartGameToV860 ==
  Pass(StartGameHead(LEVEL_SETTINGS_V860) \o Rep(4, STR) \o StartGameLevel) \o ResetChecksum
  \o Pass(StartGameFlags) \o New("tick death systems", BOOL, 0)

\* commands.py, AvailableCommands: lists one by one, each in the other's form.
EnumBetween(from, to) ==
  As("enum name", STR, STR) \o Each("enum values", As("enum value", from, to))
ByWidth(byte, short, int) ==
  When("values_size", 0..ByteIndexes, byte)
  \o When("values_size", (ByteIndexes + 1)..ShortIndexes, short)
  \o When("values_size", (ShortIndexes + 1)..(ShortIndexes + 9), int)
SubcommandBetween(from, to) ==
  As("subcommand", STR, STR)
  \o Each("pairs", Read(F("first", from) \o F("second", from))
                   \o Write(F("first", to) \o F("second", to)))
DefinitionBetween(permission, index, permission1, index1) ==
  Pass(STR \o STR \o USHORT_LE) \o As("permission", permission, permission1)
  \o Only("permission", 0..5) \o Pass(INT_LE)
  \o Each("subcommand indices", As("subcommand index", index, index1))
  \o Pass(Arr(COMMAND_OVERLOAD))
CommandLists ==
  Pass(F("values_size", UVAR_INT) \o Times("values_size", STR) \o Arr(STR) \o Arr(STR))
CommandTail == Pass(Arr(SOFT_ENUM) \o Arr(COMMAND_CONSTRAINT))
AvailableCommandsToV898 ==
  CommandLists
  \o Each("enums", ByWidth(EnumBetween(BYTE, INT_LE), EnumBetween(USHORT_LE, INT_LE),
                           EnumBetween(INT_LE, INT_LE)))
  \o Each("subcommands", SubcommandBetween(USHORT_LE, UVAR_INT))
  \o Each("commands", DefinitionBetween(BYTE, USHORT_LE, STR, INT_LE)) \o CommandTail
AvailableCommandsToV860 ==
  CommandLists
  \o Each("enums", ByWidth(EnumBetween(INT_LE, BYTE), EnumBetween(INT_LE, USHORT_LE),
                           EnumBetween(INT_LE, INT_LE)))
  \o Each("subcommands", SubcommandBetween(UVAR_INT, USHORT_LE))
  \o Each("commands", DefinitionBetween(STR, INT_LE, BYTE, USHORT_LE)) \o CommandTail

\* The read of a CommandOrigin makes up a player that the wire does not have.
NoPlayer == Let("player_id", "player_id", 0)
OriginToV898 == NoPlayer \o Read(COMMAND_ORIGIN_V860) \o Write(COMMAND_ORIGIN_V898)
CommandRequestToV860 ==
  Pass(STR) \o Read(COMMAND_ORIGIN_V898)
  \o Let("origin_type", "origin_type", 0) \o NoPlayer \o Write(COMMAND_ORIGIN_V860)
  \o Pass(BOOL) \o Read(STR) \o New("version", VAR_INT, 0)
CommandRequestToV898 ==
  Pass(STR) \o OriginToV898 \o Pass(BOOL) \o Read(VAR_INT) \o New("version", STR, 0)

OutputParameters == F("parameters", Arr(STR))
DataSet == 4
CommandOutputToV898 ==
  OriginToV898 \o As("output type", BYTE, STR) \o As("success count", UVAR_INT, INT_LE)
  \o Each("messages",
       Read(F("successful", BOOL) \o F("message id", STR) \o OutputParameters)
       \o Write(F("message id", STR) \o F("successful", BOOL) \o OutputParameters))
  \o When("output type", {DataSet}, New("?", BOOL, 1))
  \o When("output type", 0..(DataSet - 1), New("?", BOOL, 0))
CommandOutputToV860 ==
  Read(COMMAND_ORIGIN_V898) \o Write(COMMAND_ORIGIN_V860)
  \o As("output type", STR, BYTE) \o As("success count", INT_LE, UVAR_INT)
  \o Each("messages",
       Read(F("message id", STR) \o F("successful", BOOL) \o OutputParameters)
       \o Write(F("successful", BOOL) \o F("message id", STR) \o OutputParameters))
  \o Read(BOOL)

\* text.py: v898 groups the types in three bodies, each behind a fixed number
\* of labels, and makes the filtered message optional.
MessageOnly == {0, 5, 6, 9, 10, 11}
AuthorAndMessage == {1, 7, 8}
MessageAndParams == {2, 3, 4}
TextBody(kind, labels, types, fields) ==
  When("text type", types,
    New("kind", BYTE, kind) \o Rep(labels, New("label", STR, 0))
    \o Write(F("text type", BYTE)) \o Pass(fields))
TextToV898 ==
  Read(F("text type", BYTE) \o F("needs translation", BOOL))
  \o Write(F("needs translation", BOOL)) \o Only("text type", 0..11)
  \o TextBody(0, 6, MessageOnly, STR) \o TextBody(1, 3, AuthorAndMessage, STR \o STR)
  \o TextBody(2, 3, MessageAndParams, STR \o Arr(STR))
  \o Pass(STR \o STR) \o Read(F("filtered message", STR))
  \o When("filtered message", {0}, None)
  \o When("filtered message", {1}, New("?", BOOL, 1) \o Write(F("filtered message", STR)))
TextFrom(kind, labels, fields) ==
  When("kind", {kind},
    Read(Rep(labels, STR) \o F("text type", BYTE))
    \o Write(F("text type", BYTE) \o F("needs translation", BOOL)) \o Pass(fields))
TextToV860 ==
  Read(F("needs translation", BOOL) \o F("kind", BYTE)) \o Only("kind", 0..2)
  \o TextFrom(0, 6, STR) \o TextFrom(1, 3, STR \o STR) \o TextFrom(2, 3, STR \o Arr(STR))
  \o Pass(STR \o STR) \o Let("filtered message", "filtered message", 0)
  \o Read(F("has filtered", BOOL)) \o When("has filtered", {1}, Read(F("filtered message", STR)))
  \o Write(F("filtered message", STR))

\* The handlers by packet.
ClientboundToV898 ==
  [ANIMATE |-> AnimateToV898, MOB_EFFECT |-> MobEffectToV898,
   RESOURCE_PACK_STACK |-> ResourcePackStackToV898, TEXT |-> TextToV898,
   START_GAME |-> StartGameToV898, LEGACY_TELEMETRY_EVENT |-> EventToV898,
   AVAILABLE_COMMANDS |-> AvailableCommandsToV898, COMMAND_OUTPUT |-> CommandOutputToV898,
   CAMERA_AIM_ASSIST_PRESETS |-> CameraAimAssistToV898]
ServerboundToV860 ==
  [ANIMATE |-> AnimateToV860, INTERACT |-> InteractToV860,
   COMMAND_REQUEST |-> CommandRequestToV860, TEXT |-> TextToV860,
   SERVERBOUND_DATA_STORE |-> Cancel]
ClientboundToV860 ==
  [ANIMATE |-> AnimateToV860, MOB_EFFECT |-> MobEffectToV860,
   RESOURCE_PACK_STACK |-> ResourcePackStackToV860, TEXT |-> TextToV860,
   START_GAME |-> StartGameToV860, LEGACY_TELEMETRY_EVENT |-> EventToV860,
   AVAILABLE_COMMANDS |-> AvailableCommandsToV860, COMMAND_OUTPUT |-> CommandOutputToV860,
   CAMERA_AIM_ASSIST_PRESETS |-> CameraAimAssistToV860, CLIENTBOUND_DATA_STORE |-> Cancel]
ServerboundToV898 ==
  [ANIMATE |-> AnimateToV898, INTERACT |-> InteractToV898,
   COMMAND_REQUEST |-> CommandRequestToV898, TEXT |-> TextToV898]
=============================================================================
