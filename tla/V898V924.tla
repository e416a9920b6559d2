------------------------------ MODULE V898V924 -------------------------------
(***************************************************************************)
(* The packet handlers between v898 and v924: those of v898_to_v924 and of *)
(* v924_to_v898.  "ToV924" and "ToV898" say which layout a handler writes. *)
(***************************************************************************)
EXTENDS StartGamePacket, CameraPacket, BiomeTypes

\* start_game.py: the telemetry moves to the end, behind the join information,
\* and the world and the scenario change places.
ServerId == F("server_id", STR)
WorldId == F("world_id", STR)
ScenarioId == F("scenario_id", STR)
OwnerId == F("owner_id", STR)
StartGameToV924 ==
  Pass(StartGameHead(LEVEL_SETTINGS_V924))
  \o Read(ServerId \o WorldId \o ScenarioId \o OwnerId)
  \o Pass(StartGameLevel) \o ResetChecksum \o Pass(StartGameFlags \o BOOL)
  \o New("join info", BOOL, 0) \o Write(ServerId \o ScenarioId \o WorldId \o OwnerId)
StartGameToV898 ==
  Pass(StartGameHead(LEVEL_SETTINGS_V924))
  \o Read(F("level", StartGameLevel) \o INT64_LE \o F("flags", StartGameFlags \o BOOL)
          \o F("join info", BOOL) \o When("join info", {1}, BOOL)
          \o ServerId \o ScenarioId \o WorldId \o OwnerId)
  \o Write(ServerId \o WorldId \o ScenarioId \o OwnerId \o F("level", StartGameLevel))
  \o New("checksum", INT64_LE, 0) \o Write(F("flags", StartGameFlags \o BOOL))

\* text.py: v924 dropped the labels between the body's kind and the type.
MessageOnly == {0, 5, 6, 9, 10, 11}
AuthorAndMessage == {1, 7, 8}
MessageAndParams == {2, 3, 4}
LabelsIn(kind, labels, types) ==
  When("kind", {kind},
    Read(F("text type", BYTE)) \o Only("text type", types) \o Rep(labels, New("label", STR, 0))
    \o Write(F("text type", BYTE)))
LabelsOut(kind, labels) ==
  When("kind", {kind}, Read(Rep(labels, STR)) \o Pass(BYTE))
TextHead == Pass(BOOL) \o As("kind", BYTE, BYTE) \o Only("kind", 0..2)
TextToV898 ==
  TextHead \o LabelsIn(0, 6, MessageOnly) \o LabelsIn(1, 3, AuthorAndMessage)
  \o LabelsIn(2, 3, MessageAndParams)
TextToV924 == TextHead \o LabelsOut(0, 6) \o LabelsOut(1, 3) \o LabelsOut(2, 3)

\* data_store.py.
DataStoreValue ==
  STR \o STR \o STR \o Is("data type", UVAR_INT, {0, 1, 2}) \o Only("data type", {0, 1, 2})
  \o When("data type", {0}, DOUBLE_LE) \o When("data type", {1}, BOOL)
  \o When("data type", {2}, STR) \o INT_LE
ServerboundDataStoreToV898 == Pass(DataStoreValue) \o Read(INT_LE)
ServerboundDataStoreToV924 == Pass(DataStoreValue) \o New("path updates", INT_LE, 0)
DataStoreUpdates(path_updates) ==
  Each("updates",
    Pass(F("action", UVAR_INT)) \o Only("action", {0, 1, 2})
    \o When("action", {0}, Pass(DataStoreValue) \o path_updates)
    \o When("action", {1}, Pass(STR \o STR \o INT_LE \o CHANGE_VALUE))
    \o When("action", {2}, Pass(STR)))
ClientboundDataStoreToV924 == DataStoreUpdates(New("path updates", INT_LE, 0))
ClientboundDataStoreToV898 == DataStoreUpdates(Read(INT_LE))

\* book_edit.py: slot and pages become bytes; the text is left to follow.
OnePage == {0, 1, 2}
BothPages == 3
Page(from, to) == As("page", from, to)
Pages_SecondTwice(from, to) ==
  Only("action", 0..4) \o When("action", OnePage, Page(from, to))
  \o When("action", {BothPages},
       Read(F("page", from) \o F("page", from)) \o Write(F("page", to) \o F("page", to)))
Pages(from, to) ==
  Only("action", 0..4) \o When("action", OnePage, Page(from, to))
  \o When("action", {BothPages}, Page(from, to) \o Page(from, to))
BookEditToV924 ==
  Read(F("slot", VAR_INT) \o F("action", BYTE)) \o Write(F("action", BYTE) \o F("slot", BYTE))
  \o Pages(VAR_INT, BYTE)
BookEditToV898 ==
  Read(F("action", BYTE) \o F("slot", BYTE)) \o Write(F("slot", VAR_INT) \o F("action", BYTE))
  \o Pages(BYTE, VAR_INT)

\* diagnostics.py: v924 added the values of the memory categories.
DiagnosticsToV898 == Pass(Rep(9, FLOAT_LE)) \o DropAll
DiagnosticsToV924 == Pass(Rep(9, FLOAT_LE)) \o Empty

\* camera_aim_assist.py: v924 added two lists on entity families.
Priorities == Arr(STR \o INT_LE)
PresetTail == Arr(STR) \o Arr(STR \o STR) \o Opt(STR) \o Opt(STR)
AimAssist(families, exclusions) ==
  Each("categories",
    Pass(STR \o Rep(3, Priorities)) \o families \o Pass(Opt(INT_LE) \o Opt(INT_LE)))
  \o Each("presets", Pass(STR \o Rep(3, Arr(STR))) \o exclusions \o Pass(PresetTail))
CameraAimAssistToV924 == AimAssist(Empty, Empty)
CameraAimAssistToV898 == AimAssist(Read(Priorities), Read(Arr(STR)))

\* graphics_parameter_override.py.
Keyframes == Arr(FLOAT_LE \o VEC3)
GraphicsOverrideToV924 == Pass(Keyframes) \o None \o None
GraphicsOverrideToV898 == Pass(Keyframes) \o Read(Opt(FLOAT_LE) \o Opt(VEC3))

\* camera.py: the key frames of the spline got an easing.
SplineFrame(frame, from, to) ==
  Let("easing", "easing", 0) \o Read(F("frame", frame) \o from) \o Write(F("frame", frame) \o to)
SplineBetween(from, to) ==
  Pass(SplineHead) \o Each("frames", SplineFrame(FLOAT_LE \o FLOAT_LE, from, to))
  \o Each("rotations", SplineFrame(VEC3 \o FLOAT_LE, from, to))
CameraInstructionToV924 == CameraInstruction(SplineBetween(<<>>, EASING))
CameraInstructionToV898 == CameraInstruction(SplineBetween(EASING, <<>>))

\* biome_definition_list.py: no biome of v898 has a village type.
BiomeBetween(village) ==
  Each("biomes",
    Pass(USHORT_LE \o BiomeDefinitionHead) \o Pass(F("chunk gen", BOOL))
    \o When("chunk gen", {1}, Pass(BiomeDefinitionChunkGenDataV898) \o village))
BiomeDefinitionListToV924 == BiomeBetween(None)
BiomeDefinitionListToV898 == BiomeBetween(Read(VillageType))

\* debug_drawer.py: v924 can attach a shape to an entity.
ShapeCommon ==
  UVAR_INT64 \o Opt(BYTE) \o Opt(VEC3) \o Opt(FLOAT_LE) \o Opt(VEC3) \o Opt(FLOAT_LE)
  \o Opt(INT_LE) \o VAR_INT
ExtraShapeData ==
  Is("shape", BYTE, 0..5) \o When("shape", {1}, Opt(VEC3) \o Opt(FLOAT_LE) \o Opt(FLOAT_LE) \o Opt(BYTE))
  \o When("shape", {2}, STR) \o When("shape", {3, 4}, VEC3) \o When("shape", {5}, BYTE)
DebugDrawer(attached) ==
  Each("shapes", Pass(ShapeCommon) \o attached \o Pass(ExtraShapeData))
DebugDrawerToV924 == DebugDrawer(None)
DebugDrawerToV898 == DebugDrawer(Read(Opt(UVAR_INT64)))

\* The handlers by packet.
ClientboundToV924 ==
  [START_GAME |-> StartGameToV924, TEXT |-> TextToV924,
   CLIENTBOUND_DATA_STORE |-> ClientboundDataStoreToV924,
   CAMERA_AIM_ASSIST_PRESETS |-> CameraAimAssistToV924,
   GRAPHICS_PARAMETER_OVERRIDE |-> GraphicsOverrideToV924,
   CAMERA_INSTRUCTION |-> CameraInstructionToV924,
   BIOME_DEFINITION_LIST |-> BiomeDefinitionListToV924,
   SERVER_SCRIPT_DEBUG_DRAWER |-> DebugDrawerToV924]
ServerboundToV898 ==
  [TEXT |-> TextToV898, SERVERBOUND_DATA_STORE |-> ServerboundDataStoreToV898,
   BOOK_EDIT |-> BookEditToV898, SERVERBOUND_DIAGNOSTICS |-> DiagnosticsToV898]
ClientboundToV898 ==
  [START_GAME |-> StartGameToV898, TEXT |-> TextToV898,
   CLIENTBOUND_DATA_STORE |-> ClientboundDataStoreToV898,
   CAMERA_AIM_ASSIST_PRESETS |-> CameraAimAssistToV898,
   BIOME_DEFINITION_LIST |-> BiomeDefinitionListToV898,
   GRAPHICS_PARAMETER_OVERRIDE |-> GraphicsOverrideToV898,
   CAMERA_INSTRUCTION |-> CameraInstructionToV898,
   SERVER_SCRIPT_DEBUG_DRAWER |-> DebugDrawerToV898,
   CLIENTBOUND_DATA_DRIVEN_UI_SHOW_SCREEN |-> Cancel,
   CLIENTBOUND_DATA_DRIVEN_UI_CLOSE_ALL_SCREENS |-> Cancel,
   CLIENTBOUND_DATA_DRIVEN_UI_RELOAD |-> Cancel, CLIENTBOUND_TEXTURE_SHIFT |-> Cancel,
   VOXEL_SHAPES |-> Cancel, CAMERA_SPLINE |-> Cancel, CAMERA_AIM_ASSIST_ACTOR_PRIORITY |-> Cancel]
ServerboundToV924 ==
  [TEXT |-> TextToV924, SERVERBOUND_DATA_STORE |-> ServerboundDataStoreToV924,
   BOOK_EDIT |-> BookEditToV924, SERVERBOUND_DIAGNOSTICS |-> DiagnosticsToV924]
=============================================================================
