------------------------------- MODULE Layouts -------------------------------
(***************************************************************************)
(* The packets of the game at each version, as its servers and clients     *)
(* write and read them.  The game is not part of this program: its layouts *)
(* are those that the handlers' comments and their reads and writes, of    *)
(* both neighbours of a version, say it has.                               *)
(*                                                                         *)
(* A field is named when some version lacks it, moves it or narrows it, or *)
(* when the packet's form hangs on it.                                     *)
(***************************************************************************)
EXTENDS CommandTypes, CraftingTypes, BiomeTypes, StartGamePacket, CameraPacket

\* The forms of a packet that only some runs send: "gathering", the gathering
\* data of StartGame, and "rowing", the actions of a rower in Animate at v898.
CONSTANT Special
Choices(common, form, special) == IF form \in Special THEN common \cup special ELSE common

H860 == INSTANCE V860V898
H898 == INSTANCE V898V924
H924 == INSTANCE V924V944
H944 == INSTANCE V944V975
H975 == INSTANCE V975V1001

Rest == REMAINING_BYTES
\* The list that a packet is about has an element at least, and may have two.
List(T) == Is("#", UVAR_INT, {1, 2}) \o Times("#", T)
Position(x, v) == Pos(x, IF v >= 944 THEN VAR_INT ELSE UVAR_INT)
Since(first, v, T) == IF v >= first THEN T ELSE <<>>
Until(last, v, T) == IF v <= last THEN T ELSE <<>>

\* Animate, Interact, MobEffect, ResourcePackStack, Event.
Animate(v) ==
  (IF v < 898 THEN Is("action", VAR_INT, {1, 128})
   ELSE Is("action", BYTE, Choices({1}, "rowing", {128})))
  \o UVAR_INT64 \o FLOAT_LE
  \o Until(860, v, When("action", {128}, F("rowing", FLOAT_LE)))
  \o Since(898, v, Opt(F("swing source", STR)))
Interact(v) ==
  Is("action", BYTE, {3, 6}) \o UVAR_INT64
  \o IF v < 898 THEN When("action", {3}, F("position", VEC3))
     ELSE When("action", {3}, Opt(F("position", VEC3)))
          \o Unless("action", {3}, Opt(F("mouse position", VEC3)))
MobEffect(v) == H860!MobEffect \o Since(898, v, F("ambient", BOOL))
ResourcePackStack(v) ==
  BOOL \o Until(860, v, Arr(F("behavior pack", H860!Pack))) \o Arr(H860!Pack) \o Rest
Event(v) ==
  VAR_INT64 \o F("event type", VAR_INT) \o BOOL \o Since(898, v, F("event data", UVAR_INT)) \o Rest

\* Text: v898 groups the types by their fields, behind labels until v924.
TextFields(type) ==
  CASE type \in H860!MessageOnly -> STR
    [] type \in H860!AuthorAndMessage -> STR \o STR
    [] type \in H860!MessageAndParams -> STR \o Arr(STR)
TextGroup(v, kind, labels, types, type) ==
  When("kind", {kind},
    Until(898, v, Rep(labels, F("label", STR))) \o Is("text type", BYTE, types) \o TextFields(type))
Text(v) ==
  IF v < 898
  THEN Is("text type", BYTE, {0, 1, 2, 4, 9}) \o F("needs translation", BOOL)
       \o When("text type", H860!MessageOnly, TextFields(0))
       \o When("text type", H860!AuthorAndMessage, TextFields(1))
       \o When("text type", H860!MessageAndParams, TextFields(2))
       \o STR \o STR \o Is("filtered message", STR, {0, 1})
  ELSE F("needs translation", BOOL) \o Is("kind", BYTE, 0..2)
       \o TextGroup(v, 0, 6, {0, 9}, 0) \o TextGroup(v, 1, 3, {1, 7}, 1)
       \o TextGroup(v, 2, 3, {2, 4}, 2) \o STR \o STR \o Opt(F("filtered message", STR))

\* StartGame: the telemetry moved to its end with v924.
Telemetry(v) ==
  IF v < 924 THEN F("server_id", STR) \o F("world_id", STR) \o F("scenario_id", STR) \o F("owner_id", STR)
  ELSE F("server_id", STR) \o F("scenario_id", STR) \o F("world_id", STR) \o F("owner_id", STR)
JoinInfo(v) ==
  Is("join info", BOOL, {0, 1})
  \o When("join info", {1},
       IF v < 944
       THEN Is("gathering", BOOL, Choices({0}, "gathering", {1})) \o When("gathering", {1}, Rep(7, F("gathering data", STR)))
       ELSE Is("gathering", BOOL, {0}) \o Is("store entry", BOOL, {0}) \o Is("presence", BOOL, {0}))
LevelSettingsAt(v) ==
  IF v < 898 THEN LEVEL_SETTINGS_V860
  ELSE IF v < 944 THEN LEVEL_SETTINGS_V924 ELSE LEVEL_SETTINGS_V944
StartGame(v) ==
  StartGameHead(LevelSettingsAt(v))
  \o Since(1001, v, F("editor policy", VAR_INT) \o F("anonymous drops", BOOL))
  \o Until(898, v, Telemetry(v)) \o StartGameLevel \o F("checksum", INT64_LE) \o StartGameFlags
  \o Until(860, v, F("tick death systems", BOOL)) \o BOOL \o Since(1001, v, F("logging chat", BOOL))
  \o Since(924, v, JoinInfo(v) \o Telemetry(v))

\* Commands.
AvailableCommands(v) ==
  Is("values_size", UVAR_INT, {0, 2, 3}) \o Times("values_size", STR) \o Arr(STR) \o Arr(STR)
  \o List(IF v < 898 THEN CommandEnumV860 ELSE COMMAND_ENUM_V898)
  \o Arr(IF v < 898 THEN COMMAND_SUBCOMMAND_V860 ELSE COMMAND_SUBCOMMAND_V898)
  \o List(IF v < 898 THEN COMMAND_DEFINITION_V860 ELSE COMMAND_DEFINITION_V898)
  \o Arr(SOFT_ENUM) \o Arr(COMMAND_CONSTRAINT)
Origin(v) ==
  IF v < 898 THEN COMMAND_ORIGIN_V860
  ELSE CommandOriginHead(STR) \o When("origin_type", WithPlayer, F("player_id", INT64_LE))
       \o Unless("origin_type", WithPlayer, Is("player_id", INT64_LE, {0}))
CommandRequest(v) ==
  STR \o Origin(v) \o BOOL \o F("version", IF v < 898 THEN VAR_INT ELSE STR)
CommandOutput(v) ==
  Origin(v)
  \o IF v < 898
     THEN Is("output type", BYTE, {0, 1, 4}) \o F("success count", UVAR_INT)
          \o List(F("successful", BOOL) \o F("message id", STR) \o Arr(STR))
          \o When("output type", {4}, F("data set", STR))
     ELSE Is("output type", STR, {0, 1, 4}) \o F("success count", INT_LE)
          \o List(F("message id", STR) \o F("successful", BOOL) \o Arr(STR))
          \o When("output type", {4}, Is("?", BOOL, {1}) \o F("data set", STR))
          \o Unless("output type", {4}, Is("?", BOOL, {0}))

\* CameraAimAssistPresets, CameraInstruction, CameraSpline.
Named(x, T) == Arr(F(x, T))
CameraAimAssist(v) ==
  List(STR \o Rep(2, H898!Priorities) \o Since(898, v, Named("tag", STR \o INT_LE))
       \o Since(924, v, Named("family", STR \o INT_LE)) \o Opt(INT_LE) \o Opt(INT_LE))
  \o List(STR \o Rep(IF v < 898 THEN 1 ELSE 3, Named("exclusion", STR))
          \o Since(924, v, Named("family exclusion", STR)) \o H898!PresetTail)
Spline(v) ==
  IF v < 924 THEN SPLINE_INSTRUCTION_V898
  ELSE IF v < 944 THEN SPLINE_INSTRUCTION_V924 ELSE SPLINE_INSTRUCTION_V944
CameraInstructionAt(v) == CameraHead \o Opt(Spline(v))
CameraSpline(v) == List(STR \o Spline(v))
GraphicsOverride(v) ==
  H898!Keyframes \o Since(924, v, Opt(F("float value", FLOAT_LE)) \o Opt(F("vector value", VEC3)))

\* DataStore, BookEdit, Diagnostics, DebugDrawer, BiomeDefinitionList.
DataStoreValue(v) == H898!DataStoreValue \o Since(924, v, F("path updates", INT_LE))
DataStoreUpdates(v) ==
  List(Is("action", UVAR_INT, 0..2) \o When("action", {0}, DataStoreValue(v))
       \o When("action", {1}, STR \o STR \o INT_LE \o CHANGE_VALUE) \o When("action", {2}, STR))
BookEdit(v) ==
  LET page == F("page", IF v < 924 THEN VAR_INT ELSE BYTE)
  IN (IF v < 924 THEN F("slot", VAR_INT) \o Is("action", BYTE, 0..4)
      ELSE Is("action", BYTE, 0..4) \o F("slot", BYTE))
     \o When("action", {0, 1, 2}, page) \o When("action", {3}, page \o page) \o Rest
Diagnostics(v) ==
  Rep(9, FLOAT_LE) \o Since(924, v, Named("memory", H975!MemoryCategory))
  \o Since(975, v, Arr(H975!EntityDiagnostics) \o Arr(H975!SystemDiagnostics))
  \o Since(1001, v, F("scopes", Rest))
DebugDrawer(v) ==
  List(H898!ShapeCommon \o Since(924, v, Opt(F("attached", UVAR_INT64))) \o H898!ExtraShapeData)
\* v1001 has the surface of a biome last, in an optional of its own.
Surface ==
  Opt(Arr(BiomeElementData)) \o Opt(BiomeSurfaceMaterialData) \o Rep(4, BOOL)
  \o Opt(BiomeMesaSurfaceData) \o Opt(BiomeCappedSurfaceData)
BiomeDefinitionDataV1001 ==
  BiomeDefinitionData(
    Opt(BiomeClimateData) \o Opt(Arr(BiomeConsolidatedFeatureData)) \o Opt(BiomeMountainParamsData)
    \o Opt(BiomeOverworldGenRulesData) \o Opt(BiomeMultinoiseGenRulesData)
    \o Opt(BiomeLegacyWorldGenRulesData) \o Opt(BiomeReplacementData) \o VillageType \o Opt(Surface))
BiomeDefinitionList(v) ==
  List(USHORT_LE
       \o IF v < 924 THEN BiomeDefinitionDataV898
          ELSE IF v < 1001 THEN BiomeDefinitionDataV924 ELSE BiomeDefinitionDataV1001)
  \o Arr(STR)

\* The packets of block positions.
FirstPosition(v) == Position("position", v) \o Rest
LecternUpdate(v) == BYTE \o BYTE \o Position("position", v)
TileEvent(v) ==
  Position("position", v) \o Is("event type", VAR_INT, {0, 1})
  \o Is("event data", VAR_INT, {0, 16, 20, 25})
SetSpawnPosition(v) ==
  UVAR_INT \o Position("position", v) \o VAR_INT \o Position("spawn position", v)
AddVolumeEntity(v) ==
  UVAR_INT \o NAMED_COMPOUND_TAG \o STR \o STR \o Position("min", v) \o Position("max", v) \o Rest
ChangedBlocks(v) == Arr(Position("changed", v) \o UVAR_INT \o UVAR_INT \o UVAR_INT64 \o UVAR_INT)
UpdateSubChunkBlocks(v) == Position("position", v) \o ChangedBlocks(v) \o ChangedBlocks(v)
PlaySound(v) ==
  STR \o Position("position", v) \o FLOAT_LE \o FLOAT_LE
  \o Since(975, v, Opt(F("server sound handle", UINT64_LE)))
MapData(v) ==
  VAR_INT64 \o Is("types", UVAR_INT, {2, 4, 6, 8, 12}) \o BYTE \o BOOL \o BLOCK_POS
  \o When("types", H924!Creation, Arr(VAR_INT64)) \o BYTE
  \o When("types", H924!Decoration,
       Arr(Is("object type", INT_LE, {0, 1, 2}) \o When("object type", {0}, VAR_INT64)
           \o When("object type", {1}, Position("position", v))))
  \o Rest
UpdateClientInputLocks(v) == UVAR_INT \o Until(924, v, F("server position", VEC3))
ContainerOpen(v) == BYTE \o BYTE \o Position("position", v) \o VAR_INT64
PlayerAction(v) ==
  UVAR_INT64 \o UVAR_INT \o Position("position", v) \o Position("result", v) \o VAR_INT
StructureSettingsAt(v) == StructureSettings(IF v < 944 THEN UVAR_INT ELSE VAR_INT)
StructureBlockUpdate(v) ==
  Position("position", v) \o H924!StructureEditor \o StructureSettingsAt(v) \o Rest
StructureTemplate(v) == STR \o Position("position", v) \o StructureSettingsAt(v) \o BYTE
CommandBlockUpdate(v) ==
  Is("is_block", BOOL, {0, 1}) \o When("is_block", {1}, Position("position", v)) \o Rest
AnvilDamage(v) == BYTE \o Position("position", v)

\* Voxel shapes and the data-driven screens.
VoxelShapes(v) == Rest \o Since(944, v, F("custom shapes", USHORT_LE))
ShowScreen(v) == STR \o Since(944, v, F("form", INT_LE) \o Opt(F("data instance", INT_LE)))
CloseAllScreens(v) == Since(944, v, Opt(F("form", INT_LE)))

\* Items: from v975 on, air has all the fields of an item, of no value.
ItemSince975 ==
  Is("network_id", SHORT_LE, {0, 1})
  \o When("network_id", {0},
       Is("count", USHORT_LE, {0}) \o Is("aux_value", UVAR_INT, {0}) \o Is("has_net_id", BOOL, {0})
       \o Is("block_runtime_id", UVAR_INT, {0}) \o Is("user_data", USER_DATA, {0}))
  \o Unless("network_id", {0}, Tail(ITEM_INSTANCE_V975))
Item(first, v) == IF v < first THEN ITEM_INSTANCE ELSE ItemSince975

MobEquipment(v) ==
  LET number(x) == F(x, IF v < 975 THEN BYTE ELSE UVAR_INT)
  IN UVAR_INT64 \o Item(975, v) \o number("slot") \o number("selected") \o number("container")
InventorySlot(v) ==
  UVAR_INT \o UVAR_INT
  \o IF v < 975 THEN BYTE \o Opt(UINT_LE) \o ITEM_INSTANCE \o ITEM_INSTANCE
     ELSE Opt(BYTE \o Opt(UINT_LE)) \o Opt(ItemSince975) \o ItemSince975
InventoryContent(v) ==
  UVAR_INT \o Arr(Item(1001, v)) \o BYTE \o Opt(UINT_LE) \o Item(1001, v)
MobArmourEquipment(v) == UVAR_INT64 \o Rep(H975!ArmourSlots, Item(1001, v))

\* InventoryTransaction: v1001 says of each part whether it is present.
Present(v) == Since(1001, v, Is("?", BOOL, {1}))
Absent(v) == Since(1001, v, Is("?", BOOL, {0}))
ActionOf(v) ==
  Is("source_type", UVAR_INT, {0, 1, 2, 99999}) \o Present(v)
  \o When("source_type", H975!HasWindow,
       Present(v)
       \o IF v < 1001 THEN Is("window_id", VAR_INT, {-1, 1}) ELSE Is("window_id", INT8, {1, 255}))
  \o Unless("source_type", H975!HasWindow, Absent(v)) \o Present(v)
  \o When("source_type", H975!HasFlags, Present(v) \o F("source_flags", UVAR_INT))
  \o Unless("source_type", H975!HasFlags, Absent(v))
  \o F("slot", UVAR_INT) \o Item(1001, v) \o Item(1001, v)
TransactionData(v) ==
  LET action == F("action type", IF v < 1001 THEN UVAR_INT ELSE VAR_INT)
      small(x) == F(x, IF v < 1001 THEN UVAR_INT ELSE BYTE)
      face == IF v < 1001 THEN Is("face", VAR_INT, {-1, 1}) ELSE Is("face", INT8, {1, 255})
      hands == VAR_INT \o Item(1001, v)
  IN When("transaction_type", {2},
       action \o small("trigger") \o Position("position", v) \o face \o hands
       \o VEC3 \o VEC3 \o UVAR_INT \o small("prediction") \o Since(944, v, F("cooldown", BYTE)))
     \o When("transaction_type", {3}, UVAR_INT64 \o action \o hands \o VEC3 \o VEC3)
     \o When("transaction_type", {4}, action \o hands \o VEC3)
InventoryTransaction(v) ==
  Is("legacy_request_id", VAR_INT, {0, 2})
  \o When("legacy_request_id", {0}, Absent(v))
  \o Unless("legacy_request_id", {0}, Present(v) \o Arr(BYTE \o Counted(UVAR_INT, BYTE)))
  \o Present(v) \o Is("transaction_type", UVAR_INT, 0..4) \o Present(v)
  \o Arr(ActionOf(v)) \o TransactionData(v)

\* The other packets of v975.
LevelSoundEvent(v) ==
  (IF v < 1001 THEN Is("sound", UVAR_INT, {1, 391, 598, 599}) ELSE Is("sound", STR, {-1, 1, 601}))
  \o VEC3 \o VAR_INT \o STR \o BOOL \o BOOL \o INT64_LE \o Since(975, v, Opt(F("fire at", VEC3)))
ActorEvent(v) == UVAR_INT64 \o BYTE \o VAR_INT \o Since(975, v, Opt(F("fire at", VEC3)))
RecipeTypes == {0, 1} \cup 4..9
CraftingData(v) ==
  List(IF v < 975 THEN CRAFTING_DATA_ENTRY
       ELSE Is("entry type", VAR_INT, RecipeTypes) \o Only("entry type", RecipeTypes) \o EntryBody)
  \o Rest
PlayerEnchantOptions(v) ==
  List(Is("cost", IF v < 975 THEN UVAR_INT ELSE BYTE, IF v < 975 THEN {3, 300} ELSE {3, 255})
       \o INT_LE \o Rep(3, H944!Enchants) \o STR \o UVAR_INT)
LocatorBar(v) ==
  List(UUID \o UINT_LE \o Opt(BOOL) \o Opt(VEC3 \o VAR_INT)
       \o (IF v < 975 THEN Opt(F("texture id", UINT_LE))
           ELSE Opt(F("texture path", STR)) \o Opt(F("icon size", VEC2)))
       \o Opt(INT_LE) \o Opt(BOOL) \o Opt(VAR_INT64) \o UVAR_INT)
AttributeLayerSync(v) ==
  LET settings == IF v < 975 THEN ATTRIBUTE_LAYER_SETTINGS_V944 ELSE ATTRIBUTE_LAYER_SETTINGS_V975
  IN Is("payload", UVAR_INT, 0..3)
     \o When("payload", {0}, List(STR \o VAR_INT \o settings \o Arr(EnvironmentAttributeData)))
     \o When("payload", {1}, STR \o VAR_INT \o settings) \o When("payload", {2, 3}, Rest)
UpdateClientOptions(v) == Opt(BYTE) \o Since(975, v, Opt(F("filter profanity", BOOL)))
MovementPredictionSync(v) ==
  H944!BitSet[H944!MaxFlagBytes] \o Rep(9, FLOAT_LE) \o Since(975, v, F("new attributes", VEC3))
  \o VAR_INT64 \o BOOL
PartyChanged(v) ==
  Is("present", BOOL, {0, 1}) \o When("present", {1}, STR \o Since(975, v, F("leader", BOOL)))

\* The other packets of v1001.
\* A newer client sends only the boss events of a player.
BossEvent(v) ==
  IF v < 1001
  THEN F("boss", VAR_INT64) \o Is("event type", UVAR_INT, 0..8)
       \o When("event type", H975!WithTitle, H975!BossTitles)
       \o When("event type", H975!ForPlayer, F("player", VAR_INT64))
       \o When("event type", H975!WithHealth, F("health", FLOAT_LE))
       \o When("event type", H975!WithDarkening, F("darkening", USHORT_LE))
       \o When("event type", H975!WithColour, Is("colour", UVAR_INT, {1, 6}) \o F("overlay", UVAR_INT))
  ELSE F("boss", VAR_INT64) \o F("player", VAR_INT64) \o Is("event type", BYTE, H975!ForPlayer)
       \o Is("title", STR, {0}) \o Is("filtered title", STR, {0})
       \o Is("health", FLOAT_LE, {0}) \o Is("colour", BYTE, {0}) \o Is("overlay", BYTE, {0})
FullChunkData(v) ==
  VAR_INT \o VAR_INT \o VAR_INT
  \o Is("sub chunks", UVAR_INT, IF v < 1001 THEN {H975!Limited, H975!Limitless, 4} ELSE {H975!Limitless, 4})
  \o Until(975, v, When("sub chunks", {H975!Limited}, F("highest sub chunk", USHORT_LE))) \o Rest
ClientCacheBlobStatus(v) ==
  LET count(x) == Is(x, UVAR_INT, {0, 2})
      hashes(x, n) == Times(n, F(x, UINT64_LE))
  IN IF v < 1001
     THEN count("misses") \o count("hits") \o hashes("miss", "misses") \o hashes("hit", "hits")
     ELSE count("misses") \o hashes("miss", "misses") \o count("hits") \o hashes("hit", "hits")
SubChunkRequest(v) ==
  LET offsets(count) == Is("offsets", count, {0, 2}) \o Times("offsets", Rep(3, F("offset", INT8)))
  IN VAR_INT \o IF v < 1001 THEN H975!SubChunkPos(VAR_INT) \o offsets(UINT_LE)
                ELSE offsets(UVAR_INT) \o H975!SubChunkPos(INT_LE)
EditorNetwork(v) ==
  BOOL \o IF v < 944 THEN NAMED_COMPOUND_TAG ELSE F("editor", STR \o STR)

\* Every packet that some handler rewrites or drops, at the version v.
LayoutsAt(v) ==
  [ANIMATE |-> Animate(v), INTERACT |-> Interact(v), MOB_EFFECT |-> MobEffect(v),
   RESOURCE_PACK_STACK |-> ResourcePackStack(v), TEXT |-> Text(v), START_GAME |-> StartGame(v),
   LEGACY_TELEMETRY_EVENT |-> Event(v), AVAILABLE_COMMANDS |-> AvailableCommands(v),
   COMMAND_REQUEST |-> CommandRequest(v), COMMAND_OUTPUT |-> CommandOutput(v),
   CAMERA_AIM_ASSIST_PRESETS |-> CameraAimAssist(v), CAMERA_INSTRUCTION |-> CameraInstructionAt(v),
   CAMERA_SPLINE |-> CameraSpline(v), GRAPHICS_PARAMETER_OVERRIDE |-> GraphicsOverride(v),
   SERVERBOUND_DATA_STORE |-> DataStoreValue(v), CLIENTBOUND_DATA_STORE |-> DataStoreUpdates(v),
   BOOK_EDIT |-> BookEdit(v), SERVERBOUND_DIAGNOSTICS |-> Diagnostics(v),
   SERVER_SCRIPT_DEBUG_DRAWER |-> DebugDrawer(v), BIOME_DEFINITION_LIST |-> BiomeDefinitionList(v),
   UPDATE_BLOCK |-> FirstPosition(v), UPDATE_BLOCK_SYNCED |-> FirstPosition(v),
   OPEN_SIGN |-> FirstPosition(v), BLOCK_ACTOR_DATA |-> FirstPosition(v),
   LECTERN_UPDATE |-> LecternUpdate(v), TILE_EVENT |-> TileEvent(v),
   SET_SPAWN_POSITION |-> SetSpawnPosition(v), ADD_VOLUME_ENTITY |-> AddVolumeEntity(v),
   UPDATE_SUB_CHUNK_BLOCKS |-> UpdateSubChunkBlocks(v), PLAY_SOUND |-> PlaySound(v),
   MAP_DATA |-> MapData(v), PLAYER_CLIENT_INPUT_PERMISSIONS |-> UpdateClientInputLocks(v),
   CONTAINER_OPEN |-> ContainerOpen(v), PLAYER_ACTION |-> PlayerAction(v),
   STRUCTURE_BLOCK_UPDATE |-> StructureBlockUpdate(v),
   STRUCTURE_TEMPLATE_DATA_EXPORT_REQUEST |-> StructureTemplate(v),
   COMMAND_BLOCK_UPDATE |-> CommandBlockUpdate(v), ANVIL_DAMAGE |-> AnvilDamage(v),
   VOXEL_SHAPES |-> VoxelShapes(v), CLIENTBOUND_DATA_DRIVEN_UI_SHOW_SCREEN |-> ShowScreen(v),
   CLIENTBOUND_DATA_DRIVEN_UI_CLOSE_ALL_SCREENS |-> CloseAllScreens(v),
   PLAYER_EQUIPMENT |-> MobEquipment(v), INVENTORY_SLOT |-> InventorySlot(v),
   INVENTORY_CONTENT |-> InventoryContent(v), MOB_ARMOR_EQUIPMENT |-> MobArmourEquipment(v),
   INVENTORY_TRANSACTION |-> InventoryTransaction(v), LEVEL_SOUND_EVENT |-> LevelSoundEvent(v),
   ACTOR_EVENT |-> ActorEvent(v), CRAFTING_DATA |-> CraftingData(v),
   PLAYER_ENCHANT_OPTIONS |-> PlayerEnchantOptions(v), LOCATOR_BAR |-> LocatorBar(v),
   CLIENTBOUND_ATTRIBUTE_LAYER_SYNC |-> AttributeLayerSync(v),
   UPDATE_CLIENT_OPTIONS |-> UpdateClientOptions(v),
   CLIENT_MOVEMENT_PREDICTION_SYNC |-> MovementPredictionSync(v), PARTY_CHANGED |-> PartyChanged(v),
   BOSS_EVENT |-> BossEvent(v), FULL_CHUNK_DATA |-> FullChunkData(v),
   CLIENT_CACHE_BLOB_STATUS |-> ClientCacheBlobStatus(v), SUB_CHUNK_REQUEST |-> SubChunkRequest(v),
   EDITOR_NETWORK |-> EditorNetwork(v), CLIENTBOUND_DATA_DRIVEN_UI_RELOAD |-> Rest,
   CLIENTBOUND_TEXTURE_SHIFT |-> Rest, CAMERA_AIM_ASSIST_ACTOR_PRIORITY |-> Rest,
   RESOURCE_PACKS_READY_FOR_VALIDATION |-> Rest, SERVERBOUND_DATA_DRIVEN_SCREEN_CLOSED |-> Rest,
   SYNC_WORLD_CLOCKS |-> Rest, PARTY_DESTINATION_COOKIE_RESPONSE |-> Rest]

\* The first version that has a packet, for those that the oldest lacks.
Newcomers ==
  [v \in {898, 924, 944, 1001} |->
     CASE v = 898 -> {"SERVERBOUND_DATA_STORE", "CLIENTBOUND_DATA_STORE"}
       [] v = 924 -> {"CLIENTBOUND_DATA_DRIVEN_UI_SHOW_SCREEN",
                      "CLIENTBOUND_DATA_DRIVEN_UI_CLOSE_ALL_SCREENS",
                      "CLIENTBOUND_DATA_DRIVEN_UI_RELOAD", "CLIENTBOUND_TEXTURE_SHIFT",
                      "VOXEL_SHAPES", "CAMERA_SPLINE", "CAMERA_AIM_ASSIST_ACTOR_PRIORITY"}
       [] v = 944 -> {"RESOURCE_PACKS_READY_FOR_VALIDATION", "LOCATOR_BAR", "PARTY_CHANGED",
                      "SERVERBOUND_DATA_DRIVEN_SCREEN_CLOSED", "SYNC_WORLD_CLOCKS",
                      "CLIENTBOUND_ATTRIBUTE_LAYER_SYNC"}
       [] v = 1001 -> {"PARTY_DESTINATION_COOKIE_RESPONSE"}]
Kinds == DOMAIN LayoutsAt(860)
Has(v, kind) == \A first \in DOMAIN Newcomers : kind \in Newcomers[first] => first <= v

\* A version can read nothing as a packet it does not have.
Unknown(v) == {kind \in UNION {Newcomers[first] : first \in DOMAIN Newcomers} : ~ Has(v, kind)}
Layout ==
  [v \in {860, 898, 924, 944, 975, 1001} |->
     [kind \in Unknown(v) |-> Raise] @@ LayoutsAt(v)]
=============================================================================
