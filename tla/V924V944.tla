------------------------------ MODULE V924V944 -------------------------------
(***************************************************************************)
(* The packet handlers between v924 and v944: those of v924_to_v944 and of *)
(* v944_to_v924.  v944 writes the height of a block position as a signed   *)
(* number: a handler used both ways takes the position it rewrites, pos,   *)
(* or the height it reads, from, and the one it writes, to.                *)
(***************************************************************************)
EXTENDS StartGamePacket, CameraPacket

\* The height of a NETWORK_BLOCK_POS and of a BLOCK_POS; from one to the other.
Net == UVAR_INT
Block == VAR_INT
ToBlock(x) == PosAs(x, Net, Block)
ToNet(x) == PosAs(x, Block, Net)

\* block_pos.py.  The position is the first field; the rest is left to follow.
FirstPosToV944 == ToBlock("position")
FirstPosToV924 == ToNet("position")

LecternUpdate(pos) == Pass(BYTE \o BYTE) \o pos
LecternUpdateToV944 == LecternUpdate(ToBlock("position"))
LecternUpdateToV924 == LecternUpdate(ToNet("position"))

\* A note block plays an instrument, one of those below Instruments; v944 put
\* the trumpets before the heads.
NoteBlockEvent == 0
Trumpet == 16
TrumpetShift == 4
Instruments == 32
TileEvent(pos, instrument) ==
  pos \o Pass(F("event type", VAR_INT)) \o Read(F("event data", VAR_INT))
  \o When("event type", {NoteBlockEvent}, Through("event data", instrument))
  \o Write(F("event data", VAR_INT))
TileEventToV944 ==
  TileEvent(ToBlock("position"), [n \in Trumpet..Instruments |-> n + TrumpetShift])
TileEventToV924 ==
  TileEvent(ToNet("position"), [n \in (Trumpet + TrumpetShift)..Instruments |-> n - TrumpetShift])

SetSpawnPosition(from, to) ==
  Pass(UVAR_INT) \o PosAs("position", from, to)
  \o Pass(VAR_INT) \o PosAs("spawn position", from, to)
SetSpawnPositionToV944 == SetSpawnPosition(Net, Block)
SetSpawnPositionToV924 == SetSpawnPosition(Block, Net)

AddVolumeEntity(from, to) ==
  Pass(UVAR_INT \o NAMED_COMPOUND_TAG \o STR \o STR)
  \o PosAs("min", from, to) \o PosAs("max", from, to)
AddVolumeEntityToV944 == AddVolumeEntity(Net, Block)
AddVolumeEntityToV924 == AddVolumeEntity(Block, Net)

ChangedBlocks(from, to, list) ==
  Each(list, PosAs("changed", from, to)
             \o Pass(UVAR_INT \o UVAR_INT \o UVAR_INT64 \o UVAR_INT))
UpdateSubChunkBlocks(from, to) ==
  PosAs("position", from, to)
  \o ChangedBlocks(from, to, "standards") \o ChangedBlocks(from, to, "extras")
UpdateSubChunkBlocksToV944 == UpdateSubChunkBlocks(Net, Block)
UpdateSubChunkBlocksToV924 == UpdateSubChunkBlocks(Block, Net)

PlaySoundToV944 == Pass(STR) \o ToBlock("position")
PlaySoundToV924 == Pass(STR) \o ToNet("position")

\* The types of a map update are the bits of one number.
Texture == {2, 3, 6, 7, 10, 11, 14, 15}
Decoration == {4, 5, 6, 7, 12, 13, 14, 15}
Creation == 8..15
MapData(pos) ==
  Pass(VAR_INT64 \o F("types", UVAR_INT) \o BYTE \o BOOL \o BLOCK_POS)
  \o When("types", Creation, Pass(Arr(VAR_INT64)))
  \o When("types", Creation \cup Decoration \cup Texture, Pass(BYTE))
  \o When("types", Decoration,
       Each("objects",
         Pass(F("object type", INT_LE)) \o When("object type", {0}, Pass(VAR_INT64))
         \o When("object type", {1}, pos)))
MapDataToV944 == MapData(ToBlock("position"))
MapDataToV924 == MapData(ToNet("position"))

UpdateClientInputLocksToV944 == Pass(UVAR_INT) \o Read(VEC3)
UpdateClientInputLocksToV924 == Pass(UVAR_INT) \o Rep(3, New("server position", FLOAT_LE, 0))

ContainerOpenToV944 == Pass(BYTE \o BYTE) \o ToBlock("position")
ContainerOpenToV924 == Pass(BYTE \o BYTE) \o ToNet("position")

\* Only the use of an item has a position; v944 adds the cooldown at its end.
LegacySlots == Each("slots", Pass(BYTE \o Counted(UVAR_INT, BYTE)))
ItemUse == 2
InventoryTransaction(pos, cooldown) ==
  Pass(F("legacy_request_id", VAR_INT))
  \o Unless("legacy_request_id", {0}, LegacySlots)
  \o Pass(F("transaction_type", UVAR_INT)) \o Each("actions", Pass(INVENTORY_ACTION))
  \o When("transaction_type", {ItemUse},
       Pass(UVAR_INT \o UVAR_INT) \o pos \o Pass(VAR_INT \o VAR_INT \o ITEM_INSTANCE)
       \o Pass(VEC3 \o VEC3 \o UVAR_INT \o UVAR_INT) \o cooldown)
InventoryTransactionToV924 == InventoryTransaction(ToNet("position"), Read(BYTE))
InventoryTransactionToV944 == InventoryTransaction(ToBlock("position"), New("cooldown", BYTE, 0))

PlayerAction(from, to) ==
  Pass(UVAR_INT64 \o UVAR_INT) \o PosAs("position", from, to) \o PosAs("result", from, to)
PlayerActionToV924 == PlayerAction(Block, Net)
PlayerActionToV944 == PlayerAction(Net, Block)

StructureToV944 == Read(STRUCTURE_SETTINGS_V924) \o Write(STRUCTURE_SETTINGS_V944)
StructureToV924 == Read(STRUCTURE_SETTINGS_V944) \o Write(STRUCTURE_SETTINGS_V924)
StructureEditor == STR \o STR \o BOOL \o BOOL \o VAR_INT
StructureBlockUpdateToV924 == ToNet("position") \o Pass(StructureEditor) \o StructureToV924
StructureBlockUpdateToV944 == ToBlock("position") \o Pass(StructureEditor) \o StructureToV944
StructureTemplateToV924 == Pass(STR) \o ToNet("position") \o StructureToV924
StructureTemplateToV944 == Pass(STR) \o ToBlock("position") \o StructureToV944

CommandBlockUpdate(pos) == Pass(F("is_block", BOOL)) \o When("is_block", {1}, pos)
CommandBlockUpdateToV924 == CommandBlockUpdate(ToNet("position"))
CommandBlockUpdateToV944 == CommandBlockUpdate(ToBlock("position"))

AnvilDamageToV924 == Pass(BYTE) \o ToNet("position")
AnvilDamageToV944 == Pass(BYTE) \o ToBlock("position")

\* start_game.py: the join information is replaced by an empty one of the
\* other version's form.
StartGameBetween(from, to, join_info) ==
  Pass(StartGameHead(<<>>)) \o Read(from) \o Write(to) \o Pass(StartGameLevel) \o ResetChecksum
  \o Pass(StartGameFlags \o BOOL) \o Pass(F("join info", BOOL))
  \o When("join info", {1}, join_info)
StartGameToV944 ==
  StartGameBetween(LEVEL_SETTINGS_V924, LEVEL_SETTINGS_V944,
    Read(F("gathering", BOOL)) \o When("gathering", {1}, Rep(7, Read(STR)))
    \o New("gathering", BOOL, 0) \o New("store entry", BOOL, 0) \o New("presence", BOOL, 0))
StartGameToV924 ==
  StartGameBetween(LEVEL_SETTINGS_V944, LEVEL_SETTINGS_V924,
    Read(Rep(3, BOOL)) \o New("gathering", BOOL, 0))

\* voxel_shapes.py.
VoxelShapesToV944 == PassAll \o New("custom shapes", USHORT_LE, 0)
VoxelShapesToV924 == PassAllBut(USHORT_LE)

\* ddui.py and data_driven_ui.py.
ShowScreenToV944 == PassAll \o New("form", INT_LE, 0) \o None
ShowScreenToV924 == Pass(STR) \o Read(INT_LE \o Opt(INT_LE))
CloseAllScreensToV944 == PassAll \o None
CloseAllScreensToV924 == Read(Opt(INT_LE))

\* camera.py: v944 added the identifier of a spline, in both packets alike.
SplineToV944 ==
  Pass(SPLINE_INSTRUCTION_V924)
  \o New("spline_identifier", STR, 0) \o New("load_from_json", BOOL, 0)
SplineToV924 == Pass(SPLINE_INSTRUCTION_V924) \o Read(SplineTail)
CameraSplineToV944 == Each("splines", Pass(STR) \o SplineToV944)
CameraSplineToV924 == Each("splines", Pass(STR) \o SplineToV924)
CameraInstructionToV944 == CameraInstruction(SplineToV944)
CameraInstructionToV924 == CameraInstruction(SplineToV924)

\* The handlers of each protocol, by packet.
ClientboundToV944 ==
  [START_GAME |-> StartGameToV944, UPDATE_BLOCK |-> FirstPosToV944,
   TILE_EVENT |-> TileEventToV944, SET_SPAWN_POSITION |-> SetSpawnPositionToV944,
   BLOCK_ACTOR_DATA |-> FirstPosToV944, UPDATE_BLOCK_SYNCED |-> FirstPosToV944,
   LECTERN_UPDATE |-> LecternUpdateToV944, ADD_VOLUME_ENTITY |-> AddVolumeEntityToV944,
   UPDATE_SUB_CHUNK_BLOCKS |-> UpdateSubChunkBlocksToV944, OPEN_SIGN |-> FirstPosToV944,
   PLAY_SOUND |-> PlaySoundToV944, MAP_DATA |-> MapDataToV944,
   PLAYER_CLIENT_INPUT_PERMISSIONS |-> UpdateClientInputLocksToV944,
   VOXEL_SHAPES |-> VoxelShapesToV944,
   CLIENTBOUND_DATA_DRIVEN_UI_SHOW_SCREEN |-> ShowScreenToV944,
   CLIENTBOUND_DATA_DRIVEN_UI_CLOSE_ALL_SCREENS |-> CloseAllScreensToV944,
   CAMERA_INSTRUCTION |-> CameraInstructionToV944, CAMERA_SPLINE |-> CameraSplineToV944,
   CONTAINER_OPEN |-> ContainerOpenToV944, EDITOR_NETWORK |-> Cancel]
ServerboundToV924 ==
  [LECTERN_UPDATE |-> LecternUpdateToV924,
   INVENTORY_TRANSACTION |-> InventoryTransactionToV924, PLAYER_ACTION |-> PlayerActionToV924,
   COMMAND_BLOCK_UPDATE |-> CommandBlockUpdateToV924,
   STRUCTURE_BLOCK_UPDATE |-> StructureBlockUpdateToV924,
   STRUCTURE_TEMPLATE_DATA_EXPORT_REQUEST |-> StructureTemplateToV924,
   BLOCK_ACTOR_DATA |-> FirstPosToV924, ANVIL_DAMAGE |-> AnvilDamageToV924,
   EDITOR_NETWORK |-> Cancel, RESOURCE_PACKS_READY_FOR_VALIDATION |-> Cancel,
   PARTY_CHANGED |-> Cancel, SERVERBOUND_DATA_DRIVEN_SCREEN_CLOSED |-> Cancel]
ClientboundToV924 ==
  [START_GAME |-> StartGameToV924, UPDATE_BLOCK |-> FirstPosToV924,
   TILE_EVENT |-> TileEventToV924, SET_SPAWN_POSITION |-> SetSpawnPositionToV924,
   BLOCK_ACTOR_DATA |-> FirstPosToV924, UPDATE_BLOCK_SYNCED |-> FirstPosToV924,
   LECTERN_UPDATE |-> LecternUpdateToV924, ADD_VOLUME_ENTITY |-> AddVolumeEntityToV924,
   UPDATE_SUB_CHUNK_BLOCKS |-> UpdateSubChunkBlocksToV924, OPEN_SIGN |-> FirstPosToV924,
   PLAY_SOUND |-> PlaySoundToV924, MAP_DATA |-> MapDataToV924,
   PLAYER_CLIENT_INPUT_PERMISSIONS |-> UpdateClientInputLocksToV924,
   VOXEL_SHAPES |-> VoxelShapesToV924,
   CLIENTBOUND_DATA_DRIVEN_UI_SHOW_SCREEN |-> ShowScreenToV924,
   CLIENTBOUND_DATA_DRIVEN_UI_CLOSE_ALL_SCREENS |-> CloseAllScreensToV924,
   CAMERA_INSTRUCTION |-> CameraInstructionToV924, CAMERA_SPLINE |-> CameraSplineToV924,
   CONTAINER_OPEN |-> ContainerOpenToV924, EDITOR_NETWORK |-> Cancel, LOCATOR_BAR |-> Cancel,
   SYNC_WORLD_CLOCKS |-> Cancel, CLIENTBOUND_ATTRIBUTE_LAYER_SYNC |-> Cancel]
ServerboundToV944 ==
  [LECTERN_UPDATE |-> LecternUpdateToV944,
   INVENTORY_TRANSACTION |-> InventoryTransactionToV944, PLAYER_ACTION |-> PlayerActionToV944,
   COMMAND_BLOCK_UPDATE |-> CommandBlockUpdateToV944,
   STRUCTURE_BLOCK_UPDATE |-> StructureBlockUpdateToV944,
   STRUCTURE_TEMPLATE_DATA_EXPORT_REQUEST |-> StructureTemplateToV944,
   BLOCK_ACTOR_DATA |-> FirstPosToV944, ANVIL_DAMAGE |-> AnvilDamageToV944,
   EDITOR_NETWORK |-> Cancel]
=============================================================================
