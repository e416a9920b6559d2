------------------------------ MODULE V944V975 -------------------------------
(***************************************************************************)
(* The packet handlers of v944_to_v975, for an older server and a newer    *)
(* client.                                                                 *)
(***************************************************************************)
EXTENDS StartGamePacket, CraftingTypes

\* start_game.py.
StartGameToV975 ==
  Pass(StartGameHead(LEVEL_SETTINGS_V944) \o StartGameLevel) \o ResetChecksum \o PassAll

\* actor_event.py, play_sound.py, level_sound_event.py: v975 may place them.
ActorEventToV975 == PassAll \o None
ActorEventToV944 == Pass(UVAR_INT64 \o BYTE \o VAR_INT) \o Read(Opt(VEC3))
PlaySoundToV975 == PassAll \o None
\* The sounds that v975 added come before those of NewSounds.
FirstNewSound == 599
NewSounds == 2
LevelSoundEventToV975 ==
  Read(F("sound", UVAR_INT)) \o Through("sound", [n \in FirstNewSound..700 |-> n + NewSounds])
  \o Write(F("sound", UVAR_INT))
  \o Pass(VEC3 \o VAR_INT \o STR \o BOOL \o BOOL \o INT64_LE) \o None

\* item_stack.py.
MobEquipmentToV975 == Pass(UVAR_INT64) \o ItemToV975
  \o As("slot", BYTE, UVAR_INT) \o As("selected", BYTE, UVAR_INT) \o As("container", BYTE, UVAR_INT)
MobEquipmentToV944 == Pass(UVAR_INT64) \o ItemToV944
  \o As("slot", UVAR_INT, BYTE) \o As("selected", UVAR_INT, BYTE) \o As("container", UVAR_INT, BYTE)
InventorySlotToV975_FlagForgotten ==
  Pass(UVAR_INT \o UVAR_INT) \o New("?", BOOL, 1) \o Pass(BYTE \o Opt(UINT_LE))
  \o ItemDefaults \o Read(ITEM_INSTANCE)
  \o When("network_id", {0}, None) \o Unless("network_id", {0}, Write(ITEM_INSTANCE_V975))
  \o ItemToV975
InventorySlotToV975 ==
  Pass(UVAR_INT \o UVAR_INT) \o New("?", BOOL, 1) \o Pass(BYTE \o Opt(UINT_LE))
  \o ItemDefaults \o Read(ITEM_INSTANCE)
  \o When("network_id", {0}, None)
  \o Unless("network_id", {0}, New("?", BOOL, 1) \o Write(ITEM_INSTANCE_V975))
  \o ItemToV975

\* crafting_data.py: v975 has no furnace recipe, so each becomes a shapeless
\* one whose net id is none of the packet's.
Shapeless == 0
Furnace == 2
FurnaceAux == 3
AnyAux == 32767
FurnaceToShapeless(aux) ==
  Meant("item_data", "item_id")
  \o Read(F("result", NETWORK_ITEM_INSTANCE_DESCRIPTOR) \o F("recipe tag", STR))
  \o New("entry type", VAR_INT, Shapeless) \o New("", STR, 0)
  \o New("#", UVAR_INT, 1) \o New("descriptor", BYTE, 1) \o Write(F("item_data", SHORT_LE))
  \o Unless("item_data", {0}, aux) \o New("", VAR_INT, 0)
  \o New("#", UVAR_INT, 1) \o Write(F("result", NETWORK_ITEM_INSTANCE_DESCRIPTOR))
  \o Rep(2, New("", UINT64_LE, 0)) \o Write(F("recipe tag", STR)) \o New("", VAR_INT, 0)
  \o New("context", BYTE, 1) \o Write(F("next", UVAR_INT)) \o Plus("next", 1)
CraftingDataToV975_FromOne ==
  Let("next", "recipe_net_id", 1) \o Each("entries",
    Read(F("entry type", VAR_INT))
    \o When("entry type", {Furnace}, Read(F("item_data", VAR_INT))
         \o FurnaceToShapeless(New("descriptor_aux", SHORT_LE, AnyAux)))
    \o Unless("entry type", {Furnace}, Write(F("entry type", VAR_INT)) \o Pass(EntryBody)))
  \o PassAll
CraftingDataToV975 ==
  Let("next", "recipe_net_id", 0) \o Let("recipe_net_id", "recipe_net_id", 0)
  \o Ahead(Read(F("entries", UVAR_INT))
           \o Times("entries", Read(CRAFTING_DATA_ENTRY) \o AtLeast("next", "recipe_net_id")))
  \o Plus("next", 1)
  \o Each("entries",
       Read(F("entry type", VAR_INT))
       \o When("entry type", {Furnace}, Read(F("item_data", VAR_INT))
            \o FurnaceToShapeless(New("descriptor_aux", SHORT_LE, AnyAux)))
       \o When("entry type", {FurnaceAux}, Read(F("item_data", VAR_INT) \o F("item_aux", VAR_INT))
            \o Meant("item_aux", "descriptor_aux") \o FurnaceToShapeless(Write(F("item_aux", SHORT_LE))))
       \o Unless("entry type", {Furnace, FurnaceAux},
            Write(F("entry type", VAR_INT)) \o Pass(EntryBody)))
  \o PassAll

\* player_enchant_options.py: a cost that a byte cannot hold becomes the largest it can.
Enchants == Arr(BYTE \o BYTE)
PlayerEnchantOptionsToV975 ==
  Each("options",
    Read(F("cost", UVAR_INT)) \o Through("cost", [n \in 256..999 |-> 255]) \o Write(F("cost", BYTE))
    \o Pass(INT_LE \o Rep(3, Enchants) \o STR \o UVAR_INT))

\* locator_bar.py: the texture's number goes, its path and size are absent.
LocatorBarToV975 ==
  Each("waypoints",
    Pass(UUID \o UINT_LE \o Opt(BOOL) \o Opt(VEC3 \o VAR_INT)) \o Read(Opt(UINT_LE))
    \o None \o None \o Pass(Opt(INT_LE) \o Opt(BOOL) \o Opt(VAR_INT64) \o UVAR_INT))

\* clientbound_attribute_layer_sync.py.
LayerSettingsToV975 ==
  Let("weight", "weight", 0)
  \o Read(ATTRIBUTE_LAYER_SETTINGS_V944) \o Write(ATTRIBUTE_LAYER_SETTINGS_V975)
AttributeLayerSyncToV975 ==
  Pass(F("payload", UVAR_INT)) \o Only("payload", 0..3)
  \o When("payload", {0},
       Each("layers", Pass(STR \o VAR_INT) \o LayerSettingsToV975 \o Pass(Arr(EnvironmentAttributeData))))
  \o When("payload", {1}, Pass(STR \o VAR_INT) \o LayerSettingsToV975)
  \o When("payload", {2, 3}, PassAll)

\* update_client_options.py, party_changed.py.
UpdateClientOptionsToV944 == Pass(Opt(BYTE)) \o Read(Opt(BOOL))
PartyChangedToV944 ==
  Pass(F("present", BOOL)) \o When("present", {1}, Pass(STR) \o Read(BOOL))

\* client_movement_prediction_sync.py: flags seven to a byte, to the first
\* byte with its high bit clear; here of at most MaxFlagBytes + 1 bytes.
MaxFlagBytes == 2
BitSet[n \in Nat] ==
  Is("flags", BYTE, IF n = 0 THEN {1} ELSE {1, 129})
  \o When("flags", 128..255, IF n = 0 THEN Raise ELSE BitSet[n - 1])
ClientMovementPredictionSyncToV944 ==
  Pass(BitSet[MaxFlagBytes] \o Rep(9, FLOAT_LE)) \o Read(Rep(3, FLOAT_LE))
  \o Pass(VAR_INT64 \o BOOL)

\* The handlers by packet.
ClientboundToV975 ==
  [LEVEL_SOUND_EVENT |-> LevelSoundEventToV975, START_GAME |-> StartGameToV975,
   ACTOR_EVENT |-> ActorEventToV975, PLAY_SOUND |-> PlaySoundToV975,
   INVENTORY_SLOT |-> InventorySlotToV975, PLAYER_EQUIPMENT |-> MobEquipmentToV975,
   CRAFTING_DATA |-> CraftingDataToV975, PLAYER_ENCHANT_OPTIONS |-> PlayerEnchantOptionsToV975,
   LOCATOR_BAR |-> LocatorBarToV975,
   CLIENTBOUND_ATTRIBUTE_LAYER_SYNC |-> AttributeLayerSyncToV975,
   SERVER_SCRIPT_DEBUG_DRAWER |-> Cancel]
ServerboundToV944 ==
  [PLAYER_EQUIPMENT |-> MobEquipmentToV944, UPDATE_CLIENT_OPTIONS |-> UpdateClientOptionsToV944,
   CLIENT_MOVEMENT_PREDICTION_SYNC |-> ClientMovementPredictionSyncToV944,
   ACTOR_EVENT |-> ActorEventToV944, PARTY_CHANGED |-> PartyChangedToV944,
   SERVERBOUND_DIAGNOSTICS |-> Cancel]
=============================================================================
