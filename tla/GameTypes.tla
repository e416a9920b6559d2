------------------------------ MODULE GameTypes ------------------------------
(***************************************************************************)
(* The compound types of codec/types that several packets share, each the  *)
(* sequence of its fields.  A field is named when a handler keeps it to    *)
(* write it in another place or form, or when versions differ in it.       *)
(***************************************************************************)
EXTENDS Primitives

\* gameplay.py.
GameRule ==
  STR \o BOOL \o Is("type_id", UVAR_INT, {1, 2, 3}) \o Only("type_id", {1, 2, 3})
  \o When("type_id", {1}, BOOL) \o When("type_id", {2}, VAR_INT)
  \o When("type_id", {3}, FLOAT_LE)
GAME_RULES == Arr(GameRule)
Experiments(count) == Counted(count, STR \o BOOL)
EXPERIMENTS_V860 == Experiments(INT_LE)
EXPERIMENTS == Experiments(UINT_LE)

\* level_settings.py: y_type is how the height of the spawn is written.
LevelSettings(y_type, experiments) ==
  F("settings to default_spawn_x",
    INT64_LE \o SHORT_LE \o STR \o Rep(3, VAR_INT) \o BOOL \o VAR_INT \o VAR_INT)
  \o F("default_spawn_y", y_type)
  \o F("settings to game_rules",
       VAR_INT \o BOOL \o VAR_INT \o BOOL \o BOOL \o VAR_INT \o VAR_INT \o BOOL \o STR
       \o FLOAT_LE \o FLOAT_LE \o Rep(3, BOOL) \o VAR_INT \o VAR_INT \o BOOL \o BOOL
       \o GAME_RULES)
  \o F("experiments", experiments)
  \o F("settings to the end",
       Rep(3, BOOL) \o VAR_INT \o INT_LE \o Rep(10, BOOL) \o STR \o INT_LE \o INT_LE
       \o BOOL \o STR \o STR \o Opt(BOOL) \o BYTE \o BOOL)
LEVEL_SETTINGS_V860 == LevelSettings(UVAR_INT, EXPERIMENTS_V860)
LEVEL_SETTINGS_V924 == LevelSettings(UVAR_INT, EXPERIMENTS)
LEVEL_SETTINGS_V944 == LevelSettings(VAR_INT, EXPERIMENTS)

\* The blocks of level settings and structures that differ in a position's
\* height name its three coordinates.
Pos(x, y_type) == F(x, VAR_INT) \o F(x \o " y", y_type) \o F(x \o " z", VAR_INT)

PosAs(x, from, to) == Read(Pos(x, from)) \o Write(Pos(x, to))

\* structure.py.
StructureSettings(y_type) ==
  F("palette and flags", STR \o Rep(3, BOOL)) \o Pos("size", y_type) \o Pos("offset", y_type)
  \o F("editor to pivot", VAR_INT64 \o Rep(3, BYTE) \o Rep(2, FLOAT_LE) \o UINT_LE \o VEC3)
STRUCTURE_SETTINGS_V924 == StructureSettings(UVAR_INT)
STRUCTURE_SETTINGS_V944 == StructureSettings(VAR_INT)

\* item.py: air (network id 0) is one field until v975, all of them from v975 on.
\* The user data is a length and that many bytes, as a string is.
USER_DATA == Field("string")
ItemV944(net_id) ==
  Is("network_id", VAR_INT, {0, 1})
  \o Unless("network_id", {0},
       F("count", USHORT_LE) \o F("aux_value", UVAR_INT) \o net_id
       \o F("block_runtime_id", VAR_INT) \o F("user_data", USER_DATA))
ITEM_INSTANCE ==
  ItemV944(Is("has_net_id", BOOL, {0, 1})
           \o When("has_net_id", {1}, F("stack_net_id", VAR_INT)))
NETWORK_ITEM_INSTANCE_DESCRIPTOR == ItemV944(<<>>)
ITEM_INSTANCE_V975 ==
  Is("network_id", SHORT_LE, {0, 1}) \o F("count", USHORT_LE) \o F("aux_value", UVAR_INT)
  \o Is("has_net_id", BOOL, {0, 1})
  \o When("has_net_id", {1},
       F("net_id_variant", UVAR_INT) \o F("stack_net_id", VAR_INT))
  \o F("block_runtime_id", UVAR_INT) \o F("user_data", USER_DATA)

\* An ItemInstance before it is read: the defaults of what it may lack.
ItemDefaults ==
  Let("count", "count", 0) \o Let("aux_value", "aux_value", 0)
  \o Let("has_net_id", "has_net_id", 0) \o Let("stack_net_id", "stack_net_id", 0)
  \o Let("net_id_variant", "net_id_variant", 0)
  \o Let("block_runtime_id", "block_runtime_id", 0) \o Let("user_data", "user_data", 0)

\* map() of an item to the form of the other version.
ItemToV975 == ItemDefaults \o Read(ITEM_INSTANCE) \o Write(ITEM_INSTANCE_V975)
ItemToV944 == ItemDefaults \o Read(ITEM_INSTANCE_V975) \o Write(ITEM_INSTANCE)

\* inventory.py; the source types CONTAINER_INVENTORY, WORLD_INTERACTION and
\* NON_IMPLEMENTED_FEATURE_TODO have a field of their own, the others none.
InventoryAction(item) ==
  Is("source_type", UVAR_INT, {0, 1, 2, 99999})
  \o When("source_type", {0, 99999}, Is("window_id", VAR_INT, {-1, 1}))
  \o When("source_type", {2}, F("source_flags", UVAR_INT))
  \o F("slot", UVAR_INT) \o item \o item
INVENTORY_ACTION == InventoryAction(ITEM_INSTANCE)

\* data_store.py: maps nest, here to the given depth.
ChangeValue[depth \in Nat] ==
  Is("change type", INT_LE, IF depth = 0 THEN {0, 1, 2, 4} ELSE {0, 1, 2, 4, 6})
  \o Only("change type", {0, 1, 2, 4, 6})
  \o When("change type", {1}, BOOL) \o When("change type", {2}, INT64_LE)
  \o When("change type", {4}, STR)
  \o IF depth = 0 THEN <<>>
     ELSE When("change type", {6}, Arr(STR \o ChangeValue[depth - 1]))
CHANGE_VALUE == ChangeValue[1]

\* actor_data.py; a compound tag is one token (its parts are in Nbt).
NAMED_COMPOUND_TAG == Field("compound tag")
ActorDataItem ==
  UVAR_INT \o Is("data type", UVAR_INT, 0..8) \o Only("data type", 0..8)
  \o When("data type", {0}, BYTE) \o When("data type", {1}, SHORT_LE)
  \o When("data type", {2}, VAR_INT) \o When("data type", {3}, FLOAT_LE)
  \o When("data type", {4}, STR) \o When("data type", {5}, NAMED_COMPOUND_TAG)
  \o When("data type", {6}, BLOCK_POS) \o When("data type", {7}, VAR_INT64)
  \o When("data type", {8}, VEC3)
ACTOR_DATA_LIST == Arr(ActorDataItem)

\* attribute_layer.py: until v975 the weight is tagged, and may be a string.
BoolAttributeData == BOOL \o Opt(STR)
FloatAttributeData == FLOAT_LE \o Opt(STR) \o Opt(FLOAT_LE) \o Opt(FLOAT_LE)
ColorAttributeData == STR \o Opt(STR)
AttributeData ==
  Is("kind", UVAR_INT, {0, 1, 2}) \o Only("kind", {0, 1, 2})
  \o When("kind", {0}, BoolAttributeData) \o When("kind", {1}, FloatAttributeData)
  \o When("kind", {2}, ColorAttributeData)
EnvironmentAttributeData ==
  STR \o Opt(AttributeData) \o AttributeData \o Opt(AttributeData)
  \o UINT_LE \o UINT_LE \o STR
LayerFlags == F("enabled", BOOL) \o F("transitions_paused", BOOL)
ATTRIBUTE_LAYER_SETTINGS_V944 ==
  F("priority", INT_LE) \o Is("weight type", UVAR_INT, {0, 1}) \o Only("weight type", {0, 1})
  \o When("weight type", {0}, F("weight", FLOAT_LE))
  \o When("weight type", {1}, F("string weight", STR)) \o LayerFlags
ATTRIBUTE_LAYER_SETTINGS_V975 ==
  F("priority", INT_LE) \o F("weight", FLOAT_LE) \o LayerFlags

\* camera.py: easing came with v924, the identifier with v944.
SplineHead == F("spline head", FLOAT_LE \o BYTE \o Arr(VEC3))
EASING == F("easing", INT_LE)
SplineFrames(easing) ==
  Arr(F("key frame", FLOAT_LE \o FLOAT_LE) \o easing)
  \o Arr(F("rotation frame", VEC3 \o FLOAT_LE) \o easing)
SPLINE_INSTRUCTION_V898 == SplineHead \o SplineFrames(<<>>)
SPLINE_INSTRUCTION_V924 == SplineHead \o SplineFrames(EASING)
SplineTail == F("spline_identifier", STR) \o F("load_from_json", BOOL)
SPLINE_INSTRUCTION_V944 == SPLINE_INSTRUCTION_V924 \o SplineTail
=============================================================================
