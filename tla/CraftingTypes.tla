---------------------------- MODULE CraftingTypes ----------------------------
(***************************************************************************)
(* codec/types/crafting.py: the entries of CraftingData.                   *)
(***************************************************************************)
EXTENDS GameTypes

ITEM_DESCRIPTOR ==
  Is("descriptor", BYTE, 0..5) \o Only("descriptor", 0..5)
  \o When("descriptor", {1},
       Is("item_id", SHORT_LE, {0, 1}) \o Unless("item_id", {0}, F("descriptor_aux", SHORT_LE)))
  \o When("descriptor", {2}, STR \o BYTE) \o When("descriptor", {3, 5}, STR)
  \o When("descriptor", {4}, STR \o SHORT_LE)
RECIPE_INGREDIENT == ITEM_DESCRIPTOR \o VAR_INT
RECIPE_UNLOCKING_REQUIREMENT ==
  Is("context", BYTE, 0..3) \o Only("context", 0..3)
  \o When("context", {0}, Arr(RECIPE_INGREDIENT))

RESULTS == Arr(NETWORK_ITEM_INSTANCE_DESCRIPTOR)
RecipeNetId == Is("recipe_net_id", UVAR_INT, {1, 3})

\* Width times height ingredients, of a recipe one wide and up to two high.
Grid ==
  Is("width", VAR_INT, {0, 1}) \o Is("height", VAR_INT, {1, 2})
  \o When("width", {1}, Times("height", RECIPE_INGREDIENT))

Recipe(ingredients, symmetry, requirement) ==
  STR \o ingredients \o RESULTS \o UUID \o F("recipe tag", STR) \o VAR_INT \o symmetry \o requirement
  \o RecipeNetId
SHAPELESS_RECIPE ==
  Recipe(Arr(RECIPE_INGREDIENT), <<>>, RECIPE_UNLOCKING_REQUIREMENT)
SHAPED_RECIPE == Recipe(Grid, BOOL, RECIPE_UNLOCKING_REQUIREMENT)
MULTI_RECIPE == UUID \o RecipeNetId
SHAPELESS_CHEMISTRY_RECIPE == Recipe(Arr(RECIPE_INGREDIENT), <<>>, <<>>)
SHAPED_CHEMISTRY_RECIPE == Recipe(Grid, BOOL, <<>>)
SMITHING_TRANSFORM_RECIPE ==
  STR \o Rep(3, RECIPE_INGREDIENT) \o NETWORK_ITEM_INSTANCE_DESCRIPTOR \o STR \o RecipeNetId
SMITHING_TRIM_RECIPE == STR \o Rep(3, RECIPE_INGREDIENT) \o STR \o RecipeNetId
FURNACE_RECIPE(data) == data \o NETWORK_ITEM_INSTANCE_DESCRIPTOR \o F("recipe tag", STR)

\* The body of an entry of each CraftingDataEntryType (RECIPE_CODECS).
EntryBody ==
  When("entry type", {0, 5}, SHAPELESS_RECIPE) \o When("entry type", {1}, SHAPED_RECIPE)
  \o When("entry type", {2}, FURNACE_RECIPE(Is("item_data", VAR_INT, {0, 1})))
  \o When("entry type", {3}, FURNACE_RECIPE(Is("item_data", VAR_INT, {0, 1}) \o F("item_aux", VAR_INT)))
  \o When("entry type", {4}, MULTI_RECIPE)
  \o When("entry type", {6}, SHAPELESS_CHEMISTRY_RECIPE)
  \o When("entry type", {7}, SHAPED_CHEMISTRY_RECIPE)
  \o When("entry type", {8}, SMITHING_TRANSFORM_RECIPE)
  \o When("entry type", {9}, SMITHING_TRIM_RECIPE)
CRAFTING_DATA_ENTRY ==
  Is("entry type", VAR_INT, 0..9) \o Only("entry type", 0..9) \o EntryBody
=============================================================================
