------------------------------ MODULE V975V1001 ------------------------------
(***************************************************************************)
(* The packet handlers of v975_to_v1001, for an older server and a newer   *)
(* client.                                                                 *)
(***************************************************************************)
EXTENDS StartGamePacket

\* start_game.py.
StartGameToV1001 ==
  Pass(StartGameHead(LEVEL_SETTINGS_V944))
  \o New("editor policy", VAR_INT, 0) \o New("anonymous drops", BOOL, 0)
  \o Pass(StartGameLevel) \o ResetChecksum \o Pass(UUID \o Rep(3, BOOL))
  \o New("logging chat", BOOL, 0) \o PassAll

\* item_stack.py: two packets that kept the older item form until v1001.
ArmourSlots == 5
InventoryContentToV1001 ==
  Pass(UVAR_INT) \o Each("content", ItemToV975) \o Pass(BYTE \o Opt(UINT_LE)) \o ItemToV975
MobArmourEquipmentToV1001 == Pass(UVAR_INT64) \o Rep(ArmourSlots, ItemToV975)

\* level_sound_event.py: a number becomes a name; "" for one that has none,
\* and the first sound for a name of none.
Sounds == 0..700
Nameless == -1
NamedSounds == 0..600 \ ({378, 522, 535} \cup 391..425)
LevelSoundEventToV1001 ==
  Read(F("sound", UVAR_INT)) \o Through("sound", [n \in Sounds \ NamedSounds |-> Nameless])
  \o Write(F("sound", STR)) \o PassAll
LevelSoundEventToV975 ==
  Read(F("sound", STR)) \o Through("sound", [n \in (Sounds \cup {Nameless}) \ NamedSounds |-> 0])
  \o Write(F("sound", UVAR_INT)) \o PassAll

\* boss_event.py: v975 has the fields that the event type calls for, v1001
\* all of them always.  White is 6 at v975 and 7 at v1001.
ShowEvent == 0
ForPlayer == {1, 3, 8}
WithHealth == {0, 4}
WithTitle == {0, 5}
WithDarkening == {0, 6}
WithColour == {0, 6, 7}
BossTitles == F("title", STR) \o F("filtered title", STR)
BossStyle(T) == F("colour", T) \o F("overlay", T)
NoBossFields ==
  Let("player", "player", 0) \o Let("title", "title", 0) \o Let("filtered title", "filtered title", 0)
  \o Let("health", "health", 0) \o Let("colour", "colour", 0) \o Let("overlay", "overlay", 0)
BossEventToV1001 ==
  Read(F("boss", VAR_INT64) \o F("event type", UVAR_INT)) \o NoBossFields
  \o When("event type", WithTitle, Read(BossTitles))
  \o When("event type", ForPlayer, Read(F("player", VAR_INT64)))
  \o When("event type", WithHealth, Read(F("health", FLOAT_LE)))
  \o When("event type", WithDarkening, Read(USHORT_LE))
  \o When("event type", WithColour, Read(BossStyle(UVAR_INT)))
  \o AtEnd \o Through("colour", [n \in {6} |-> 7])
  \o Write(F("boss", VAR_INT64) \o F("player", VAR_INT64) \o F("event type", BYTE) \o BossTitles
           \o F("health", FLOAT_LE) \o BossStyle(BYTE))
BossEventToV975 ==
  Read(F("boss", VAR_INT64) \o F("player", VAR_INT64) \o F("event type", BYTE) \o BossTitles
       \o F("health", FLOAT_LE) \o BossStyle(BYTE))
  \o AtEnd \o Through("colour", [n \in {7} |-> 6])
  \o Write(F("boss", VAR_INT64) \o F("event type", UVAR_INT))
  \o When("event type", WithTitle, Write(BossTitles))
  \o When("event type", ForPlayer, Write(F("player", VAR_INT64)))
  \o When("event type", WithHealth, Write(F("health", FLOAT_LE)))
  \o When("event type", WithDarkening, New("darkening", USHORT_LE, 0))
  \o When("event type", WithColour, Write(BossStyle(UVAR_INT)))

\* level_chunk.py: the two modes that are no count, -2 and -1 of 32 bits.
Limited == -2
Limitless == -1
LevelChunkToV1001 ==
  Pass(VAR_INT \o VAR_INT \o VAR_INT) \o Read(F("sub chunks", UVAR_INT))
  \o When("sub chunks", {Limited}, Read(USHORT_LE))
  \o Through("sub chunks", [n \in {Limited} |-> Limitless])
  \o Write(F("sub chunks", UVAR_INT)) \o PassAll

\* inventory_transaction.py.  A signed byte is read with its sign.
SignExtended_Unsigned == [n \in {} |-> n]
SignExtended == [n \in 128..255 |-> n - 256]
HasWindow == {0, 99999}
HasFlags == {2}
ActionToV975 ==
  Read(F("source_type", UVAR_INT) \o BOOL \o F("has window", BOOL)
       \o When("has window", {1}, F("window_id", INT8)) \o BOOL \o F("has flags", BOOL)
       \o When("has flags", {1}, F("source_flags", UVAR_INT)) \o F("slot", UVAR_INT))
  \o When("has window", {1}, Through("window_id", SignExtended))
  \o When("source_type", HasWindow, When("has window", {0}, Raise))
  \o When("source_type", HasFlags, When("has flags", {0}, Raise))
  \o Write(F("source_type", UVAR_INT) \o When("source_type", HasWindow, F("window_id", VAR_INT))
           \o When("source_type", HasFlags, F("source_flags", UVAR_INT)) \o F("slot", UVAR_INT))
  \o ItemToV944 \o ItemToV944
ActionToV1001 ==
  Read(F("source_type", UVAR_INT) \o When("source_type", HasWindow, F("window_id", VAR_INT))
       \o When("source_type", HasFlags, F("source_flags", UVAR_INT)) \o F("slot", UVAR_INT))
  \o Write(F("source_type", UVAR_INT)) \o New("?", BOOL, 1)
  \o When("source_type", HasWindow, New("?", BOOL, 1) \o Write(F("window_id", INT8)))
  \o Unless("source_type", HasWindow, None) \o New("?", BOOL, 1)
  \o When("source_type", HasFlags, New("?", BOOL, 1) \o Write(F("source_flags", UVAR_INT)))
  \o Unless("source_type", HasFlags, None) \o Write(F("slot", UVAR_INT))
  \o ItemToV975 \o ItemToV975

\* The data of each transaction type, from the types of one version to another's.
Hands(item) == Pass(VAR_INT) \o item
UseItem(action, action1, byte, byte1, face, item) ==
  As("action type", action, action1) \o As("trigger", byte, byte1) \o Pass(BLOCK_POS) \o face
  \o Hands(item) \o Pass(VEC3 \o VEC3 \o UVAR_INT) \o As("prediction", byte, byte1) \o Pass(BYTE)
UseItemToV975 ==
  UseItem(VAR_INT, UVAR_INT, BYTE, UVAR_INT,
    Read(F("face", INT8)) \o Through("face", SignExtended) \o Write(F("face", VAR_INT)), ItemToV944)
UseItemToV1001 ==
  UseItem(UVAR_INT, VAR_INT, UVAR_INT, BYTE, As("face", VAR_INT, INT8), ItemToV975)
UseItemOnEntityToV975 ==
  Pass(UVAR_INT64) \o As("action type", VAR_INT, UVAR_INT) \o Hands(ItemToV944) \o Pass(VEC3 \o VEC3)
UseItemOnEntityToV1001 ==
  Pass(UVAR_INT64) \o As("action type", UVAR_INT, VAR_INT) \o Hands(ItemToV975) \o Pass(VEC3 \o VEC3)
ReleaseItemToV975 == As("action type", VAR_INT, UVAR_INT) \o Hands(ItemToV944) \o Pass(VEC3)
ReleaseItemToV1001 == As("action type", UVAR_INT, VAR_INT) \o Hands(ItemToV975) \o Pass(VEC3)

LegacySlots == Each("slots", Pass(BYTE \o Counted(UVAR_INT, BYTE)))
InventoryTransactionToV975 ==
  Pass(VAR_INT) \o Read(F("has legacy", BOOL)) \o When("has legacy", {1}, LegacySlots)
  \o Read(BOOL) \o Pass(F("transaction_type", UVAR_INT)) \o Read(BOOL)
  \o Each("actions", ActionToV975)
  \o When("transaction_type", {2}, UseItemToV975)
  \o When("transaction_type", {3}, UseItemOnEntityToV975)
  \o When("transaction_type", {4}, ReleaseItemToV975)
InventoryTransactionToV1001 ==
  Pass(F("legacy_request_id", VAR_INT))
  \o When("legacy_request_id", {0}, None)
  \o Unless("legacy_request_id", {0}, New("?", BOOL, 1) \o LegacySlots)
  \o New("?", BOOL, 1) \o Pass(F("transaction_type", UVAR_INT)) \o New("?", BOOL, 1)
  \o Each("actions", ActionToV1001)
  \o When("transaction_type", {2}, UseItemToV1001)
  \o When("transaction_type", {3}, UseItemOnEntityToV1001)
  \o When("transaction_type", {4}, ReleaseItemToV1001)

\* client_cache_blob_status.py and sub_chunk_request.py: lists moved whole.
Hashes(x, count) == F(x, Times(count, F(x, UINT64_LE)))
Misses == F("misses", UVAR_INT)
Hits == F("hits", UVAR_INT)
ClientCacheBlobStatusToV975 ==
  Read(Misses \o Hashes("miss", "misses") \o Hits \o Hashes("hit", "hits"))
  \o Write(Misses \o Hits \o Hashes("miss", "misses") \o Hashes("hit", "hits"))
Offsets == F("offset", Times("offsets", Rep(3, F("offset", INT8))))
SubChunkPos(T) == F("x", T) \o F("y", T) \o F("z", T)
SubChunkRequestToV975 ==
  Pass(VAR_INT) \o Read(F("offsets", UVAR_INT) \o Offsets \o SubChunkPos(INT_LE))
  \o Write(SubChunkPos(VAR_INT) \o F("offsets", UINT_LE) \o Offsets)

\* diagnostics.py.
MemoryCategory == BYTE \o INT64_LE
EntityDiagnostics == STR \o STR \o INT64_LE \o BYTE
SystemDiagnostics == STR \o INT64_LE \o INT64_LE \o BYTE
DiagnosticsToV975 ==
  Pass(Rep(9, FLOAT_LE) \o Arr(MemoryCategory) \o Arr(EntityDiagnostics) \o Arr(SystemDiagnostics))
  \o DropAll

\* The handlers by packet.
ClientboundToV1001 ==
  [START_GAME |-> StartGameToV1001, INVENTORY_CONTENT |-> InventoryContentToV1001,
   MOB_ARMOR_EQUIPMENT |-> MobArmourEquipmentToV1001, LEVEL_SOUND_EVENT |-> LevelSoundEventToV1001,
   BOSS_EVENT |-> BossEventToV1001, FULL_CHUNK_DATA |-> LevelChunkToV1001,
   INVENTORY_TRANSACTION |-> InventoryTransactionToV1001]
ServerboundToV975 ==
  [LEVEL_SOUND_EVENT |-> LevelSoundEventToV975,
   INVENTORY_TRANSACTION |-> InventoryTransactionToV975,
   CLIENT_CACHE_BLOB_STATUS |-> ClientCacheBlobStatusToV975,
   SUB_CHUNK_REQUEST |-> SubChunkRequestToV975, BOSS_EVENT |-> BossEventToV975,
   SERVERBOUND_DIAGNOSTICS |-> DiagnosticsToV975,
   PARTY_DESTINATION_COOKIE_RESPONSE |-> Cancel]
=============================================================================
