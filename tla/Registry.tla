------------------------------ MODULE Registry -----------------------------
(***************************************************************************)
(* The protocols the plugin registers (plugin.py, on_enable), each with    *)
(* the packets it rewrites and the packets it drops in either direction    *)
(* (the create_protocol of each protocol/v<server>_to_v<client>).          *)
(***************************************************************************)
EXTENDS Integers, Sequences

\* The packets that SoundRewriter.register and ActorEventRewriter.register add a handler for.
SoundRewriter == {"LEVEL_SOUND_EVENT", "SET_ACTOR_DATA", "ADD_ACTOR", "ADD_ITEM_ACTOR", "ADD_PLAYER"}
ActorEventRewriter == {"ACTOR_EVENT"}

create_v859_to_v860 ==
    [protocol |-> [server_protocol |-> 859, client_protocol |-> 860, name |-> "859->860"],
     handled |->   [SERVERBOUND |-> {},
                    CLIENTBOUND |-> {}],
     cancelled |-> [SERVERBOUND |-> {},
                    CLIENTBOUND |-> {}]]

create_v860_to_v859 ==
    [protocol |-> [server_protocol |-> 860, client_protocol |-> 859, name |-> "860->859"],
     handled |->   [SERVERBOUND |-> {},
                    CLIENTBOUND |-> {}],
     cancelled |-> [SERVERBOUND |-> {},
                    CLIENTBOUND |-> {}]]

create_v860_to_v898 ==
    [protocol |-> [server_protocol |-> 860, client_protocol |-> 898, name |-> "860->898"],
     handled |->   [SERVERBOUND |-> {"ANIMATE", "INTERACT", "COMMAND_REQUEST", "TEXT"},
                    CLIENTBOUND |-> {"ANIMATE", "MOB_EFFECT", "RESOURCE_PACK_STACK", "TEXT",
                                     "START_GAME", "LEGACY_TELEMETRY_EVENT", "AVAILABLE_COMMANDS",
                                     "COMMAND_OUTPUT", "CAMERA_AIM_ASSIST_PRESETS"} \cup SoundRewriter \cup ActorEventRewriter],
     cancelled |-> [SERVERBOUND |-> {"SERVERBOUND_DATA_STORE"},
                    CLIENTBOUND |-> {}]]

create_v898_to_v860 ==
    [protocol |-> [server_protocol |-> 898, client_protocol |-> 860, name |-> "898->860"],
     handled |->   [SERVERBOUND |-> {"ANIMATE", "INTERACT", "COMMAND_REQUEST", "TEXT"},
                    CLIENTBOUND |-> {"ANIMATE", "MOB_EFFECT", "RESOURCE_PACK_STACK", "TEXT",
                                     "START_GAME", "LEGACY_TELEMETRY_EVENT", "AVAILABLE_COMMANDS",
                                     "COMMAND_OUTPUT", "CAMERA_AIM_ASSIST_PRESETS"} \cup SoundRewriter \cup ActorEventRewriter],
     cancelled |-> [SERVERBOUND |-> {},
                    CLIENTBOUND |-> {"CLIENTBOUND_DATA_STORE"}]]

create_v898_to_v924 ==
    [protocol |-> [server_protocol |-> 898, client_protocol |-> 924, name |-> "898->924"],
     handled |->   [SERVERBOUND |-> {"TEXT", "SERVERBOUND_DATA_STORE", "BOOK_EDIT",
                                    "SERVERBOUND_DIAGNOSTICS"},
                    CLIENTBOUND |-> {"START_GAME", "TEXT", "CLIENTBOUND_DATA_STORE",
                                     "CAMERA_AIM_ASSIST_PRESETS", "GRAPHICS_PARAMETER_OVERRIDE",
                                     "CAMERA_INSTRUCTION", "BIOME_DEFINITION_LIST",
                                     "SERVER_SCRIPT_DEBUG_DRAWER"} \cup SoundRewriter],
     cancelled |-> [SERVERBOUND |-> {},
                    CLIENTBOUND |-> {}]]

create_v924_to_v898 ==
    [protocol |-> [server_protocol |-> 924, client_protocol |-> 898, name |-> "924->898"],
     handled |->   [SERVERBOUND |-> {"TEXT", "SERVERBOUND_DATA_STORE", "BOOK_EDIT",
                                    "SERVERBOUND_DIAGNOSTICS"},
                    CLIENTBOUND |-> {"START_GAME", "TEXT", "CLIENTBOUND_DATA_STORE",
                                     "CAMERA_AIM_ASSIST_PRESETS", "BIOME_DEFINITION_LIST",
                                     "GRAPHICS_PARAMETER_OVERRIDE", "CAMERA_INSTRUCTION",
                                     "SERVER_SCRIPT_DEBUG_DRAWER"} \cup SoundRewriter],
     cancelled |-> [SERVERBOUND |-> {},
                    CLIENTBOUND |-> {"CLIENTBOUND_DATA_DRIVEN_UI_SHOW_SCREEN",
                                    "CLIENTBOUND_DATA_DRIVEN_UI_CLOSE_ALL_SCREENS",
                                    "CLIENTBOUND_DATA_DRIVEN_UI_RELOAD",
                                    "CLIENTBOUND_TEXTURE_SHIFT", "VOXEL_SHAPES", "CAMERA_SPLINE",
                                    "CAMERA_AIM_ASSIST_ACTOR_PRIORITY"}]]

create_v924_to_v944 ==
    [protocol |-> [server_protocol |-> 924, client_protocol |-> 944, name |-> "924->944"],
     handled |->   [SERVERBOUND |-> {"LECTERN_UPDATE", "INVENTORY_TRANSACTION", "PLAYER_ACTION",
                                    "COMMAND_BLOCK_UPDATE", "STRUCTURE_BLOCK_UPDATE",
                                    "STRUCTURE_TEMPLATE_DATA_EXPORT_REQUEST", "BLOCK_ACTOR_DATA",
                                    "ANVIL_DAMAGE"},
                    CLIENTBOUND |-> {"START_GAME", "UPDATE_BLOCK", "TILE_EVENT",
                                     "SET_SPAWN_POSITION", "BLOCK_ACTOR_DATA",
                                     "UPDATE_BLOCK_SYNCED", "LECTERN_UPDATE", "ADD_VOLUME_ENTITY",
                                     "UPDATE_SUB_CHUNK_BLOCKS", "OPEN_SIGN", "PLAY_SOUND",
                                     "MAP_DATA", "PLAYER_CLIENT_INPUT_PERMISSIONS", "VOXEL_SHAPES",
                                     "CLIENTBOUND_DATA_DRIVEN_UI_SHOW_SCREEN",
                                     "CLIENTBOUND_DATA_DRIVEN_UI_CLOSE_ALL_SCREENS",
                                     "CAMERA_INSTRUCTION", "CAMERA_SPLINE", "CONTAINER_OPEN"} \cup SoundRewriter],
     cancelled |-> [SERVERBOUND |-> {"EDITOR_NETWORK", "RESOURCE_PACKS_READY_FOR_VALIDATION",
                                    "PARTY_CHANGED", "SERVERBOUND_DATA_DRIVEN_SCREEN_CLOSED"},
                    CLIENTBOUND |-> {"EDITOR_NETWORK"}]]

create_v944_to_v924 ==
    [protocol |-> [server_protocol |-> 944, client_protocol |-> 924, name |-> "944->924"],
     handled |->   [SERVERBOUND |-> {"LECTERN_UPDATE", "INVENTORY_TRANSACTION", "PLAYER_ACTION",
                                    "COMMAND_BLOCK_UPDATE", "STRUCTURE_BLOCK_UPDATE",
                                    "STRUCTURE_TEMPLATE_DATA_EXPORT_REQUEST", "BLOCK_ACTOR_DATA",
                                    "ANVIL_DAMAGE"},
                    CLIENTBOUND |-> {"START_GAME", "UPDATE_BLOCK", "TILE_EVENT",
                                     "SET_SPAWN_POSITION", "BLOCK_ACTOR_DATA",
                                     "UPDATE_BLOCK_SYNCED", "LECTERN_UPDATE", "ADD_VOLUME_ENTITY",
                                     "UPDATE_SUB_CHUNK_BLOCKS", "OPEN_SIGN", "PLAY_SOUND",
                                     "MAP_DATA", "PLAYER_CLIENT_INPUT_PERMISSIONS", "VOXEL_SHAPES",
                                     "CLIENTBOUND_DATA_DRIVEN_UI_SHOW_SCREEN",
                                     "CLIENTBOUND_DATA_DRIVEN_UI_CLOSE_ALL_SCREENS",
                                     "CAMERA_INSTRUCTION", "CAMERA_SPLINE", "CONTAINER_OPEN"} \cup SoundRewriter],
     cancelled |-> [SERVERBOUND |-> {"EDITOR_NETWORK"},
                    CLIENTBOUND |-> {"EDITOR_NETWORK", "LOCATOR_BAR", "SYNC_WORLD_CLOCKS",
                                    "CLIENTBOUND_ATTRIBUTE_LAYER_SYNC"}]]

create_v944_to_v975 ==
    [protocol |-> [server_protocol |-> 944, client_protocol |-> 975, name |-> "944->975"],
     handled |->   [SERVERBOUND |-> {"PLAYER_EQUIPMENT", "UPDATE_CLIENT_OPTIONS",
                                    "CLIENT_MOVEMENT_PREDICTION_SYNC", "ACTOR_EVENT", "PARTY_CHANGED"},
                    CLIENTBOUND |-> {"LEVEL_SOUND_EVENT", "START_GAME", "ACTOR_EVENT", "PLAY_SOUND",
                                     "INVENTORY_SLOT", "PLAYER_EQUIPMENT", "CRAFTING_DATA",
                                     "PLAYER_ENCHANT_OPTIONS", "LOCATOR_BAR",
                                     "CLIENTBOUND_ATTRIBUTE_LAYER_SYNC"} \cup SoundRewriter],
     cancelled |-> [SERVERBOUND |-> {"SERVERBOUND_DIAGNOSTICS"},
                    CLIENTBOUND |-> {"SERVER_SCRIPT_DEBUG_DRAWER"}]]

create_v975_to_v1001 ==
    [protocol |-> [server_protocol |-> 975, client_protocol |-> 1001, name |-> "v975_to_v1001"],
     handled |->   [SERVERBOUND |-> {"LEVEL_SOUND_EVENT", "INVENTORY_TRANSACTION",
                                    "CLIENT_CACHE_BLOB_STATUS", "SUB_CHUNK_REQUEST", "BOSS_EVENT",
                                    "SERVERBOUND_DIAGNOSTICS"},
                    CLIENTBOUND |-> {"START_GAME", "INVENTORY_CONTENT", "MOB_ARMOR_EQUIPMENT",
                                     "LEVEL_SOUND_EVENT", "BOSS_EVENT", "FULL_CHUNK_DATA",
                                     "INVENTORY_TRANSACTION"}],
     cancelled |-> [SERVERBOUND |-> {"PARTY_DESTINATION_COOKIE_RESPONSE"},
                    CLIENTBOUND |-> {}]]

\* In the order of registration.
Factories ==
    <<create_v859_to_v860, create_v860_to_v859, create_v860_to_v898, create_v898_to_v860,
      create_v898_to_v924, create_v924_to_v898, create_v924_to_v944, create_v944_to_v924,
      create_v944_to_v975, create_v975_to_v1001>>

RegisteredProtocols == {Factories[i].protocol : i \in 1 .. Len(Factories)}

FactoryOf(p) == CHOOSE f \in {Factories[i] : i \in 1 .. Len(Factories)} : f.protocol = p

HandledPackets == [p \in RegisteredProtocols |-> FactoryOf(p).handled]

CancelledPackets == [p \in RegisteredProtocols |-> FactoryOf(p).cancelled]

RegisteredVersions ==
    {p.server_protocol : p \in RegisteredProtocols} \cup {p.client_protocol : p \in RegisteredProtocols}
============================================================================
