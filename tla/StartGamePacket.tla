--------------------------- MODULE StartGamePacket ---------------------------
(***************************************************************************)
(* The parts of StartGame that the handlers of every version pass alike.   *)
(***************************************************************************)
EXTENDS GameTypes

\* The entity ids to the rotation, then the level settings of one version.
StartGameHead(level_settings) ==
  VAR_INT64 \o UVAR_INT64 \o VAR_INT \o VEC3 \o VEC2 \o level_settings

\* The level id to the player property data.
StartGameLevel ==
  Rep(3, STR) \o BOOL \o VAR_INT \o BOOL \o INT64_LE \o VAR_INT
  \o Arr(STR \o NAMED_COMPOUND_TAG) \o STR \o BOOL \o STR \o NAMED_COMPOUND_TAG

\* The checksum of the block types, zeroed so that the client skips its check.
ResetChecksum == Read(INT64_LE) \o New("checksum", INT64_LE, 0)

\* The template id, client-side generation, hashed block ids.
StartGameFlags == INT64_LE \o INT64_LE \o BOOL \o BOOL
=============================================================================
