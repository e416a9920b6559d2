---------------------------- MODULE CommandTypes -----------------------------
(***************************************************************************)
(* codec/types/commands.py.  v860 writes indices in the least width that   *)
(* holds the number of enum values; the widths here are ByteIndexes and    *)
(* ShortIndexes values (256 and 65536 in the code).  A label and the       *)
(* number it stands for are one value in two encodings.                    *)
(***************************************************************************)
EXTENDS Primitives

CONSTANTS ByteIndexes, ShortIndexes

ASSUME WidthsAssumption ==
  ByteIndexes \in Nat /\ ShortIndexes \in Nat /\ ByteIndexes < ShortIndexes

CommandParameter == STR \o INT_LE \o BOOL \o BYTE
COMMAND_OVERLOAD == BOOL \o Arr(CommandParameter)
SOFT_ENUM == STR \o Arr(STR)
COMMAND_CONSTRAINT == INT_LE \o INT_LE \o Arr(BYTE)

\* A list of a command: the count, then its elements one by one.
COMMAND_ENUM_V898 == F("enum name", STR) \o Counted(UVAR_INT, F("enum value", INT_LE))

\* make_command_enum_v860, for as many values as values_size holds.
CommandEnumV860 ==
  LET body(width) == F("enum name", STR) \o Counted(UVAR_INT, F("enum value", width))
  IN When("values_size", 0..ByteIndexes, body(BYTE))
     \o When("values_size", (ByteIndexes + 1)..ShortIndexes, body(USHORT_LE))
     \o When("values_size", (ShortIndexes + 1)..(ShortIndexes + 9), body(INT_LE))

CommandSubcommand(index) ==
  F("subcommand", STR) \o Counted(UVAR_INT, F("first", index) \o F("second", index))
COMMAND_SUBCOMMAND_V860 == CommandSubcommand(USHORT_LE)
COMMAND_SUBCOMMAND_V898 == CommandSubcommand(UVAR_INT)

CommandDefinition(permission, index) ==
  F("command", STR \o STR \o USHORT_LE)
  \o Is("permission", permission, 0..5) \o Only("permission", 0..5)
  \o F("alias_index", INT_LE) \o Counted(UVAR_INT, F("subcommand index", index))
  \o Arr(COMMAND_OVERLOAD)
COMMAND_DEFINITION_V860 == CommandDefinition(BYTE, USHORT_LE)
COMMAND_DEFINITION_V898 == CommandDefinition(STR, INT_LE)

\* CommandOrigin: v860 has the player only for TEST and AUTOMATION_PLAYER.
WithPlayer == {4, 5}
CommandOriginHead(origin_type) ==
  Is("origin_type", origin_type, {0, 3, 4, 5}) \o F("uuid", UUID) \o F("request_id", STR)
COMMAND_ORIGIN_V860 ==
  CommandOriginHead(UVAR_INT) \o When("origin_type", WithPlayer, F("player_id", VAR_INT64))
COMMAND_ORIGIN_V898 == CommandOriginHead(STR) \o F("player_id", INT64_LE)
=============================================================================
