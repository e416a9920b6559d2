----------------------------- MODULE Primitives ------------------------------
(***************************************************************************)
(* The field types of codec/types/primitives.py and gameplay.py, by what   *)
(* they put on the wire: types of one width and form are the same          *)
(* encoding, whatever Python value they make of it.                        *)
(***************************************************************************)
EXTENDS PacketWrapper

BYTE == Field("b1")
INT8 == Field("b1")
BOOL == Field("b1")
SHORT_LE == Field("b2")
USHORT_LE == Field("b2")
INT_LE == Field("b4")
INT_BE == Field("b4 big-endian")
UINT_LE == Field("b4")
FLOAT_LE == Field("b4")
INT64_LE == Field("b8")
UINT64_LE == Field("b8")
DOUBLE_LE == Field("b8")
VAR_INT == Field("varint")
UVAR_INT == Field("uvarint")
VAR_INT64 == Field("varint64")
UVAR_INT64 == Field("uvarint64")
STR == Field("string")

\* The part of a packet that no handler reads, one token of unknown bytes.
REMAINING_BYTES == Field("bytes")

NETWORK_BLOCK_POS == VAR_INT \o UVAR_INT \o VAR_INT
BLOCK_POS == VAR_INT \o VAR_INT \o VAR_INT
VEC3 == FLOAT_LE \o FLOAT_LE \o FLOAT_LE
VEC2 == FLOAT_LE \o FLOAT_LE
UUID == UINT64_LE \o UINT64_LE

\* OptionalType, ArrayType: a flag or a count, then the values it announces.
Opt(T) == Is("?", BOOL, {0, 1}) \o When("?", {1}, T)
Counted(count, T) == Is("#", count, {0, 2}) \o Times("#", T)
Arr(T) == Counted(UVAR_INT, T)

\* T repeated n times, as a handler or a type writes it out.
Rep(n, T) == [k \in 1..(n * Len(T)) |-> T[((k - 1) % Len(T)) + 1]]

\* A list whose elements a handler treats one by one: its count, kept in x,
\* and the steps of each element.
Each(x, elements) == Pass(F(x, UVAR_INT)) \o Times(x, elements)

\* Optional absent, and empty list, as a handler writes them.
None == New("?", BOOL, 0)
Empty == New("#", UVAR_INT, 0)
=============================================================================
