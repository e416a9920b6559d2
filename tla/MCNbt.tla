------------------------------- MODULE MCNbt --------------------------------
EXTENDS Nbt

Of(enc, numbers) == {[enc |-> enc, n |-> n] : n \in numbers}
AnyTokens ==
  Of("byte", {0, 1, 7, 9, 10, 11, 13}) \cup Of("varint", {-1, 0, 1, 2}) \cup Of("string", {1, 2})

(***************************************************************************)
(* Tags of the game: of every type at every depth, the last one included.  *)
(***************************************************************************)
Single(id) == Tag(id, TAG_END, <<1>>)
Leaves ==
  {Single(id) : id \in DOMAIN Encoding}
  \cup {Tag(id, TAG_END, v) : id \in DOMAIN Element, v \in {<<>>, <<1, 2>>}}
  \cup {Tag(TAG_LIST, of, <<>>) : of \in {TAG_END, 1, TAG_COMPOUND}}
  \cup {Tag(TAG_COMPOUND, TAG_END, <<>>)}
Lists(S) == {Tag(TAG_LIST, t.id, <<t, t>>) : t \in S}
Compound(t, u) ==
  Tag(TAG_COMPOUND, TAG_END, <<[name |-> 2, tag |-> t], [name |-> 1, tag |-> u]>>)
Middle == Leaves \cup Lists(Leaves) \cup {Compound(t, Single(1)) : t \in Leaves}
MCGame == <<Middle, Leaves, {}>> @@ (0 :> {Compound(Single(3), t) : t \in Middle})
=============================================================================
