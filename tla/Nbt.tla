--------------------------------- MODULE Nbt ---------------------------------
(***************************************************************************)
(* Compound tags (codec/types/nbt.py).  Every protocol that passes a tag   *)
(* reads it into Python objects and writes those anew.  The first one      *)
(* reads what a sender wrote, which is a tag of the game or anything else; *)
(* from then on each writes what it has read, and the next one reads that, *)
(* a token at a time: what is between two protocols is a queue, and the    *)
(* reader takes each token at once.                                        *)
(*                                                                         *)
(* A token is a primitive value, [enc, n], or one byte of a byte array.  A *)
(* reader that meets a token of another encoding than it expects misreads  *)
(* the packet: it fails.  A tag is a record of its type number, of the     *)
(* elements' type number for a list, and of what it holds: its value, its  *)
(* elements, or the [name, tag] entries of a compound in the order of      *)
(* their dict.                                                             *)
(*                                                                         *)
(* _read_value and _write_value call themselves: what they are in the      *)
(* middle of is kept in frames and path, the outermost call first.         *)
(***************************************************************************)
EXTENDS Integers, SequencesExt

CONSTANTS
  MaxDepth,  \* _MAX_DEPTH
  Game,      \* the tags of the game, at each depth of their nesting
  Tokens,    \* what any other sender may send
  MaxTokens  \* how many of them, for one tag

ASSUME MaxDepthAssumption == MaxDepth \in Nat
ASSUME TokensAssumption == Tokens \subseteq [enc : STRING, n : Int]
ASSUME MaxTokensAssumption == MaxTokens \in Nat

VARIABLES
  named,     \* whether the tag is of NAMED_COMPOUND_TAG or of COMPOUND_TAG
  doing,     \* what the reader does next
  type,      \* the type of the value that it is about to read
  frames,    \* the values it is in the middle of
  result,    \* what read_nbt has returned
  writing,   \* what the writer does next; "none" while any sender writes
  path,      \* the values the writer is in the middle of
  origin,    \* the tag of the game, or what the first protocol has read
  received   \* the number of tokens of the sender
vars == <<named, doing, type, frames, result, writing, path, origin, received>>
reader == <<doing, type, frames, result>>
writer == <<writing, path>>

TAG_END == 0
TAG_BYTE_ARRAY == 7
TAG_LIST == 9
TAG_COMPOUND == 10
TAG_INT_ARRAY == 11
TAG_LONG_ARRAY == 12
\* The tags that are one value, and the types of an array's elements.
Encoding ==
  [t \in {1, 2, 3, 4, 5, 6, 8} |->
     <<"byte", "short", "varint", "varint64", "float", "double", "", "string">>[t]]
Element ==
  [t \in {TAG_BYTE_ARRAY, TAG_INT_ARRAY, TAG_LONG_ARRAY} |->
     CASE t = TAG_BYTE_ARRAY -> 1 [] t = TAG_INT_ARRAY -> 3 [] OTHER -> 4]
Types == DOMAIN Encoding \cup DOMAIN Element \cup {TAG_LIST, TAG_COMPOUND}

Tag(id, of, v) == [id |-> id, of |-> of, v |-> v]

\* An absent tag.
None == Tag(TAG_END, TAG_END, <<>>)

Entries(S) == Seq([name : Int, tag : S])
Distinct(entries) == \A j, k \in 1..Len(entries) : entries[j].name = entries[k].name => j = k

\* v is what a value of type id holds, if S has what is inside it.
Content(id, of, v, S) ==
  /\ of \in Int
  /\ id # TAG_LIST => of = TAG_END
  /\ id \in DOMAIN Encoding => v \in Seq(Int) /\ Len(v) = 1
  /\ id \in DOMAIN Element => v \in Seq(Int)
  /\ id = TAG_LIST => /\ v \in Seq(S) /\ (v # <<>> => of # TAG_END)
                      /\ \A k \in 1..Len(v) : v[k].id = of
  /\ id = TAG_COMPOUND => v \in Entries(S) /\ Distinct(v)
Formed(t, S) == t = Tag(t.id, t.of, t.v) /\ t.id \in Types /\ Content(t.id, t.of, t.v, S)

\* U[d] are tags at depth d, what is inside them is in U[d + 1], and nothing
\* is deeper than the limit.
Sound(U) ==
  /\ U[MaxDepth + 1] = {}
  /\ \A d \in 0..MaxDepth : \A t \in U[d] : Formed(t, U[d + 1])
ASSUME GameAssumption == Game = [d \in 0..(MaxDepth + 1) |-> Game[d]] /\ Sound(Game)
GameTags == {None} \cup {t \in Game[0] : t.id = TAG_COMPOUND}

(***************************************************************************)
(* Reading.  A frame is a call of _read_value for a list, a compound or an *)
(* array: the elements' type, how many are left, what was read, and the    *)
(* name of the entry that is read now.                                     *)
(***************************************************************************)
Frame(id, of, left) == [id |-> id, of |-> of, left |-> left, got |-> <<>>, name |-> 0]

\* entries[name] = tag
Put(entries, name, tag) ==
  IF \E k \in 1..Len(entries) : entries[k].name = name
  THEN [k \in 1..Len(entries) |->
          IF entries[k].name = name THEN [name |-> name, tag |-> tag] ELSE entries[k]]
  ELSE Append(entries, [name |-> name, tag |-> tag])

\* Faulty variants: one level more, or one less, is accepted.
TooDeep_Late(depth) == depth > MaxDepth + 1
TooDeep_Early(depth) == depth >= MaxDepth
TooDeep(depth) == depth > MaxDepth

Fail == doing' = "failed" /\ frames' = <<>> /\ UNCHANGED <<type, result>>

\* _read_value is called for a value of type t, inside fs.
Begin(fs, t) ==
  IF TooDeep(Len(fs)) \/ t \notin Types THEN Fail
  ELSE /\ doing' = IF t = TAG_COMPOUND THEN "entry" ELSE "value"
       /\ frames' = IF t = TAG_COMPOUND THEN Append(fs, Frame(t, TAG_END, 0)) ELSE fs
       /\ type' = t /\ UNCHANGED result

\* A value was read inside f.
Added(f, v) ==
  IF f.id = TAG_COMPOUND THEN [f EXCEPT !.got = Put(@, f.name, v)]
  ELSE [f EXCEPT !.got = Append(@, v), !.left = @ - 1]

\* _read_value returns a tag to its caller, or read_nbt does.
Deliver(fs, tag) ==
  IF fs = <<>> THEN doing' = "done" /\ frames' = fs /\ result' = tag /\ UNCHANGED type
  ELSE /\ doing' = IF Last(fs).id = TAG_COMPOUND THEN "entry" ELSE "next"
       /\ frames' = [fs EXCEPT ![Len(fs)] = Added(@, tag)]
       /\ UNCHANGED <<type, result>>

ReadRoot(n) ==
  /\ doing = "root"
  /\ \/ n = TAG_END /\ Deliver(<<>>, None)
     \/ /\ n = TAG_COMPOUND
        /\ doing' = IF named THEN "rootname" ELSE "entry"
        /\ frames' = <<Frame(TAG_COMPOUND, TAG_END, 0)>> /\ UNCHANGED <<type, result>>
     \/ n \notin {TAG_END, TAG_COMPOUND} /\ Fail

\* The name of the root is read and forgotten.
ReadRootName == doing = "rootname" /\ doing' = "entry" /\ UNCHANGED <<type, frames, result>>

\* The loop of a compound.
ReadEntry(n) ==
  /\ doing = "entry"
  /\ \/ n = TAG_END /\ Deliver(Front(frames), Tag(TAG_COMPOUND, TAG_END, Last(frames).got))
     \/ n # TAG_END /\ doing' = "name" /\ type' = n /\ UNCHANGED <<frames, result>>

ReadName(n) == doing = "name" /\ Begin([frames EXCEPT ![Len(frames)].name = n], type)

ReadValue(n) ==
  /\ doing = "value"
  /\ \/ type \in DOMAIN Encoding /\ Deliver(frames, Tag(type, TAG_END, <<n>>))
     \/ /\ type \in DOMAIN Element /\ (type = TAG_BYTE_ARRAY => n >= 0)
        /\ doing' = "next" /\ frames' = Append(frames, Frame(type, TAG_END, n))
        /\ UNCHANGED <<type, result>>
     \/ type = TAG_BYTE_ARRAY /\ n < 0 /\ Fail
     \/ /\ type = TAG_LIST
        /\ doing' = "count" /\ frames' = Append(frames, Frame(type, n, 0))
        /\ UNCHANGED <<type, result>>

\* A list of END has no elements, whatever its count.
ReadCount(n) ==
  /\ doing = "count" /\ doing' = "next"
  /\ frames' = [frames EXCEPT ![Len(frames)].left = IF Last(frames).of = TAG_END THEN 0 ELSE n]
  /\ UNCHANGED <<type, result>>

ReadElement(n) ==
  /\ doing = "element" /\ doing' = "next"
  /\ frames' = [frames EXCEPT ![Len(frames)] = Added(@, n)]
  /\ UNCHANGED <<type, result>>

\* The loop of a list or an array.
ReadNext ==
  \/ Last(frames).left <= 0
     /\ Deliver(Front(frames), Tag(Last(frames).id, Last(frames).of, Last(frames).got))
  \/ Last(frames).left > 0 /\ Last(frames).id = TAG_LIST /\ Begin(frames, Last(frames).of)
  \/ /\ Last(frames).left > 0 /\ Last(frames).id # TAG_LIST
     /\ doing' = "element" /\ UNCHANGED <<type, frames, result>>

\* The encoding of the token that the reader waits for.
Expected ==
  CASE doing \in {"root", "entry"} -> "byte"
    [] doing \in {"rootname", "name"} -> "string"
    [] doing = "value" -> IF type \in DOMAIN Encoding THEN Encoding[type]
                          ELSE IF type = TAG_LIST THEN "byte" ELSE "varint"
    [] doing = "count" -> "varint"
    [] doing = "element" -> Encoding[Element[Last(frames).id]]

Waiting == doing \notin {"next", "done", "failed"}

\* The reader takes a token.
Take(enc, n) ==
  /\ Waiting
  /\ \/ enc # Expected /\ Fail
     \/ /\ enc = Expected
        /\ \/ ReadRoot(n) \/ ReadRootName \/ ReadEntry(n) \/ ReadName(n)
           \/ ReadValue(n) \/ ReadCount(n) \/ ReadElement(n)

(***************************************************************************)
(* Writing.  A step of the path is a call of _write_value for a list, a    *)
(* compound or an array, and how many of its elements are written.         *)
(***************************************************************************)
Step(tag) == [tag |-> tag, pos |-> 0]
\* What is written next inside s.
Current(s) == s.tag.v[s.pos + 1]
Child(s) == IF s.tag.id = TAG_COMPOUND THEN Current(s).tag ELSE Current(s)
Written(s) == s.pos = Len(s.tag.v)
Here == Last(path)

\* _write_value is called for the child that is next, and returns.
Enter(p) ==
  /\ writing' = IF Child(Last(p)).id = TAG_COMPOUND THEN "entry" ELSE "value"
  /\ path' = IF Child(Last(p)).id = TAG_COMPOUND THEN Append(p, Step(Child(Last(p)))) ELSE p
Return(p) ==
  IF p = <<>> THEN writing' = "done" /\ path' = p
  ELSE /\ writing' = IF Last(p).tag.id = TAG_COMPOUND THEN "entry" ELSE "next"
       /\ path' = [p EXCEPT ![Len(p)].pos = @ + 1]

\* write_nbt
WriteRoot ==
  /\ writing = "root"
  /\ \/ Here.tag = None /\ Take("byte", TAG_END) /\ Return(<<>>)
     \/ /\ Here.tag # None /\ Take("byte", TAG_COMPOUND)
        /\ writing' = (IF named THEN "rootname" ELSE "entry") /\ UNCHANGED path

\* The root has the empty name.
EmptyName == 0
\* A faulty variant: no name is taken for an empty one.
WriteRootName_Falsy == writing = "rootname" /\ writing' = "entry" /\ UNCHANGED <<path, reader>>
WriteRootName ==
  writing = "rootname" /\ Take("string", EmptyName) /\ writing' = "entry" /\ UNCHANGED path

WriteEntry ==
  /\ writing = "entry"
  /\ \/ ~ Written(Here) /\ Take("byte", Child(Here).id) /\ writing' = "name" /\ UNCHANGED path
     \/ Written(Here) /\ Take("byte", TAG_END) /\ Return(Front(path))

WriteName == writing = "name" /\ Take("string", Current(Here).name) /\ Enter(path)

\* A faulty variant: an empty list is written as one of END.
ElementType_Empty(tag) == IF tag.v = <<>> THEN TAG_END ELSE tag.of
ElementType(tag) == tag.of

WriteValue ==
  /\ writing = "value"
  /\ \/ /\ Child(Here).id \in DOMAIN Encoding
        /\ Take(Encoding[Child(Here).id], Child(Here).v[1]) /\ Return(path)
     \/ /\ Child(Here).id \in DOMAIN Element
        /\ Take("varint", Len(Child(Here).v))
        /\ writing' = "next" /\ path' = Append(path, Step(Child(Here)))
     \/ /\ Child(Here).id = TAG_LIST
        /\ Take("byte", ElementType(Child(Here)))
        /\ writing' = "count" /\ path' = Append(path, Step(Child(Here)))

WriteCount ==
  writing = "count" /\ Take("varint", Len(Here.tag.v)) /\ writing' = "next" /\ UNCHANGED path

WriteElement ==
  /\ writing = "element"
  /\ Take(Encoding[Element[Here.tag.id]], Current(Here))
  /\ writing' = "next" /\ path' = [path EXCEPT ![Len(path)].pos = @ + 1]

WriteNext ==
  \/ Written(Here) /\ Return(Front(path))
  \/ ~ Written(Here) /\ Here.tag.id = TAG_LIST /\ Enter(path)
  \/ ~ Written(Here) /\ Here.tag.id # TAG_LIST /\ writing' = "element" /\ UNCHANGED path

(***************************************************************************)
(* A tag and any number of protocols.                                      *)
(***************************************************************************)
Init ==
  /\ named \in BOOLEAN /\ doing = "root" /\ type = TAG_END /\ frames = <<>> /\ result = None
  /\ writing = "none" /\ path = <<>> /\ origin = None /\ received = 0

\* A token of the sender, or the end of the payload.
Receive ==
  /\ writing = "none" /\ received < MaxTokens /\ received' = received + 1
  /\ \E token \in Tokens : Take(token.enc, token.n)
  /\ UNCHANGED <<named, writer, origin>>
RunOut == writing = "none" /\ Waiting /\ Fail /\ UNCHANGED <<named, writer, origin, received>>

\* A turn of a loop writes nothing, and reads nothing.
Loop ==
  /\ doing = "next" /\ ReadNext
  /\ \/ writing = "next" /\ WriteNext
     \/ writing # "next" /\ UNCHANGED writer
  /\ UNCHANGED <<named, origin, received>>

\* The next token of a protocol.
Carry ==
  /\ \/ WriteRoot \/ WriteRootName \/ WriteEntry \/ WriteName
     \/ WriteValue \/ WriteCount \/ WriteElement
  /\ UNCHANGED <<named, origin, received>>

\* A protocol writes what it has read, and the next one reads it.
Pass ==
  /\ doing = "done"
  /\ doing' = "root" /\ type' = TAG_END /\ frames' = <<>> /\ result' = None
  /\ writing' = "root" /\ path' = <<Step(result)>>
  /\ origin' = (IF writing = "none" THEN result ELSE origin)
  /\ received' = 0 /\ UNCHANGED named

\* Another tag, of the game or of any sender.
Another ==
  /\ doing \in {"done", "failed"}
  /\ named' \in BOOLEAN /\ doing' = "root" /\ type' = TAG_END /\ frames' = <<>> /\ result' = None
  /\ \/ writing' = "none" /\ path' = <<>> /\ origin' = None
     \/ \E tag \in GameTags : writing' = "root" /\ path' = <<Step(tag)>> /\ origin' = tag
  /\ received' = 0

Next == Receive \/ RunOut \/ Loop \/ Carry \/ Pass \/ Another

Spec == Init /\ [][Next]_vars

-----------------------------------------------------------------------------
(***************************************************************************)
(* Properties.                                                             *)
(***************************************************************************)
Doings == {"root", "rootname", "entry", "name", "value", "count", "element", "next", "done"}

\* Neither a reader nor a writer is ever deeper in calls of its own than the
\* limit on the nesting (nbt.py:238) says.
TypeOK ==
  /\ named \in BOOLEAN /\ doing \in Doings \cup {"failed"} /\ type \in Int
  /\ writing \in Doings \cup {"none"} /\ received \in 0..MaxTokens
  /\ Len(frames) <= MaxDepth + 1 /\ Len(path) <= MaxDepth + 1

\* However many protocols a tag has passed, the next one reads the tag of the
\* game, or what the first one read, and it has read it when it has read the last token that the one
\* before it wrote, so that what follows the tag is read where it begins.  A
\* list of nothing with a count, a negative count, a name given twice and the
\* name of a root are all rewritten (nbt.py:254-273, 305-306).
TagKept == writing # "none" /\ doing = "done" => writing = "done" /\ result = origin

\* A tag of the game that is nested no deeper than the limit is refused by no
\* protocol, and what one protocol has read by no later one: not for its depth,
\* nor for a type or for what is found on the wire; and none waits for more
\* than was written.
NoneRefused == writing # "none" => doing # "failed" /\ (writing = "done" => doing = "done")
=============================================================================
