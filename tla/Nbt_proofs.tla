----------------------------- MODULE Nbt_proofs -----------------------------
(***************************************************************************)
(* For every limit on the nesting and for anything that is sent: a tag is  *)
(* the same to all protocols, none refuses what another wrote, and neither *)
(* a reader nor a writer is ever deeper in calls than the limit.           *)
(*                                                                         *)
(* Nothing is said of tags by induction over them.  The invariant names    *)
(* the tags that were read so far, by depth (U, over the set A of all of   *)
(* them), and a value that is complete adds its tag to its depth.  While a *)
(* sender writes (SomeReader), a frame holds tags of the depth below.      *)
(* While a protocol writes (SomePair), the reader's frames and the         *)
(* writer's path go together, level by level: a frame has what the writer  *)
(* has written of the tag at its level, and waits for the rest of it.      *)
(***************************************************************************)
EXTENDS Nbt, SequenceTheorems, TLAPS

Containers == DOMAIN Element \cup {TAG_LIST, TAG_COMPOUND}

\* Sound, with A for the set of all tags.
SoundIn(A, U) == U \in [0..(MaxDepth + 1) -> SUBSET A] /\ Sound(U)

\* More was read.
Grown(A, U, A2, U2) == A \subseteq A2 /\ \A d \in 0..(MaxDepth + 1) : U[d] \subseteq U2[d]

\* What is in frames, if all that was read is in A.
Frames(A) ==
  [id : Containers, of : Int, left : Int, got : Seq(Int) \cup Seq(A) \cup Entries(A), name : Int]

\* Each frame holds what its type allows, and encloses the next one.
Nested(fs, A, U) ==
  /\ fs \in Seq(Frames(A)) /\ Len(fs) <= MaxDepth + 1
  /\ fs # <<>> => fs[1].id = TAG_COMPOUND
  /\ \A k \in 1..Len(fs) : Content(fs[k].id, fs[k].of, fs[k].got, U[k])
  /\ \A k \in 1..(Len(fs) - 1) :
       /\ fs[k].id \in {TAG_LIST, TAG_COMPOUND}
       /\ fs[k].id = TAG_LIST => fs[k].of = fs[k + 1].id

WithLast(s, x) == [s EXCEPT ![Len(s)] = x]

\* A value of type t may be inside f.
Accepts(f, t) == f.id \in {TAG_LIST, TAG_COMPOUND} /\ (f.id = TAG_LIST => f.of = t)

IsRoot(t, U) == t = None \/ (t \in U[0] /\ t.id = TAG_COMPOUND)

\* What a reader is in the middle of.
ReaderIs(d, t, fs, r, A, U) ==
  /\ Nested(fs, A, U) /\ t \in Int
  /\ d \in Doings \cup {"failed"}
  /\ d \in {"root", "done", "failed"} <=> fs = <<>>
  /\ d \in {"rootname", "entry", "name"} => Last(fs).id = TAG_COMPOUND
  /\ d = "value" =>
       /\ Accepts(Last(fs), t) /\ t \in Types \ {TAG_COMPOUND}
       /\ Len(fs) <= MaxDepth
  /\ d = "count" => Last(fs).id = TAG_LIST
  /\ d = "next" => Last(fs).id # TAG_COMPOUND
  /\ d = "element" => Last(fs).id \in DOMAIN Element
  /\ d = "done" => IsRoot(r, U)

ReaderOK(A, U) == ReaderIs(doing, type, frames, result, A, U)

\* It is so for some sets of tags, which are those that were read.
SomeReader == \E A, U : SoundIn(A, U) /\ ReaderOK(A, U)

-----------------------------------------------------------------------------
LEMMA TypeNumbers ==
  /\ Types \subseteq Int /\ TAG_END \in Int
  /\ TAG_END \notin Types /\ TAG_LIST \in Types /\ TAG_COMPOUND \in Types /\ TAG_LIST # TAG_COMPOUND
  /\ DOMAIN Element \cap (DOMAIN Encoding \cup {TAG_LIST, TAG_COMPOUND}) = {}
  /\ DOMAIN Encoding \cap {TAG_LIST, TAG_COMPOUND} = {}
  /\ DOMAIN Element \subseteq Types /\ DOMAIN Encoding \subseteq Types
  /\ Types = DOMAIN Encoding \cup DOMAIN Element \cup {TAG_LIST, TAG_COMPOUND}
  /\ TAG_BYTE_ARRAY \in DOMAIN Element
  /\ Containers \subseteq Types
<1>1. DOMAIN Encoding = {1, 2, 3, 4, 5, 6, 8} /\ DOMAIN Element = {7, 11, 12}
  BY DEF Encoding, Element, TAG_BYTE_ARRAY, TAG_INT_ARRAY, TAG_LONG_ARRAY
<1> QED
  BY <1>1 DEF Types, Containers, TAG_END, TAG_LIST, TAG_COMPOUND, TAG_BYTE_ARRAY

LEMMA FrontAndLast ==
  ASSUME NEW S, NEW s \in Seq(S), s # <<>>
  PROVE  /\ Front(s) \in Seq(S) /\ Len(Front(s)) = Len(s) - 1 /\ Len(s) \in Nat \ {0}
         /\ Last(s) = s[Len(s)] /\ Last(s) \in S
         /\ \A k \in 1..(Len(s) - 1) : Front(s)[k] = s[k]
<1>1. PICK n \in Nat : Len(s) = n + 1
  <2>1. Len(s) - 1 \in Nat /\ Len(s) = (Len(s) - 1) + 1
    OBVIOUS
  <2> QED
    BY <2>1
<1>2. \A k \in 1..n : s[k] \in S /\ 1 + k - 1 = k
  BY <1>1
<1>3. Front(s) = SubSeq(s, 1, n)
  BY <1>1 DEF Front
<1>4. /\ SubSeq(s, 1, n) \in Seq(S) /\ Len(SubSeq(s, 1, n)) = IF 1 <= n THEN n - 1 + 1 ELSE 0
      /\ \A k \in 1..(n - 1 + 1) : SubSeq(s, 1, n)[k] = s[1 + k - 1]
  BY <1>2, SubSeqProperties
<1>5. Len(Front(s)) = n /\ \A k \in 1..n : Front(s)[k] = s[k]
  BY <1>2, <1>3, <1>4
<1>6. Last(s) = s[Len(s)] /\ Last(s) \in S
  BY <1>1 DEF Last
<1> QED
  BY <1>1, <1>3, <1>4, <1>5, <1>6

LEMMA EntriesGrow ==
  ASSUME NEW S, NEW T, S \subseteq T
  PROVE  Seq(S) \subseteq Seq(T) /\ Entries(S) \subseteq Entries(T)
<1>1. [name : Int, tag : S] \subseteq [name : Int, tag : T]
  OBVIOUS
<1>2. Seq(S) \subseteq Seq(T) /\ Seq([name : Int, tag : S]) \subseteq Seq([name : Int, tag : T])
  BY <1>1, SeqMonotonic
<1> QED
  BY <1>2 DEF Entries

LEMMA ContentGrows ==
  ASSUME NEW S, NEW T, S \subseteq T, NEW id, NEW of, NEW v, Content(id, of, v, S)
  PROVE  Content(id, of, v, T)
<1>1. Seq(S) \subseteq Seq(T) /\ Entries(S) \subseteq Entries(T)
  BY EntriesGrow
<1> QED
  BY <1>1 DEF Content

LEMMA SoundGrows ==
  ASSUME NEW A, NEW U, SoundIn(A, U), NEW d \in 0..MaxDepth, NEW t, Formed(t, U[d + 1])
  PROVE  \E A2, U2 : SoundIn(A2, U2) /\ Grown(A, U, A2, U2) /\ t \in U2[d]
<1> DEFINE A2 == A \cup {t}
           U2 == [U EXCEPT ![d] = @ \cup {t}]
<1>1. /\ U \in [0..(MaxDepth + 1) -> SUBSET A] /\ d \in 0..(MaxDepth + 1) /\ d # MaxDepth + 1
  BY MaxDepthAssumption DEF SoundIn, Sound
<1>2. U2 \in [0..(MaxDepth + 1) -> SUBSET A2] /\ U2[MaxDepth + 1] = {}
  BY <1>1, MaxDepthAssumption DEF SoundIn, Sound
<1>3. \A e \in 0..(MaxDepth + 1) : U[e] \subseteq U2[e]
  BY <1>1
<1>4. t \in U2[d] /\ \A e \in 0..MaxDepth : \A x \in U2[e] : x \in U[e] \/ (e = d /\ x = t)
  BY <1>1
<1> HIDE DEF U2
<1>5. ASSUME NEW e \in 0..MaxDepth, NEW x \in U2[e] PROVE Formed(x, U2[e + 1])
  <2>1. e + 1 \in 0..(MaxDepth + 1)
    BY MaxDepthAssumption
  <2>2. Formed(x, U[e + 1])
    BY <1>4, <1>5 DEF SoundIn, Sound
  <2> QED
    BY <1>3, <2>1, <2>2, ContentGrows DEF Formed
<1>6. SoundIn(A2, U2)
  BY <1>2, <1>5 DEF SoundIn, Sound
<1> QED
  BY <1>3, <1>4, <1>6 DEF Grown

LEMMA NestedGrows ==
  ASSUME NEW A, NEW U, NEW fs, Nested(fs, A, U), NEW A2, NEW U2, Grown(A, U, A2, U2)
  PROVE  Nested(fs, A2, U2)
<1>1. Frames(A) \subseteq Frames(A2)
  <2>1. Seq(A) \subseteq Seq(A2) /\ Entries(A) \subseteq Entries(A2)
    BY EntriesGrow DEF Grown
  <2> QED
    BY <2>1 DEF Frames
<1>2. fs \in Seq(Frames(A2))
  <2>1. fs \in Seq(Frames(A))
    BY DEF Nested
  <2> QED
    BY <1>1, <2>1
<1>3. ASSUME NEW k \in 1..Len(fs) PROVE Content(fs[k].id, fs[k].of, fs[k].got, U2[k])
  <2>1. k \in 0..(MaxDepth + 1)
    BY <1>2, MaxDepthAssumption DEF Nested
  <2> QED
    BY <2>1, ContentGrows DEF Nested, Grown
<1> QED
  BY <1>2, <1>3 DEF Nested

\* A dict has no name twice.
LEMMA PutKeeps ==
  ASSUME NEW S, NEW v \in Entries(S), Distinct(v), NEW name \in Int, NEW tag \in S
  PROVE  Put(v, name, tag) \in Entries(S) /\ Distinct(Put(v, name, tag))
<1> DEFINE new == [name |-> name, tag |-> tag]
<1>1. v \in Seq([name : Int, tag : S]) /\ new \in [name : Int, tag : S] /\ new.name = name
  BY DEF Entries
<1> HIDE DEF new
<1>2. CASE \E k \in 1..Len(v) : v[k].name = name
  <2> DEFINE w == [k \in 1..Len(v) |-> IF v[k].name = name THEN new ELSE v[k]]
  <2>1. Put(v, name, tag) = w
    BY <1>2 DEF Put, new
  <2>0. Len(v) \in Nat /\ \A k \in 1..Len(v) : v[k] \in [name : Int, tag : S]
    BY <1>1, ElementOfSeq, LenProperties
  <2>1a. w \in [1..Len(v) -> [name : Int, tag : S]]
    BY <1>1, <2>0
  <2>2. w \in Seq([name : Int, tag : S]) /\ Len(w) = Len(v) /\ \A k \in 1..Len(v) : w[k].name = v[k].name
    BY <1>1, <2>0, <2>1a
  <2> HIDE DEF w
  <2>3. Distinct(w)
    BY <2>2 DEF Distinct
  <2> QED
    BY <2>1, <2>2, <2>3 DEF Entries
<1>3. CASE ~ \E k \in 1..Len(v) : v[k].name = name
  <2>1. Put(v, name, tag) = Append(v, new)
    BY <1>3 DEF Put, new
  <2>2. Append(v, new) \in Seq([name : Int, tag : S])
    BY <1>1
  <2>3. Distinct(Append(v, new))
    BY <1>1, <1>3 DEF Distinct
  <2> QED
    BY <2>1, <2>2, <2>3 DEF Entries
<1> QED
  BY <1>2, <1>3

LEMMA AddedKeeps ==
  ASSUME NEW A, NEW S \in SUBSET A, NEW f \in Frames(A), Content(f.id, f.of, f.got, S),
         NEW tag \in S, tag.id \in Types, Accepts(f, tag.id)
  PROVE  /\ Added(f, tag) \in Frames(A)
         /\ Added(f, tag).id = f.id /\ Added(f, tag).of = f.of
         /\ Content(f.id, f.of, Added(f, tag).got, S)
<1>1. CASE f.id = TAG_COMPOUND
  <2> DEFINE g == Put(f.got, f.name, tag)
  <2>1. g \in Entries(S) /\ Distinct(g)
    BY <1>1, PutKeeps DEF Content, Frames
  <2>2. Entries(S) \subseteq Entries(A)
    BY EntriesGrow
  <2>3. Added(f, tag) = [f EXCEPT !.got = g]
    BY <1>1 DEF Added
  <2> HIDE DEF g
  <2>4. Added(f, tag) \in Frames(A) /\ Added(f, tag).id = f.id /\ Added(f, tag).of = f.of /\ Added(f, tag).got = g
    BY <2>1, <2>2, <2>3 DEF Frames
  <2>5. Content(f.id, f.of, g, S)
    BY <1>1, <2>1, TypeNumbers DEF Content
  <2> QED
    BY <2>4, <2>5
<1>2. CASE f.id = TAG_LIST
  <2> DEFINE g == Append(f.got, tag)
  <2>1. f.got \in Seq(S) /\ f.of = tag.id
    BY <1>2, TypeNumbers DEF Content, Accepts
  <2>2. g \in Seq(S) /\ (\A k \in 1..Len(g) : g[k].id = f.of)
    BY <1>2, <2>1 DEF Content
  <2>3. Seq(S) \subseteq Seq(A)
    OBVIOUS
  <2>4. f.left - 1 \in Int /\ Added(f, tag) = [f EXCEPT !.got = g, !.left = f.left - 1]
    BY <1>2, TypeNumbers DEF Added, Frames
  <2> HIDE DEF g
  <2>5. Added(f, tag) \in Frames(A) /\ Added(f, tag).id = f.id /\ Added(f, tag).of = f.of /\ Added(f, tag).got = g
    BY <2>2, <2>3, <2>4 DEF Frames
  <2>6. Content(f.id, f.of, g, S)
    BY <1>2, <2>1, <2>2, TypeNumbers DEF Content
  <2> QED
    BY <2>5, <2>6
<1> QED
  BY <1>1, <1>2 DEF Accepts

LEMMA NestedReplaced ==
  ASSUME NEW A, NEW U, NEW fs, Nested(fs, A, U), fs # <<>>,
         NEW g, g \in Frames(A), g.id = Last(fs).id, g.of = Last(fs).of,
         Content(g.id, g.of, g.got, U[Len(fs)])
  PROVE  /\ Nested(WithLast(fs, g), A, U) /\ WithLast(fs, g) # <<>>
         /\ Last(WithLast(fs, g)) = g /\ Len(WithLast(fs, g)) = Len(fs)
<1> DEFINE gs == WithLast(fs, g)
<1>1. fs \in Seq(Frames(A)) /\ Len(fs) \in Nat \ {0} /\ Last(fs) = fs[Len(fs)]
  BY FrontAndLast DEF Nested
<1>2. /\ gs \in Seq(Frames(A)) /\ Len(gs) = Len(fs) /\ gs[Len(fs)] = g
      /\ \A k \in 1..Len(fs) : k # Len(fs) => gs[k] = fs[k]
  BY <1>1 DEF WithLast
<1> HIDE DEF gs
<1>3. gs # <<>> /\ Last(gs) = g
  BY <1>1, <1>2 DEF Last
<1>4. \A k \in 1..Len(fs) : gs[k].id = fs[k].id /\ gs[k].of = fs[k].of
  BY <1>1, <1>2
<1>5. \A k \in 1..Len(gs) : Content(gs[k].id, gs[k].of, gs[k].got, U[k])
  BY <1>1, <1>2 DEF Nested
<1>6. \A k \in 1..(Len(gs) - 1) : k \in 1..Len(fs) /\ k + 1 \in 1..Len(fs)
  BY <1>1, <1>2
<1>7. Nested(gs, A, U)
  <2>1. gs[1].id = TAG_COMPOUND
    BY <1>1, <1>4 DEF Nested
  <2>2. \A k \in 1..(Len(gs) - 1) : /\ gs[k].id \in {TAG_LIST, TAG_COMPOUND}
                                    /\ gs[k].id = TAG_LIST => gs[k].of = gs[k + 1].id
    BY <1>1, <1>2, <1>4, <1>6 DEF Nested
  <2> QED
    BY <1>1, <1>2, <1>5, <2>1, <2>2 DEF Nested
<1> QED
  BY <1>2, <1>3, <1>7 DEF gs

LEMMA NestedAppended ==
  ASSUME NEW A, NEW U, NEW fs, Nested(fs, A, U), Len(fs) <= MaxDepth,
         NEW g \in Frames(A), Content(g.id, g.of, g.got, U[Len(fs) + 1]),
         IF fs = <<>> THEN g.id = TAG_COMPOUND ELSE Accepts(Last(fs), g.id)
  PROVE  /\ Nested(Append(fs, g), A, U) /\ Append(fs, g) # <<>>
         /\ Last(Append(fs, g)) = g /\ Len(Append(fs, g)) = Len(fs) + 1
<1> DEFINE gs == Append(fs, g)
<1>1. fs \in Seq(Frames(A)) /\ Len(fs) \in Nat
  BY DEF Nested
<1>2. /\ gs \in Seq(Frames(A)) /\ Len(gs) = Len(fs) + 1 /\ gs[Len(fs) + 1] = g
      /\ \A k \in 1..Len(fs) : gs[k] = fs[k]
  BY <1>1
<1> HIDE DEF gs
<1>3. gs # <<>> /\ Last(gs) = g
  BY <1>1, <1>2 DEF Last
<1>4. gs[1].id = TAG_COMPOUND
  BY <1>1, <1>2 DEF Nested
<1>5. \A k \in 1..Len(gs) : Content(gs[k].id, gs[k].of, gs[k].got, U[k])
  BY <1>1, <1>2 DEF Nested
<1>6. ASSUME NEW k \in 1..(Len(gs) - 1)
      PROVE  /\ gs[k].id \in {TAG_LIST, TAG_COMPOUND}
             /\ gs[k].id = TAG_LIST => gs[k].of = gs[k + 1].id
  <2>1. CASE k = Len(fs)
    <3>1. fs # <<>> /\ Last(fs) = fs[k]
      BY <1>1, <1>2, <2>1 DEF Last
    <3> QED
      BY <1>2, <2>1, <3>1 DEF Accepts
  <2>2. CASE k # Len(fs)
    <3>1. k \in 1..(Len(fs) - 1) /\ k \in 1..Len(fs) /\ k + 1 \in 1..Len(fs)
      BY <1>1, <1>2, <2>2
    <3> QED
      BY <1>2, <3>1 DEF Nested
  <2> QED
    BY <2>1, <2>2
<1>7. Nested(gs, A, U)
  BY <1>1, <1>2, <1>4, <1>5, <1>6, MaxDepthAssumption DEF Nested
<1> QED
  BY <1>2, <1>3, <1>7 DEF gs

LEMMA NestedFront ==
  ASSUME NEW A, NEW U, NEW fs, Nested(fs, A, U), fs # <<>>
  PROVE  /\ Nested(Front(fs), A, U)
         /\ IF Front(fs) = <<>> THEN Last(fs).id = TAG_COMPOUND
                                ELSE Accepts(Last(Front(fs)), Last(fs).id)
<1> DEFINE gs == Front(fs)
<1>1. /\ fs \in Seq(Frames(A)) /\ Len(fs) \in Nat \ {0} /\ Last(fs) = fs[Len(fs)]
      /\ gs \in Seq(Frames(A)) /\ Len(gs) = Len(fs) - 1 /\ \A k \in 1..Len(gs) : gs[k] = fs[k]
  BY FrontAndLast DEF Nested
<1> HIDE DEF gs
<1>2. \A k \in 1..Len(gs) : k \in 1..Len(fs) /\ k \in 1..(Len(fs) - 1) /\ k + 1 \in 1..Len(fs)
  BY <1>1
<1>3. \A k \in 1..(Len(gs) - 1) : k \in 1..Len(gs) /\ k + 1 \in 1..Len(gs)
  BY <1>1
<1>4. gs # <<>> => 1 \in 1..Len(gs) /\ Len(gs) \in 1..(Len(fs) - 1) /\ Last(gs) = fs[Len(gs)] /\ Len(gs) + 1 = Len(fs)
  BY <1>1 DEF Last
<1>5. Nested(gs, A, U)
  <2>1. Len(gs) <= MaxDepth + 1
    BY <1>1, MaxDepthAssumption DEF Nested
  <2>2. gs # <<>> => gs[1].id = TAG_COMPOUND
    BY <1>1, <1>4 DEF Nested
  <2>3. \A k \in 1..Len(gs) : Content(gs[k].id, gs[k].of, gs[k].got, U[k])
    BY <1>1, <1>2 DEF Nested
  <2>4. \A k \in 1..(Len(gs) - 1) : /\ gs[k].id \in {TAG_LIST, TAG_COMPOUND}
                                    /\ gs[k].id = TAG_LIST => gs[k].of = gs[k + 1].id
    BY <1>1, <1>2, <1>3 DEF Nested
  <2> QED
    BY <1>1, <2>1, <2>2, <2>3, <2>4 DEF Nested
<1>6. gs = <<>> => Last(fs).id = TAG_COMPOUND
  <2>1. gs = <<>> => Len(fs) = 1
    BY <1>1
  <2> QED
    BY <1>1, <2>1 DEF Nested
<1>7. gs # <<>> => Accepts(Last(gs), Last(fs).id)
  BY <1>1, <1>4 DEF Nested, Accepts
<1> QED
  BY <1>5, <1>6, <1>7 DEF gs

LEMMA NewFrame ==
  ASSUME NEW A, NEW S, NEW id \in Containers, NEW of \in Int, NEW left \in Int,
         id # TAG_LIST => of = TAG_END
  PROVE  /\ Frame(id, of, left) \in Frames(A)
         /\ Content(Frame(id, of, left).id, Frame(id, of, left).of, Frame(id, of, left).got, S)
         /\ Frame(id, of, left).id = id
<1> DEFINE f == Frame(id, of, left)
<1>1. f.id = id /\ f.of = of /\ f.left = left /\ f.got = <<>> /\ f.name = 0 /\ f = [id |-> id, of |-> of, left |-> left, got |-> <<>>, name |-> 0]
  BY DEF Frame
<1>2. <<>> \in Seq(Int) /\ <<>> \in Seq(S) /\ <<>> \in Entries(S) /\ Len(<<>>) = 0
  BY DEF Entries
<1>3. f \in Frames(A)
  BY <1>1, <1>2 DEF Frames
<1>4. Distinct(<<>>)
  BY <1>2 DEF Distinct
<1>5. id \notin DOMAIN Encoding
  BY TypeNumbers DEF Containers
<1> HIDE DEF f
<1>6. Content(id, of, <<>>, S)
  BY <1>2, <1>4, <1>5 DEF Content
<1> QED
  BY <1>1, <1>3, <1>6 DEF f

-----------------------------------------------------------------------------
(***************************************************************************)
(* What the first protocol reads.                                          *)
(***************************************************************************)
LEMMA FailOK ==
  ASSUME NEW A, NEW U, type \in Int, Fail
  PROVE  ReaderOK(A, U)'
<1>1. Nested(<<>>, A, U)
  BY MaxDepthAssumption DEF Nested
<1> QED
  BY <1>1 DEF Fail, ReaderOK, ReaderIs

LEMMA DeliverOK ==
  ASSUME NEW A, NEW U, SoundIn(A, U), type \in Int, NEW fs, Nested(fs, A, U), NEW tag,
         IF fs = <<>> THEN IsRoot(tag, U)
         ELSE Len(fs) <= MaxDepth /\ tag \in U[Len(fs)] /\ Accepts(Last(fs), tag.id),
         Deliver(fs, tag)
  PROVE  ReaderOK(A, U)'
<1>1. CASE fs = <<>>
  BY <1>1 DEF Deliver, ReaderOK, ReaderIs, Doings
<1>2. CASE fs # <<>>
  <2> DEFINE n == Len(fs)
             f == fs[n]
             S == U[n]
             g == Added(f, tag)
  <2>1. n \in Nat \ {0} /\ Last(fs) = fs[n] /\ fs[n] \in Frames(A)
    BY <1>2, FrontAndLast DEF Nested
  <2>2. U[n] \in SUBSET A /\ tag \in U[n] /\ tag.id \in Types
    BY <1>2, <2>1, MaxDepthAssumption DEF SoundIn, Sound, Formed
  <2>3. g \in Frames(A) /\ g.id = Last(fs).id /\ g.of = Last(fs).of /\ Content(g.id, g.of, g.got, U[n])
    <3>1. f \in Frames(A) /\ S \in SUBSET A /\ tag \in S /\ tag.id \in Types /\ Accepts(f, tag.id)
      BY <1>2, <2>1, <2>2
    <3>2. Content(f.id, f.of, f.got, S)
      BY <2>1 DEF Nested
    <3> HIDE DEF f, S
    <3>3. /\ Added(f, tag) \in Frames(A)
          /\ Added(f, tag).id = f.id /\ Added(f, tag).of = f.of
          /\ Content(f.id, f.of, Added(f, tag).got, S)
      BY <3>1, <3>2, AddedKeeps
    <3> QED
      BY <2>1, <3>3 DEF f, S
  <2>4. frames' = [fs EXCEPT ![n] = g]
    BY <1>2 DEF Deliver
  <2> HIDE DEF n, g
  <2>5. Nested(frames', A, U) /\ frames' # <<>> /\ Last(frames').id = Last(fs).id
    <3>1. Content(g.id, g.of, g.got, U[Len(fs)]) /\ frames' = WithLast(fs, g)
      BY <2>3, <2>4 DEF n, WithLast
    <3>2. Nested(WithLast(fs, g), A, U) /\ WithLast(fs, g) # <<>> /\ Last(WithLast(fs, g)) = g
      BY <1>2, <2>3, <3>1, NestedReplaced
    <3> QED
      BY <2>3, <3>1, <3>2
  <2>6. /\ doing' = IF Last(fs).id = TAG_COMPOUND THEN "entry" ELSE "next"
        /\ type' = type
    BY <1>2 DEF Deliver
  <2> QED
    BY <2>5, <2>6 DEF ReaderOK, ReaderIs, Doings
<1> QED
  BY <1>1, <1>2

LEMMA BeginOK ==
  ASSUME NEW A, NEW U, type \in Int, NEW fs, Nested(fs, A, U), fs # <<>>, NEW t \in Int,
         Accepts(Last(fs), t), Begin(fs, t)
  PROVE  ReaderOK(A, U)'
<1>1. CASE TooDeep(Len(fs)) \/ t \notin Types
  BY <1>1, FailOK DEF Begin
<1>2. CASE ~ (TooDeep(Len(fs)) \/ t \notin Types)
  <2>1. Len(fs) \in Nat /\ Len(fs) <= MaxDepth /\ t \in Types
    BY <1>2, MaxDepthAssumption DEF TooDeep, Nested
  <2>2. CASE t = TAG_COMPOUND
    <3> DEFINE g == Frame(t, TAG_END, 0)
    <3>1. g \in Frames(A) /\ Content(g.id, g.of, g.got, U[Len(fs) + 1]) /\ g.id = t
      <4>1. t \in Containers /\ TAG_END \in Int /\ 0 \in Int /\ t # TAG_LIST
        BY <2>2, TypeNumbers DEF Containers
      <4> QED
        BY <4>1, NewFrame
    <3>2. frames' = Append(fs, g) /\ doing' = "entry" /\ type' = t
      BY <1>2, <2>2 DEF Begin
    <3> HIDE DEF g
    <3>3. Nested(frames', A, U) /\ frames' # <<>> /\ Last(frames') = g
      BY <2>1, <3>1, <3>2, NestedAppended
    <3> QED
      BY <2>2, <3>1, <3>2, <3>3 DEF ReaderOK, ReaderIs, Doings
  <2>3. CASE t # TAG_COMPOUND
    BY <1>2, <2>1, <2>3 DEF Begin, ReaderOK, ReaderIs, Doings
  <2> QED
    BY <2>2, <2>3
<1> QED
  BY <1>1, <1>2

\* The innermost value is complete.
LEMMA CloseOK ==
  ASSUME NEW A, NEW U, SoundIn(A, U), type \in Int, Nested(frames, A, U), frames # <<>>,
         Deliver(Front(frames), Tag(Last(frames).id, Last(frames).of, Last(frames).got))
  PROVE  SomeReader'
<1> DEFINE f == Last(frames)
           tag == Tag(f.id, f.of, f.got)
           d == Len(frames) - 1
<1>1. /\ frames \in Seq(Frames(A)) /\ Len(frames) <= MaxDepth + 1 /\ Len(frames) \in Nat \ {0}
      /\ f = frames[Len(frames)] /\ f \in Frames(A) /\ Len(Front(frames)) = d
  BY FrontAndLast DEF Nested
<1>2. d \in 0..MaxDepth /\ d + 1 = Len(frames)
  BY <1>1, MaxDepthAssumption
<1>3. Content(f.id, f.of, f.got, U[d + 1])
  BY <1>1, <1>2 DEF Nested
<1>4. tag.id = f.id /\ tag.of = f.of /\ tag.v = f.got /\ tag = Tag(tag.id, tag.of, tag.v)
  BY DEF Tag
<1>5. Formed(tag, U[d + 1])
  BY <1>1, <1>3, <1>4, TypeNumbers DEF Formed, Frames
<1> HIDE DEF d, tag, f
<1>6. PICK A2, U2 : SoundIn(A2, U2) /\ Grown(A, U, A2, U2) /\ tag \in U2[d]
  BY <1>2, <1>5, SoundGrows
<1>7. /\ Nested(Front(frames), A, U)
      /\ IF Front(frames) = <<>> THEN tag.id = TAG_COMPOUND ELSE Accepts(Last(Front(frames)), tag.id)
  BY <1>4, NestedFront DEF f
<1>8. Nested(Front(frames), A2, U2)
  BY <1>6, <1>7, NestedGrows
<1>9. Front(frames) = <<>> => d = 0
  BY <1>1
<1>10. ReaderOK(A2, U2)'
  <2>1. Deliver(Front(frames), tag)
    BY DEF tag, f
  <2>2. IF Front(frames) = <<>> THEN IsRoot(tag, U2)
        ELSE Len(Front(frames)) <= MaxDepth /\ tag \in U2[Len(Front(frames))] /\ Accepts(Last(Front(frames)), tag.id)
    BY <1>1, <1>2, <1>6, <1>7, <1>9, MaxDepthAssumption DEF IsRoot
  <2> QED
    BY <1>6, <1>8, <2>1, <2>2, DeliverOK
<1> QED
  BY <1>6, <1>10 DEF SomeReader


LEMMA TakeOK ==
  ASSUME NEW A, NEW U, SoundIn(A, U), ReaderOK(A, U), NEW enc, NEW n \in Int, Take(enc, n)
  PROVE  SomeReader'
<1> USE DEF ReaderOK
<1>0. Nested(frames, A, U) /\ type \in Int /\ frames \in Seq(Frames(A)) /\ Len(frames) \in Nat
  BY DEF ReaderIs, Nested
<1>00. frames # <<>> => Len(frames) \in Nat \ {0} /\ Last(frames) = frames[Len(frames)] /\ Last(frames) \in Frames(A)
  BY <1>0, FrontAndLast
<1>1. ASSUME Fail PROVE SomeReader'
  BY <1>0, <1>1, FailOK DEF SomeReader
<1>2. ASSUME ReadRoot(n) PROVE SomeReader'
  <2>1. frames = <<>>
    BY <1>2 DEF ReadRoot, ReaderIs
  <2>2. CASE n = TAG_END /\ Deliver(<<>>, None)
    <3>1. Nested(<<>>, A, U) /\ IsRoot(None, U)
      BY <1>0, <2>1 DEF IsRoot
    <3>2. ReaderOK(A, U)'
      BY <1>0, <2>2, <3>1, DeliverOK
    <3> QED
      BY <3>2 DEF SomeReader
  <2>3. CASE /\ n = TAG_COMPOUND /\ doing' = (IF named THEN "rootname" ELSE "entry")
             /\ frames' = <<Frame(TAG_COMPOUND, TAG_END, 0)>> /\ UNCHANGED <<type, result>>
    <3> DEFINE g == Frame(TAG_COMPOUND, TAG_END, 0)
    <3>1. g \in Frames(A) /\ Content(g.id, g.of, g.got, U[Len(frames) + 1]) /\ g.id = TAG_COMPOUND
      <4>1. TAG_COMPOUND \in Containers /\ TAG_END \in Int /\ 0 \in Int /\ TAG_COMPOUND # TAG_LIST
        BY TypeNumbers DEF Containers
      <4> QED
        BY <4>1, NewFrame
    <3> HIDE DEF g
    <3>2. Nested(Append(frames, g), A, U) /\ Append(frames, g) # <<>> /\ Last(Append(frames, g)) = g
      <4>1. Nested(frames, A, U) /\ Len(frames) <= MaxDepth
        BY <1>0, <2>1, MaxDepthAssumption DEF Nested
      <4>2. IF frames = <<>> THEN g.id = TAG_COMPOUND ELSE Accepts(Last(frames), g.id)
        BY <2>1, <3>1
      <4> QED
        BY <3>1, <4>1, <4>2, NestedAppended
    <3>3. frames' = Append(frames, g)
      BY <2>1, <2>3 DEF g
    <3>4. doing' \in {"rootname", "entry"} /\ type' = type
      BY <2>3
    <3>5. ReaderOK(A, U)'
      BY <1>0, <3>1, <3>2, <3>3, <3>4 DEF ReaderIs, Doings
    <3> QED
      BY <3>5 DEF SomeReader
  <2> QED
    BY <1>1, <1>2, <2>2, <2>3 DEF ReadRoot
<1>3. ASSUME ReadRootName PROVE SomeReader'
  <2>1. ReaderOK(A, U)'
    BY <1>3 DEF ReadRootName, ReaderIs, Doings
  <2> QED
    BY <2>1 DEF SomeReader
<1>4. ASSUME ReadEntry(n) PROVE SomeReader'
  <2>1. frames # <<>> /\ Last(frames).id = TAG_COMPOUND
    BY <1>4 DEF ReadEntry, ReaderIs
  <2>2. CASE n = TAG_END /\ Deliver(Front(frames), Tag(TAG_COMPOUND, TAG_END, Last(frames).got))
    <3>1. Last(frames).of = TAG_END
      BY <1>0, <1>00, <2>1, TypeNumbers DEF Nested, Content
    <3>2. Deliver(Front(frames), Tag(Last(frames).id, Last(frames).of, Last(frames).got))
      BY <2>1, <2>2, <3>1
    <3> QED
      BY <1>0, <2>1, <3>2, CloseOK
  <2>3. CASE n # TAG_END /\ doing' = "name" /\ type' = n /\ UNCHANGED <<frames, result>>
    <3>1. ReaderOK(A, U)'
      BY <1>0, <2>1, <2>3 DEF ReaderIs, Doings
    <3> QED
      BY <3>1 DEF SomeReader
  <2> QED
    BY <1>4, <2>2, <2>3 DEF ReadEntry
<1>5. ASSUME ReadName(n) PROVE SomeReader'
  <2> DEFINE f == Last(frames)
             g == [f EXCEPT !.name = n]
  <2>1. frames # <<>> /\ f.id = TAG_COMPOUND /\ f \in Frames(A) /\ f = frames[Len(frames)] /\ Len(frames) \in 1..Len(frames)
    BY <1>00, <1>5 DEF ReadName, ReaderIs
  <2>2. g \in Frames(A) /\ g.id = f.id /\ g.of = f.of /\ g.got = f.got
    BY <2>1 DEF Frames
  <2>3. [frames EXCEPT ![Len(frames)].name = n] = WithLast(frames, g)
    BY <2>1 DEF WithLast
  <2>4. Content(f.id, f.of, f.got, U[Len(frames)])
    BY <1>0, <2>1 DEF Nested
  <2> HIDE DEF g
  <2>5. Nested(WithLast(frames, g), A, U) /\ WithLast(frames, g) # <<>> /\ Last(WithLast(frames, g)) = g
    BY <1>0, <2>1, <2>2, <2>4, NestedReplaced
  <2>6. Accepts(g, type)
    BY <2>1, <2>2, TypeNumbers DEF Accepts
  <2>7. Begin(WithLast(frames, g), type)
    BY <1>5, <2>3 DEF ReadName
  <2>8. ReaderOK(A, U)'
    BY <1>0, <2>5, <2>6, <2>7, BeginOK
  <2> QED
    BY <2>8 DEF SomeReader
<1>6. ASSUME ReadValue(n) PROVE SomeReader'
  <2>1. /\ doing = "value" /\ frames # <<>> /\ Accepts(Last(frames), type) /\ type \in Types \ {TAG_COMPOUND}
        /\ Len(frames) <= MaxDepth /\ Len(frames) \in 0..MaxDepth
    BY <1>0, <1>6, MaxDepthAssumption DEF ReadValue, ReaderIs
  <2>2. CASE type \in DOMAIN Encoding /\ Deliver(frames, Tag(type, TAG_END, <<n>>))
    <3> DEFINE tag == Tag(type, TAG_END, <<n>>)
               d == Len(frames)
    <3>1. tag.id = type /\ tag.of = TAG_END /\ tag.v = <<n>> /\ tag = Tag(tag.id, tag.of, tag.v)
      BY DEF Tag
    <3>2. <<n>> \in Seq(Int) /\ Len(<<n>>) = 1
      OBVIOUS
    <3> HIDE DEF tag, d
    <3>3. Formed(tag, U[d + 1])
      BY <2>1, <2>2, <3>1, <3>2, TypeNumbers DEF Formed, Content
    <3>4. PICK A2, U2 : SoundIn(A2, U2) /\ Grown(A, U, A2, U2) /\ tag \in U2[d]
      BY <2>1, <3>3, SoundGrows DEF d
    <3>5. Nested(frames, A2, U2)
      BY <1>0, <3>4, NestedGrows
    <3>6. Deliver(frames, tag)
      BY <2>2 DEF tag
    <3>7. ReaderOK(A2, U2)'
      BY <1>0, <2>1, <3>1, <3>4, <3>5, <3>6, DeliverOK DEF d
    <3> QED
      BY <3>4, <3>7 DEF SomeReader
  <2>3. ASSUME type \in Containers, NEW of \in Int, NEW left \in Int, type # TAG_LIST => of = TAG_END,
               frames' = Append(frames, Frame(type, of, left)), type' = type,
               doing' = IF type = TAG_LIST THEN "count" ELSE "next"
        PROVE  SomeReader'
    <3> DEFINE g == Frame(type, of, left)
    <3>1. g \in Frames(A) /\ Content(g.id, g.of, g.got, U[Len(frames) + 1]) /\ g.id = type
      BY <2>3, NewFrame
    <3> HIDE DEF g
    <3>2. Nested(Append(frames, g), A, U) /\ Append(frames, g) # <<>> /\ Last(Append(frames, g)) = g
      BY <1>0, <2>1, <2>3, <3>1, NestedAppended
    <3>3. frames' = Append(frames, g)
      BY <2>3 DEF g
    <3>4. ReaderOK(A, U)'
      <4>1. /\ doing' \in {"count", "next"} /\ (doing' = "count" => g.id = TAG_LIST)
            /\ g.id # TAG_COMPOUND /\ type' \in Int
        BY <1>0, <2>1, <2>3, <3>1 DEF ReaderIs
      <4>2. Nested(frames', A, U) /\ frames' # <<>> /\ Last(frames') = g
        BY <3>2, <3>3
      <4> QED
        BY <4>1, <4>2 DEF ReaderIs, Doings, ReaderOK
    <3> QED
      BY <3>4 DEF SomeReader
  <2>4. CASE type \in DOMAIN Element /\ doing' = "next" /\ frames' = Append(frames, Frame(type, TAG_END, n)) /\ UNCHANGED <<type, result>>
    <3>1. type \in Containers /\ type # TAG_LIST /\ TAG_END \in Int /\ type' = type
      BY <2>4, TypeNumbers DEF Containers
    <3>2. frames' = Append(frames, Frame(type, TAG_END, n)) /\ doing' = "next"
      BY <2>4
    <3> QED
      BY <2>3, <3>1, <3>2
  <2>5. CASE type = TAG_LIST /\ doing' = "count" /\ frames' = Append(frames, Frame(type, n, 0)) /\ UNCHANGED <<type, result>>
    <3>1. type \in Containers /\ type = TAG_LIST /\ 0 \in Int /\ type' = type
      BY <2>5 DEF Containers
    <3>2. frames' = Append(frames, Frame(type, n, 0)) /\ doing' = "count"
      BY <2>5
    <3> QED
      BY <2>3, <3>1, <3>2
  <2> QED
    BY <1>1, <1>6, <2>2, <2>4, <2>5 DEF ReadValue
<1>7. ASSUME ReadCount(n) PROVE SomeReader'
  <2> DEFINE f == Last(frames)
             m == IF f.of = TAG_END THEN 0 ELSE n
             g == [f EXCEPT !.left = m]
  <2>1. frames # <<>> /\ f.id = TAG_LIST /\ f \in Frames(A) /\ f = frames[Len(frames)] /\ Len(frames) \in 1..Len(frames)
    BY <1>00, <1>7 DEF ReadCount, ReaderIs
  <2>2. g \in Frames(A) /\ g.id = f.id /\ g.of = f.of /\ g.got = f.got
    BY <2>1 DEF Frames
  <2>3. frames' = WithLast(frames, g)
    BY <1>7, <2>1 DEF WithLast, ReadCount
  <2>4. Content(f.id, f.of, f.got, U[Len(frames)])
    BY <1>0, <2>1 DEF Nested
  <2> HIDE DEF g
  <2>5. Nested(WithLast(frames, g), A, U) /\ WithLast(frames, g) # <<>> /\ Last(WithLast(frames, g)) = g
    BY <1>0, <2>1, <2>2, <2>4, NestedReplaced
  <2>6. ReaderOK(A, U)'
    BY <1>0, <1>7, <2>1, <2>2, <2>3, <2>5, TypeNumbers DEF ReaderIs, Doings, ReadCount
  <2> QED
    BY <2>6 DEF SomeReader
<1>8. ASSUME ReadElement(n) PROVE SomeReader'
  <2> DEFINE f == Last(frames)
             h == Append(f.got, n)
             g == [f EXCEPT !.got = h, !.left = f.left - 1]
  <2>1. frames # <<>> /\ f.id \in DOMAIN Element /\ f \in Frames(A) /\ f = frames[Len(frames)] /\ Len(frames) \in 1..Len(frames)
    BY <1>00, <1>8 DEF ReadElement, ReaderIs
  <2>2. Content(f.id, f.of, f.got, U[Len(frames)])
    BY <1>0, <2>1 DEF Nested
  <2>3. f.got \in Seq(Int) /\ h \in Seq(Int) /\ f.left - 1 \in Int
    BY <2>1, <2>2 DEF Content, Frames
  <2> HIDE DEF h
  <2>4. g \in Frames(A) /\ g.id = f.id /\ g.of = f.of /\ g.got = h
    BY <2>1, <2>3 DEF Frames
  <2>5. Content(g.id, g.of, g.got, U[Len(frames)])
    BY <2>1, <2>2, <2>3, <2>4, TypeNumbers DEF Content
  <2>6. Added(f, n) = g
    BY <2>1, TypeNumbers DEF Added, h
  <2>7. frames' = WithLast(frames, g)
    BY <1>8, <2>1, <2>6 DEF WithLast, ReadElement
  <2> HIDE DEF g
  <2>8. Nested(WithLast(frames, g), A, U) /\ WithLast(frames, g) # <<>> /\ Last(WithLast(frames, g)) = g
    BY <1>0, <2>1, <2>4, <2>5, NestedReplaced
  <2>9. ReaderOK(A, U)'
    BY <1>0, <1>8, <2>1, <2>4, <2>7, <2>8, TypeNumbers DEF ReaderIs, Doings, ReadElement
  <2> QED
    BY <2>9 DEF SomeReader
<1> QED
  BY <1>1, <1>2, <1>3, <1>4, <1>5, <1>6, <1>7, <1>8 DEF Take

LEMMA TurnOK ==
  ASSUME NEW A, NEW U, SoundIn(A, U), ReaderOK(A, U), doing = "next", ReadNext
  PROVE  SomeReader'
<1>1. /\ Nested(frames, A, U) /\ type \in Int /\ frames # <<>> /\ Last(frames).id # TAG_COMPOUND
  BY DEF ReaderOK, ReaderIs
<1>2. Last(frames) = frames[Len(frames)] /\ Last(frames) \in Frames(A)
  BY <1>1, FrontAndLast DEF Nested
<1>3. CASE Deliver(Front(frames), Tag(Last(frames).id, Last(frames).of, Last(frames).got))
  BY <1>1, <1>3, CloseOK
<1>4. CASE Last(frames).id = TAG_LIST /\ Begin(frames, Last(frames).of)
  <2>1. Last(frames).of \in Int /\ Accepts(Last(frames), Last(frames).of)
    BY <1>2, <1>4 DEF Frames, Accepts
  <2>2. ReaderOK(A, U)'
    BY <1>1, <1>4, <2>1, BeginOK
  <2> QED
    BY <2>2 DEF SomeReader
<1>5. CASE Last(frames).id # TAG_LIST /\ doing' = "element" /\ UNCHANGED <<type, frames, result>>
  <2>1. Last(frames).id \in DOMAIN Element
    BY <1>1, <1>2, <1>5 DEF Frames, Containers
  <2>2. ReaderOK(A, U)'
    BY <1>1, <1>5, <2>1 DEF ReaderOK, ReaderIs, Doings
  <2> QED
    BY <2>2 DEF SomeReader
<1> QED
  BY <1>3, <1>4, <1>5 DEF ReadNext


-----------------------------------------------------------------------------
(***************************************************************************)
(* What the protocols after the first one read and write.  A reader has    *)
(* read of every value what the writer has written of it.                  *)
(***************************************************************************)
Part(v, n) == SubSeq(v, 1, n)
Steps(A) == [tag : A, pos : Nat]

\* f is the reader's frame and s is the writer's step for the same value.
Level(f, s, S) ==
  /\ s.tag \in S /\ s.tag.id \in Containers /\ s.pos <= Len(s.tag.v)
  /\ f.id = s.tag.id /\ f.of = s.tag.of /\ f.got = Part(s.tag.v, s.pos)

Counted(f, s) == s.tag.id # TAG_COMPOUND => f.left = Len(s.tag.v) - s.pos

\* The next value is one that calls are made for, and its name is known.
Ready(f, s) ==
  /\ s.tag.id \in {TAG_LIST, TAG_COMPOUND} /\ ~ Written(s) /\ Counted(f, s)
  /\ s.tag.id = TAG_COMPOUND => f.name = Current(s).name

\* The reader is where the writer is, at each level of the nesting.
Alike(fs, p, A, U) ==
  /\ fs \in Seq(Frames(A)) /\ p \in Seq(Steps(A)) /\ Len(fs) = Len(p) /\ Len(p) <= MaxDepth + 1
  /\ p # <<>> => p[1].tag = origin
  /\ \A k \in 1..Len(p) : Level(fs[k], p[k], U[k - 1])
  /\ \A k \in 1..(Len(p) - 1) : Ready(fs[k], p[k]) /\ p[k + 1].tag = Child(p[k])

\* Where a writer and the reader behind it are.
PairIs(w, d, t, fs, r, p, A, U) ==
  /\ d = w /\ w \in Doings /\ t \in Int
  /\ w = "root" => fs = <<>> /\ p = <<Step(origin)>>
  /\ w = "done" => fs = <<>> /\ p = <<>> /\ r = origin
  /\ w \notin {"root", "done"} => p # <<>> /\ Alike(fs, p, A, U)
  /\ w \in {"rootname", "entry", "name"} => Last(p).tag.id = TAG_COMPOUND
  /\ w = "name" => ~ Written(Last(p)) /\ t = Child(Last(p)).id
  /\ w = "value" => Ready(Last(fs), Last(p)) /\ t = Child(Last(p)).id /\ t # TAG_COMPOUND
  /\ w = "count" => Last(p).tag.id = TAG_LIST /\ Last(p).pos = 0
  /\ w \in {"next", "element"} => Last(p).tag.id # TAG_COMPOUND /\ Counted(Last(fs), Last(p))
  /\ w = "element" => Last(p).tag.id # TAG_LIST /\ ~ Written(Last(p))

PairOK(A, U) == PairIs(writing, doing, type, frames, result, path, A, U) /\ IsRoot(origin, U)
SomePair == \E A, U : SoundIn(A, U) /\ PairOK(A, U)

LEMMA Parts ==
  ASSUME NEW S, NEW v \in Seq(S)
  PROVE  /\ Part(v, 0) = <<>> /\ Part(v, Len(v)) = v /\ Len(v) \in Nat
         /\ \A n \in Nat : n <= Len(v) =>
              /\ Part(v, n) \in Seq(S) /\ Len(Part(v, n)) = n
              /\ \A k \in 1..n : Part(v, n)[k] = v[k]
              /\ n # Len(v) => /\ n + 1 \in 1..Len(v) /\ v[n + 1] \in S /\ n + 1 <= Len(v)
                               /\ Part(v, n + 1) = Append(Part(v, n), v[n + 1])
<1>1. Len(v) \in Nat /\ Part(v, 0) = <<>> /\ Part(v, Len(v)) = v
  BY SubSeqEmpty, SubSeqFull, LenProperties DEF Part
<1>2. ASSUME NEW n \in Nat, n <= Len(v)
      PROVE  /\ Part(v, n) \in Seq(S) /\ Len(Part(v, n)) = n
             /\ \A k \in 1..n : Part(v, n)[k] = v[k]
  <2>1. \A k \in 1..n : v[k] \in S /\ 1 + k - 1 = k
    BY <1>1, <1>2, ElementOfSeq
  <2>2. /\ Part(v, n) \in Seq(S) /\ Len(Part(v, n)) = (IF 1 <= n THEN n - 1 + 1 ELSE 0)
        /\ \A k \in 1..(n - 1 + 1) : Part(v, n)[k] = v[1 + k - 1]
    BY <2>1, SubSeqProperties DEF Part
  <2> QED
    BY <2>1, <2>2
<1>3. ASSUME NEW n \in Nat, n <= Len(v), n # Len(v)
      PROVE  /\ n + 1 \in 1..Len(v) /\ v[n + 1] \in S /\ n + 1 <= Len(v)
             /\ Part(v, n + 1) = Append(Part(v, n), v[n + 1])
  <2>1. n + 1 \in 1..Len(v) /\ v[n + 1] \in S /\ n + 1 <= Len(v) /\ n + 1 \in Nat
    BY <1>1, <1>3, ElementOfSeq
  <2> DEFINE a == Part(v, n + 1)
             b == Append(Part(v, n), v[n + 1])
  <2>2. a \in Seq(S) /\ Len(a) = n + 1 /\ \A k \in 1..(n + 1) : a[k] = v[k]
    BY <1>2, <2>1
  <2>3. b \in Seq(S) /\ Len(b) = n + 1 /\ \A k \in 1..(n + 1) : b[k] = v[k]
    BY <1>2, <1>3, <2>1
  <2> HIDE DEF a, b
  <2>4. a = b
    BY <2>2, <2>3, SeqEqual
  <2> QED
    BY <2>1, <2>4 DEF a, b
<1> QED
  BY <1>1, <1>2, <1>3

LEMMA Held ==
  ASSUME NEW A, NEW S \in SUBSET A, NEW id \in Containers, NEW of, NEW v, Content(id, of, v, S)
  PROVE  \E X : /\ v \in Seq(X) /\ Seq(X) \subseteq Seq(Int) \cup Seq(A) \cup Entries(A)
                /\ id \in DOMAIN Element => X = Int
                /\ id = TAG_LIST => X = S
                /\ id = TAG_COMPOUND => X = [name : Int, tag : S]
<1>1. CASE id \in DOMAIN Element
  BY <1>1, TypeNumbers DEF Content
<1>2. CASE id = TAG_LIST
  <2>1. v \in Seq(S) /\ Seq(S) \subseteq Seq(A)
    BY <1>2, EntriesGrow DEF Content
  <2> QED
    BY <1>2, <2>1, TypeNumbers
<1>3. CASE id = TAG_COMPOUND
  <2>1. v \in Entries(S) /\ Entries(S) \subseteq Entries(A)
    BY <1>3, EntriesGrow DEF Content
  <2> QED
    BY <1>3, <2>1, TypeNumbers DEF Entries
<1> QED
  BY <1>1, <1>2, <1>3 DEF Containers

\* A dict keeps the order in which its names were put.
LEMMA PutAppends ==
  ASSUME NEW S, NEW v \in Entries(S), Distinct(v), NEW n \in Nat, n <= Len(v), n # Len(v)
  PROVE  Put(Part(v, n), v[n + 1].name, v[n + 1].tag) = Part(v, n + 1)
<1> DEFINE R == [name : Int, tag : S]
<1>1. v \in Seq(R)
  BY DEF Entries
<1> HIDE DEF R
<1>2. /\ Len(v) \in Nat /\ Len(Part(v, n)) = n /\ (\A k \in 1..n : Part(v, n)[k] = v[k])
      /\ n + 1 \in 1..Len(v) /\ v[n + 1] \in R /\ Part(v, n + 1) = Append(Part(v, n), v[n + 1])
  BY <1>1, Parts
<1>3. v[n + 1] = [name |-> v[n + 1].name, tag |-> v[n + 1].tag]
  BY <1>2 DEF R
<1>4. ~ \E k \in 1..Len(Part(v, n)) : Part(v, n)[k].name = v[n + 1].name
  <2>1. ASSUME NEW k \in 1..n, v[k].name = v[n + 1].name PROVE FALSE
    <3>1. k \in 1..Len(v) /\ k # n + 1
      BY <1>2
    <3> QED
      BY <1>2, <2>1, <3>1 DEF Distinct
  <2> QED
    BY <1>2, <2>1
<1> QED
  BY <1>2, <1>3, <1>4 DEF Put

\* What a level of a writer holds.
LEMMA LevelHolds ==
  ASSUME NEW A, NEW U, SoundIn(A, U), NEW k \in 0..(MaxDepth + 1), NEW f, NEW s, Level(f, s, U[k])
  PROVE  /\ k \in 0..MaxDepth /\ U[k] \in SUBSET A /\ U[k + 1] \in SUBSET A
         /\ s.tag = Tag(s.tag.id, s.tag.of, s.tag.v) /\ s.tag \in A
         /\ Content(s.tag.id, s.tag.of, s.tag.v, U[k + 1])
<1>1. U[k] # {}
  BY DEF Level
<1>2. k \in 0..MaxDepth /\ k + 1 \in 0..(MaxDepth + 1)
  BY <1>1, MaxDepthAssumption DEF SoundIn, Sound
<1>3. U[k] \in SUBSET A /\ U[k + 1] \in SUBSET A
  BY <1>2 DEF SoundIn, Sound
<1>4. Formed(s.tag, U[k + 1])
  BY <1>2 DEF Level, SoundIn, Sound
<1> QED
  BY <1>2, <1>3, <1>4 DEF Formed, Level

\* The reader puts what the writer writes next where it was.
LEMMA OneMore ==
  ASSUME NEW A, NEW U, SoundIn(A, U), NEW k \in 0..(MaxDepth + 1), NEW f \in Frames(A), NEW s \in Steps(A),
         Level(f, s, U[k]), ~ Written(s), Counted(f, s),
         s.tag.id = TAG_COMPOUND => f.name = Current(s).name,
         NEW t, t = [s EXCEPT !.pos = s.pos + 1]
  PROVE  LET g == Added(f, Child(s))
         IN  g \in Frames(A) /\ t \in Steps(A) /\ t.tag = s.tag /\ Level(g, t, U[k]) /\ Counted(g, t)
<1> DEFINE v == s.tag.v
           n == s.pos
           g == Added(f, Child(s))
           S == U[k + 1]
<1>1. S \in SUBSET A /\ s.tag.id \in Containers /\ Content(s.tag.id, s.tag.of, v, S)
  BY LevelHolds DEF Level
<1>2. PICK X : /\ v \in Seq(X) /\ Seq(X) \subseteq Seq(Int) \cup Seq(A) \cup Entries(A)
               /\ s.tag.id \in DOMAIN Element => X = Int
               /\ s.tag.id = TAG_LIST => X = S
               /\ s.tag.id = TAG_COMPOUND => X = [name : Int, tag : S]
  <2> DEFINE id == s.tag.id
             of == s.tag.of
  <2>1. id \in Containers /\ S \in SUBSET A /\ Content(id, of, v, S)
    BY <1>1
  <2> HIDE DEF v, S, id, of
  <2>2. \E X : /\ v \in Seq(X) /\ Seq(X) \subseteq Seq(Int) \cup Seq(A) \cup Entries(A)
               /\ id \in DOMAIN Element => X = Int
               /\ id = TAG_LIST => X = S
               /\ id = TAG_COMPOUND => X = [name : Int, tag : S]
    BY <2>1, Held
  <2> QED
    BY <2>2 DEF id
<1>3. n \in Nat /\ n <= Len(v) /\ n # Len(v) /\ f.got = Part(v, n) /\ f.id = s.tag.id /\ f.of = s.tag.of
  BY DEF Level, Written, Steps
<1>4. t.tag = s.tag /\ t.pos = n + 1 /\ t \in Steps(A)
  BY <1>3 DEF Steps
<1> HIDE DEF v, n, S
<1>5. /\ Len(v) \in Nat /\ n + 1 \in Nat /\ n + 1 <= Len(v) /\ v[n + 1] \in X /\ Part(v, n) \in Seq(X)
      /\ Part(v, n + 1) = Append(Part(v, n), v[n + 1]) /\ Part(v, n + 1) \in Seq(X)
  BY <1>2, <1>3, Parts
<1>51. Part(v, n + 1) \in Seq(Int) \cup Seq(A) \cup Entries(A)
  BY <1>2, <1>5
<1>6. CASE s.tag.id = TAG_COMPOUND
  <2>1. Put(Part(v, n), v[n + 1].name, v[n + 1].tag) = Part(v, n + 1)
    BY <1>1, <1>3, <1>6, PutAppends DEF Content
  <2>2. Child(s) = v[n + 1].tag /\ f.name = v[n + 1].name
    BY <1>6 DEF Child, Current, v, n
  <2>3. g = [f EXCEPT !.got = Part(v, n + 1)]
    BY <1>3, <1>6, <2>1, <2>2 DEF Added
  <2>4. g \in Frames(A) /\ g.id = f.id /\ g.of = f.of /\ g.got = Part(v, n + 1)
    BY <1>51, <2>3 DEF Frames
  <2> HIDE DEF g
  <2> QED
    <3>1. /\ t.tag = s.tag /\ t.pos = n + 1 /\ t \in Steps(A) /\ n + 1 <= Len(v)
          /\ s.tag \in U[k] /\ s.tag.id \in Containers /\ Counted(g, t)
      BY <1>1, <1>3, <1>4, <1>5, <1>6 DEF Level, Counted
    <3> QED
      BY <1>3, <2>4, <3>1 DEF Level, v, g
<1>7. CASE s.tag.id # TAG_COMPOUND
  <2>1. Child(s) = v[n + 1]
    BY <1>7 DEF Child, Current, v, n
  <2>2. f.left = Len(v) - n /\ f.left - 1 \in Int /\ f.left - 1 = Len(v) - (n + 1)
    <3>1. f.left = Len(v) - n
      BY <1>3, <1>7 DEF Counted, v, n
    <3>2. n \in Int /\ Len(v) \in Int
      BY <1>3, <1>5
    <3> QED
      BY <3>1, <3>2
  <2>3. g = [f EXCEPT !.got = Part(v, n + 1), !.left = f.left - 1]
    BY <1>3, <1>5, <1>7, <2>1 DEF Added
  <2>4. /\ g \in Frames(A) /\ g.id = f.id /\ g.of = f.of /\ g.got = Part(v, n + 1)
        /\ g.left = f.left - 1
    BY <1>51, <2>2, <2>3 DEF Frames
  <2> HIDE DEF g
  <2> QED
    <3>1. /\ t.tag = s.tag /\ t.pos = n + 1 /\ t \in Steps(A) /\ n + 1 <= Len(v)
          /\ s.tag \in U[k] /\ s.tag.id \in Containers /\ g.left = Len(v) - (n + 1)
      BY <1>1, <1>3, <1>4, <1>5, <2>2, <2>4 DEF Level
    <3> QED
      BY <1>3, <2>4, <3>1 DEF Level, Counted, v, g
<1> QED
  BY <1>6, <1>7


LEMMA AlikeLast ==
  ASSUME NEW A, NEW U, NEW fs, NEW p, Alike(fs, p, A, U), p # <<>>
  PROVE  /\ fs # <<>> /\ Len(p) \in Nat \ {0} /\ Len(fs) = Len(p) /\ Len(p) - 1 \in 0..MaxDepth
         /\ Last(fs) = fs[Len(p)] /\ Last(p) = p[Len(p)]
         /\ Last(fs) \in Frames(A) /\ Last(p) \in Steps(A)
         /\ Level(Last(fs), Last(p), U[Len(p) - 1])
<1>1. /\ fs \in Seq(Frames(A)) /\ p \in Seq(Steps(A)) /\ Len(fs) = Len(p) /\ Len(p) <= MaxDepth + 1
  BY DEF Alike
<1>2. Len(p) \in Nat \ {0} /\ fs # <<>>
  BY <1>1, FrontAndLast
<1>3. Last(fs) = fs[Len(p)] /\ Last(p) = p[Len(p)] /\ Last(fs) \in Frames(A) /\ Last(p) \in Steps(A)
  BY <1>1, <1>2, FrontAndLast
<1>4. Len(p) - 1 \in 0..MaxDepth /\ Len(p) \in 1..Len(p)
  BY <1>1, <1>2, MaxDepthAssumption
<1>5. Level(fs[Len(p)], p[Len(p)], U[Len(p) - 1])
  BY <1>4 DEF Alike
<1> QED
  BY <1>1, <1>2, <1>3, <1>4, <1>5

LEMMA AlikeReplaced ==
  ASSUME NEW A, NEW U, NEW fs, NEW p, Alike(fs, p, A, U), p # <<>>,
         NEW g \in Frames(A), NEW s \in Steps(A), s.tag = Last(p).tag, Level(g, s, U[Len(p) - 1])
  PROVE  /\ Alike(WithLast(fs, g), WithLast(p, s), A, U) /\ WithLast(p, s) # <<>>
         /\ Last(WithLast(fs, g)) = g /\ Last(WithLast(p, s)) = s /\ Len(WithLast(p, s)) = Len(p)
<1> DEFINE gs == WithLast(fs, g)
           q == WithLast(p, s)
           n == Len(p)
<1>1. /\ fs \in Seq(Frames(A)) /\ p \in Seq(Steps(A)) /\ Len(fs) = n /\ n <= MaxDepth + 1
      /\ n \in Nat \ {0} /\ Last(p) = p[n]
  <2>1. fs \in Seq(Frames(A)) /\ p \in Seq(Steps(A)) /\ Len(fs) = n /\ n <= MaxDepth + 1
    BY DEF Alike
  <2>2. n \in Nat \ {0} /\ Last(p) = p[n]
    BY AlikeLast
  <2> QED
    BY <2>1, <2>2
<1>2. gs \in Seq(Frames(A)) /\ Len(gs) = n /\ gs[n] = g /\ \A k \in 1..n : k # n => gs[k] = fs[k]
  BY <1>1 DEF WithLast
<1>3. q \in Seq(Steps(A)) /\ Len(q) = n /\ q[n] = s /\ \A k \in 1..n : k # n => q[k] = p[k]
  BY <1>1 DEF WithLast
<1> HIDE DEF gs, q, n
<1>4. q # <<>> /\ gs # <<>> /\ Last(gs) = g /\ Last(q) = s
  BY <1>1, <1>2, <1>3 DEF Last
<1>5. \A k \in 1..n : q[k].tag = p[k].tag
  BY <1>1, <1>3
<1>6. q[1].tag = origin
  BY <1>1, <1>5 DEF Alike
<1>7. \A k \in 1..n : Level(gs[k], q[k], U[k - 1])
  BY <1>1, <1>2, <1>3 DEF Alike, n
<1>8. ASSUME NEW k \in 1..(n - 1) PROVE Ready(gs[k], q[k]) /\ q[k + 1].tag = Child(q[k])
  <2>1. k \in 1..n /\ k + 1 \in 1..n /\ k # n
    BY <1>1
  <2>2. gs[k] = fs[k] /\ q[k] = p[k] /\ q[k + 1].tag = p[k + 1].tag
    BY <1>2, <1>3, <1>5, <2>1
  <2> QED
    BY <2>2 DEF Alike, n
<1>9. Alike(gs, q, A, U)
  BY <1>1, <1>2, <1>3, <1>6, <1>7, <1>8 DEF Alike
<1> QED
  BY <1>3, <1>4, <1>9 DEF gs, q, n

LEMMA AlikeAppended ==
  ASSUME NEW A, NEW U, NEW fs, NEW p, Alike(fs, p, A, U), p # <<>>, Len(p) <= MaxDepth,
         Ready(Last(fs), Last(p)),
         NEW g \in Frames(A), NEW s \in Steps(A), s.tag = Child(Last(p)), Level(g, s, U[Len(p)])
  PROVE  /\ Alike(Append(fs, g), Append(p, s), A, U) /\ Append(p, s) # <<>>
         /\ Last(Append(fs, g)) = g /\ Last(Append(p, s)) = s
<1> DEFINE gs == Append(fs, g)
           q == Append(p, s)
           n == Len(p)
<1>1. /\ fs \in Seq(Frames(A)) /\ p \in Seq(Steps(A)) /\ Len(fs) = n /\ n <= MaxDepth
      /\ n \in Nat \ {0} /\ Last(p) = p[n] /\ Last(fs) = fs[n]
  <2>1. fs \in Seq(Frames(A)) /\ p \in Seq(Steps(A)) /\ Len(fs) = n /\ n <= MaxDepth
    BY DEF Alike
  <2>2. n \in Nat \ {0} /\ Last(p) = p[n] /\ Last(fs) = fs[n]
    BY AlikeLast
  <2> QED
    BY <2>1, <2>2
<1>2. gs \in Seq(Frames(A)) /\ Len(gs) = n + 1 /\ gs[n + 1] = g /\ \A k \in 1..n : gs[k] = fs[k]
  BY <1>1
<1>3. q \in Seq(Steps(A)) /\ Len(q) = n + 1 /\ q[n + 1] = s /\ \A k \in 1..n : q[k] = p[k]
  BY <1>1
<1>31. Level(g, s, U[n])
  OBVIOUS
<1> HIDE DEF gs, q, n
<1>4. q # <<>> /\ gs # <<>> /\ Last(gs) = g /\ Last(q) = s
  BY <1>1, <1>2, <1>3 DEF Last
<1>5. q[1].tag = origin
  BY <1>1, <1>3 DEF Alike
<1>6. ASSUME NEW k \in 1..(n + 1) PROVE Level(gs[k], q[k], U[k - 1])
  <2>1. CASE k = n + 1
    <3>1. k - 1 = n
      BY <1>1, <2>1
    <3> QED
      BY <1>2, <1>3, <1>31, <2>1, <3>1
  <2>2. CASE k # n + 1
    <3>1. k \in 1..n
      BY <1>1, <2>2
    <3> QED
      BY <1>2, <1>3, <3>1 DEF Alike, n
  <2> QED
    BY <2>1, <2>2
<1>7. ASSUME NEW k \in 1..n PROVE Ready(gs[k], q[k]) /\ q[k + 1].tag = Child(q[k])
  <2>1. CASE k = n
    <3>1. gs[k] = Last(fs) /\ q[k] = Last(p) /\ q[k + 1] = s
      BY <1>1, <1>2, <1>3, <2>1
    <3> QED
      BY <3>1
  <2>2. CASE k # n
    <3>1. k \in 1..(n - 1) /\ k + 1 \in 1..n
      BY <1>1, <2>2
    <3>2. gs[k] = fs[k] /\ q[k] = p[k] /\ q[k + 1] = p[k + 1]
      BY <1>2, <1>3, <3>1
    <3> QED
      BY <3>1, <3>2 DEF Alike, n
  <2> QED
    BY <2>1, <2>2
<1>8. Alike(gs, q, A, U)
  <2>1. n + 1 <= MaxDepth + 1 /\ Len(q) - 1 = n
    BY <1>1, <1>3, MaxDepthAssumption
  <2> QED
    BY <1>1, <1>2, <1>3, <1>5, <1>6, <1>7, <2>1 DEF Alike
<1> QED
  BY <1>4, <1>8 DEF gs, q

LEMMA AlikeFront ==
  ASSUME NEW A, NEW U, NEW fs, NEW p, Alike(fs, p, A, U), p # <<>>
  PROVE  /\ Alike(Front(fs), Front(p), A, U)
         /\ IF Front(p) = <<>> THEN Front(fs) = <<>> /\ Last(p).tag = origin
            ELSE Ready(Last(Front(fs)), Last(Front(p))) /\ Last(p).tag = Child(Last(Front(p)))
<1> DEFINE gs == Front(fs)
           q == Front(p)
           n == Len(p) - 1
<1>1. /\ fs \in Seq(Frames(A)) /\ p \in Seq(Steps(A)) /\ Len(fs) = Len(p) /\ Len(p) <= MaxDepth + 1
      /\ Len(p) \in Nat \ {0} /\ Last(p) = p[Len(p)] /\ fs # <<>>
  <2>1. fs \in Seq(Frames(A)) /\ p \in Seq(Steps(A)) /\ Len(fs) = Len(p) /\ Len(p) <= MaxDepth + 1
    BY DEF Alike
  <2>2. Len(p) \in Nat \ {0} /\ Last(p) = p[Len(p)] /\ fs # <<>>
    BY AlikeLast
  <2> QED
    BY <2>1, <2>2
<1>2. gs \in Seq(Frames(A)) /\ Len(gs) = n /\ \A k \in 1..n : gs[k] = fs[k]
  BY <1>1, FrontAndLast
<1>3. q \in Seq(Steps(A)) /\ Len(q) = n /\ \A k \in 1..n : q[k] = p[k]
  BY <1>1, FrontAndLast
<1>31. n \in Nat /\ n + 1 = Len(p)
  BY <1>1
<1>32. \A k \in 1..n : k \in 1..Len(p) /\ k \in 1..(Len(p) - 1)
  BY <1>31
<1> HIDE DEF gs, q, n
<1>4. q = <<>> => n = 0 /\ gs = <<>>
  BY <1>2, <1>3
<1>5. q # <<>> => n \in 1..n /\ 1 \in 1..n /\ Last(gs) = gs[n] /\ Last(q) = q[n]
  <2>1. q # <<>> => n # 0
    BY <1>3
  <2> QED
    BY <1>2, <1>3, <1>31, <2>1 DEF Last
<1>6. q # <<>> => q[1].tag = origin
  BY <1>3, <1>5 DEF Alike
<1>7. \A k \in 1..n : Level(gs[k], q[k], U[k - 1])
  BY <1>2, <1>3, <1>32 DEF Alike
<1>8. \A k \in 1..(n - 1) : Ready(gs[k], q[k]) /\ q[k + 1].tag = Child(q[k])
  <2>1. \A k \in 1..(n - 1) : k \in 1..n /\ k + 1 \in 1..n
    BY <1>31
  <2> QED
    BY <1>2, <1>3, <1>32, <2>1 DEF Alike
<1>9. Alike(gs, q, A, U)
  <2>1. Len(q) <= MaxDepth + 1 /\ Len(gs) = Len(q)
    BY <1>1, <1>2, <1>3, <1>31, MaxDepthAssumption
  <2> QED
    BY <1>2, <1>3, <1>6, <1>7, <1>8, <2>1 DEF Alike
<1>10. q = <<>> => Last(p).tag = origin
  BY <1>1, <1>31, <1>4 DEF Alike
<1>11. q # <<>> => Ready(Last(gs), Last(q)) /\ Last(p).tag = Child(Last(q))
  BY <1>1, <1>2, <1>3, <1>31, <1>32, <1>5 DEF Alike
<1> QED
  BY <1>4, <1>9, <1>10, <1>11 DEF gs, q

\* The writer and the reader return from the same call.
LEMMA ReturnStays ==
  ASSUME NEW A, NEW U, SoundIn(A, U), IsRoot(origin, U), UNCHANGED origin, type \in Int,
         NEW fs, NEW p, NEW tag,
         IF p = <<>> THEN fs = <<>> /\ tag = origin
         ELSE Alike(fs, p, A, U) /\ Ready(Last(fs), Last(p)) /\ tag = Child(Last(p)),
         Deliver(fs, tag), Return(p)
  PROVE  PairOK(A, U)'
<1>1. CASE p = <<>>
  BY <1>1 DEF Deliver, Return, PairOK, PairIs, Doings, IsRoot
<1>2. CASE p # <<>>
  <2> DEFINE f == Last(fs)
             s == Last(p)
             g == Added(f, Child(s))
             t == [s EXCEPT !.pos = s.pos + 1]
             k == Len(p) - 1
  <2>1. /\ fs # <<>> /\ Len(fs) = Len(p) /\ k \in 0..MaxDepth /\ f = fs[Len(p)] /\ s = p[Len(p)]
        /\ f \in Frames(A) /\ s \in Steps(A) /\ Level(f, s, U[k]) /\ Len(p) \in Nat \ {0}
    BY <1>2, AlikeLast
  <2>2. k \in 0..(MaxDepth + 1) /\ ~ Written(s) /\ Counted(f, s) /\ (s.tag.id = TAG_COMPOUND => f.name = Current(s).name)
    BY <1>2, <2>1, MaxDepthAssumption DEF Ready
  <2>21. s.tag.id \in {TAG_LIST, TAG_COMPOUND} /\ f.id = s.tag.id
    BY <1>2, <2>1 DEF Ready, Level
  <2>3. /\ frames' = WithLast(fs, g) /\ doing' = (IF f.id = TAG_COMPOUND THEN "entry" ELSE "next")
        /\ type' = type
    BY <1>2, <2>1 DEF Deliver, WithLast
  <2>4. path' = WithLast(p, t) /\ writing' = (IF s.tag.id = TAG_COMPOUND THEN "entry" ELSE "next")
    <3>1. [p EXCEPT ![Len(p)].pos = @ + 1] = WithLast(p, t)
      BY <2>1 DEF WithLast
    <3> QED
      BY <1>2, <3>1 DEF Return
  <2> HIDE DEF f, s, k
  <2>5. g \in Frames(A) /\ t \in Steps(A) /\ t.tag = s.tag /\ Level(g, t, U[k]) /\ Counted(g, t)
    BY <2>1, <2>2, OneMore
  <2> HIDE DEF g, t
  <2>6. Level(g, t, U[Len(p) - 1]) /\ t.tag = Last(p).tag
    BY <2>5 DEF k, s
  <2>7. /\ Alike(WithLast(fs, g), WithLast(p, t), A, U) /\ WithLast(p, t) # <<>>
        /\ Last(WithLast(fs, g)) = g /\ Last(WithLast(p, t)) = t
    BY <1>2, <2>5, <2>6, AlikeReplaced
  <2> QED
    BY <2>21, <2>3, <2>4, <2>5, <2>7, TypeNumbers DEF PairOK, PairIs, Doings, IsRoot, Alike
<1> QED
  BY <1>1, <1>2


LEMMA ChildOK ==
  ASSUME NEW A, NEW U, SoundIn(A, U), NEW fs, NEW p, Alike(fs, p, A, U), p # <<>>,
         Last(p).tag.id \in {TAG_LIST, TAG_COMPOUND}, ~ Written(Last(p))
  PROVE  /\ Len(p) \in 0..MaxDepth /\ Child(Last(p)) \in U[Len(p)] /\ Child(Last(p)) \in A
         /\ Formed(Child(Last(p)), U[Len(p) + 1])
         /\ Last(p).tag.id = TAG_LIST => Last(fs).of = Child(Last(p)).id
         /\ Last(p).tag.id = TAG_COMPOUND => Current(Last(p)).name \in Int
<1> DEFINE s == Last(p)
           v == s.tag.v
           n == s.pos
           S == U[Len(p)]
<1>1. /\ Len(p) \in Nat \ {0} /\ Len(p) - 1 \in 0..MaxDepth /\ s \in Steps(A)
      /\ Level(Last(fs), s, U[Len(p) - 1])
  BY AlikeLast
<1>2. Len(p) - 1 \in 0..(MaxDepth + 1) /\ Len(p) - 1 + 1 = Len(p) /\ Len(p) \in 0..(MaxDepth + 1)
  BY <1>1, MaxDepthAssumption
<1>3. S \in SUBSET A /\ Content(s.tag.id, s.tag.of, v, S)
  <2> DEFINE k == Len(p) - 1
             f == Last(fs)
  <2>1. k \in 0..(MaxDepth + 1) /\ Level(f, s, U[k]) /\ k + 1 = Len(p)
    BY <1>1, <1>2
  <2> HIDE DEF k, f, s
  <2>2. U[k + 1] \in SUBSET A /\ Content(s.tag.id, s.tag.of, s.tag.v, U[k + 1])
    BY <2>1, LevelHolds
  <2> QED
    BY <2>1, <2>2
<1>4. n \in Nat /\ n <= Len(v) /\ n # Len(v) /\ Last(fs).of = s.tag.of
  BY <1>1 DEF Level, Written, Steps
<1> HIDE DEF S, v, n
<1>5. /\ Child(s) \in S /\ (s.tag.id = TAG_LIST => Last(fs).of = Child(s).id)
      /\ s.tag.id = TAG_COMPOUND => Current(s).name \in Int
  <2>1. CASE s.tag.id = TAG_LIST
    <3>1. v \in Seq(S) /\ \A k \in 1..Len(v) : v[k].id = s.tag.of
      BY <1>3, <2>1 DEF Content
    <3>2. n + 1 \in 1..Len(v) /\ v[n + 1] \in S
      BY <1>4, <3>1, Parts
    <3>3. Child(s) = v[n + 1]
      BY <2>1, TypeNumbers DEF Child, Current, v, n
    <3> QED
      BY <1>4, <2>1, <3>1, <3>2, <3>3, TypeNumbers
  <2>2. CASE s.tag.id = TAG_COMPOUND
    <3> DEFINE X == [name : Int, tag : S]
    <3>1. v \in Seq(X)
      BY <1>3, <2>2 DEF Content, Entries
    <3> HIDE DEF X
    <3>2. v[n + 1] \in X
      BY <1>4, <3>1, Parts
    <3>3. Child(s) = v[n + 1].tag /\ Current(s) = v[n + 1]
      BY <2>2, TypeNumbers DEF Child, Current, v, n
    <3> QED
      BY <2>2, <3>2, <3>3, TypeNumbers DEF X
  <2> QED
    BY <2>1, <2>2
<1>6. Child(s) \in U[Len(p)]
  BY <1>5 DEF S
<1>7. Len(p) \in 0..MaxDepth
  BY <1>2, <1>6, MaxDepthAssumption DEF SoundIn, Sound
<1>8. Formed(Child(s), U[Len(p) + 1])
  BY <1>6, <1>7 DEF SoundIn, Sound
<1> QED
  BY <1>3, <1>5, <1>6, <1>7, <1>8

LEMMA NewLevel ==
  ASSUME NEW A, NEW S, NEW S2, NEW c \in S, c \in A, Formed(c, S2), c.id \in Containers, NEW left \in Int
  PROVE  /\ Frame(c.id, c.of, left) \in Frames(A) /\ Step(c) \in Steps(A)
         /\ Step(c).tag = c /\ Step(c).pos = 0
         /\ Level(Frame(c.id, c.of, left), Step(c), S)
         /\ left = Len(c.v) \/ c.id = TAG_COMPOUND => Counted(Frame(c.id, c.of, left), Step(c))
<1>1. c.of \in Int /\ (c.id # TAG_LIST => c.of = TAG_END)
  BY DEF Formed, Content
<1>2. Frame(c.id, c.of, left) \in Frames(A)
  BY <1>1, NewFrame
<1>3. Step(c) \in Steps(A) /\ Step(c).tag = c /\ Step(c).pos = 0
  BY DEF Step, Steps
<1>4. PICK X : c.v \in Seq(X)
  BY TypeNumbers DEF Formed, Content, Containers, Entries
<1>5. Part(c.v, 0) = <<>> /\ Len(c.v) \in Nat
  BY <1>4, Parts
<1>6. Level(Frame(c.id, c.of, left), Step(c), S)
  BY <1>3, <1>5 DEF Level, Frame
<1>7. left = Len(c.v) \/ c.id = TAG_COMPOUND => Counted(Frame(c.id, c.of, left), Step(c))
  BY <1>3, <1>5 DEF Counted, Frame
<1> QED
  BY <1>2, <1>3, <1>6, <1>7

\* The writer and the reader call themselves for the same value.
LEMMA EnterStays ==
  ASSUME NEW A, NEW U, SoundIn(A, U), IsRoot(origin, U), UNCHANGED origin, type \in Int,
         NEW fs, NEW p, Alike(fs, p, A, U), p # <<>>, Ready(Last(fs), Last(p)),
         Begin(fs, Child(Last(p)).id), Enter(p)
  PROVE  PairOK(A, U)'
<1> DEFINE c == Child(Last(p))
           S == U[Len(p)]
<1>0. Last(p).tag.id \in {TAG_LIST, TAG_COMPOUND} /\ ~ Written(Last(p))
  BY DEF Ready
<1>1. Len(p) \in 0..MaxDepth /\ c \in S /\ c \in A /\ Formed(c, U[Len(p) + 1]) /\ c.id \in Types
  BY <1>0, ChildOK DEF Formed
<1>2. /\ Len(fs) = Len(p) /\ Last(p) = p[Len(p)] /\ Last(fs) = fs[Len(p)]
  BY AlikeLast
<1>3. c.id \in Int /\ ~ TooDeep(Len(fs))
  BY <1>1, <1>2, MaxDepthAssumption, TypeNumbers DEF TooDeep
<1>4. CASE c.id = TAG_COMPOUND
  <2> DEFINE g == Frame(c.id, c.of, 0)
             s == Step(c)
  <2>1. c.id \in Containers /\ c.of = TAG_END
    BY <1>1, <1>4, TypeNumbers DEF Containers, Formed, Content
  <2>2. g \in Frames(A) /\ s \in Steps(A) /\ s.tag = c /\ Level(g, s, S)
    <3> DEFINE S2 == U[Len(p) + 1]
    <3>1. c \in S /\ c \in A /\ Formed(c, S2) /\ c.id \in Containers /\ 0 \in Int
      BY <1>1, <2>1
    <3> HIDE DEF c, S, S2
    <3> QED
      BY <3>1, NewLevel
  <2>3. /\ frames' = Append(fs, g) /\ doing' = "entry" /\ type' = TAG_COMPOUND
        /\ path' = Append(p, s) /\ writing' = "entry"
    BY <1>1, <1>3, <1>4, <2>1 DEF Begin, Enter
  <2> HIDE DEF g, s
  <2>4. Alike(Append(fs, g), Append(p, s), A, U) /\ Append(p, s) # <<>> /\ Last(Append(p, s)) = s
    BY <1>1, <2>2, AlikeAppended
  <2> QED
    BY <1>4, <2>2, <2>3, <2>4, TypeNumbers DEF PairOK, PairIs, Doings, IsRoot, Alike
<1>5. CASE c.id # TAG_COMPOUND
  <2>1. /\ frames' = fs /\ doing' = "value" /\ type' = c.id /\ path' = p /\ writing' = "value"
    BY <1>1, <1>3, <1>5 DEF Begin, Enter
  <2> QED
    BY <1>3, <1>5, <2>1 DEF PairOK, PairIs, Doings, IsRoot, Alike
<1> QED
  BY <1>4, <1>5

\* What the reader does with the token that it waits for.
LEMMA Taken ==
  ASSUME NEW enc, NEW n, Take(enc, n), enc = Expected
  PROVE  /\ doing = "root" => ReadRoot(n)
         /\ doing = "rootname" => ReadRootName
         /\ doing = "entry" => ReadEntry(n)
         /\ doing = "name" => ReadName(n)
         /\ doing = "value" => ReadValue(n)
         /\ doing = "count" => ReadCount(n)
         /\ doing = "element" => ReadElement(n)
BY DEF Take, ReadRoot, ReadRootName, ReadEntry, ReadName, ReadValue, ReadCount, ReadElement

LEMMA WaitedFor ==
  /\ doing \in {"root", "entry"} => Expected = "byte"
  /\ doing \in {"rootname", "name"} => Expected = "string"
  /\ doing = "value" => Expected = IF type \in DOMAIN Encoding THEN Encoding[type]
                                   ELSE IF type = TAG_LIST THEN "byte" ELSE "varint"
  /\ doing = "count" => Expected = "varint"
  /\ doing = "element" => Expected = Encoding[Element[Last(frames).id]]
BY DEF Expected

\* Every call that the pair is in the middle of returns to where it began.
LEMMA ClosedAlike ==
  ASSUME NEW A, NEW U, SoundIn(A, U), Alike(frames, path, A, U), path # <<>>, Written(Here)
  PROVE  /\ Tag(Last(frames).id, Last(frames).of, Last(frames).got) = Here.tag
         /\ IF Front(path) = <<>> THEN Front(frames) = <<>> /\ Here.tag = origin
            ELSE /\ Alike(Front(frames), Front(path), A, U)
                 /\ Ready(Last(Front(frames)), Last(Front(path)))
                 /\ Here.tag = Child(Last(Front(path)))
<1> DEFINE k == Len(path) - 1
           f == Last(frames)
           c == Here.tag
<1>1. /\ k \in 0..MaxDepth /\ f \in Frames(A) /\ Here \in Steps(A) /\ Level(f, Here, U[k])
  BY AlikeLast DEF Here
<1>2. k \in 0..(MaxDepth + 1)
  BY <1>1, MaxDepthAssumption
<1> HIDE DEF k
<1>3. c = Tag(c.id, c.of, c.v) /\ Content(c.id, c.of, c.v, U[k + 1]) /\ U[k + 1] \in SUBSET A /\ c.id \in Containers
  BY <1>1, <1>2, LevelHolds DEF Level
<1>4. PICK X : c.v \in Seq(X)
  BY <1>3, TypeNumbers DEF Content, Containers, Entries
<1>5. f.got = c.v /\ f.id = c.id /\ f.of = c.of
  BY <1>1, <1>4, Parts DEF Level, Written
<1>6. Tag(f.id, f.of, f.got) = c
  BY <1>3, <1>5
<1> QED
  BY <1>6, AlikeFront DEF Here


LEMMA WriteRootOK ==
  ASSUME NEW A, NEW U, SoundIn(A, U), PairOK(A, U), UNCHANGED origin, WriteRoot
  PROVE  PairOK(A, U)'
<1>1. /\ writing = "root" /\ doing = "root" /\ frames = <<>> /\ path = <<Step(origin)>> /\ type \in Int
      /\ IsRoot(origin, U)
  BY DEF WriteRoot, PairOK, PairIs
<1>2. Here = Step(origin) /\ Here.tag = origin /\ Expected = "byte"
  BY <1>1, WaitedFor DEF Here, Last, Step
<1>3. CASE Here.tag = None /\ Take("byte", TAG_END) /\ Return(<<>>)
  <2>1. ReadRoot(TAG_END)
    BY <1>1, <1>2, <1>3, Taken
  <2>2. Deliver(<<>>, None)
    BY <2>1, TypeNumbers DEF ReadRoot
  <2> QED
    BY <1>1, <1>2, <1>3, <2>2, ReturnStays
<1>4. CASE Here.tag # None /\ Take("byte", TAG_COMPOUND) /\ writing' = (IF named THEN "rootname" ELSE "entry") /\ UNCHANGED path
  <2> DEFINE g == Frame(TAG_COMPOUND, TAG_END, 0)
             s == Step(origin)
  <2>1. ReadRoot(TAG_COMPOUND)
    BY <1>1, <1>2, <1>4, Taken
  <2>2. doing' = (IF named THEN "rootname" ELSE "entry") /\ frames' = <<g>> /\ type' = type
    BY <2>1, TypeNumbers DEF ReadRoot
  <2>3. origin \in U[0] /\ origin.id = TAG_COMPOUND /\ 0 \in 0..MaxDepth
    BY <1>1, <1>2, <1>4, MaxDepthAssumption DEF IsRoot
  <2>4. origin \in A /\ Formed(origin, U[0 + 1]) /\ origin.of = TAG_END /\ origin.id \in Containers
    <3>1. origin \in A /\ Formed(origin, U[0 + 1])
      BY <2>3, MaxDepthAssumption DEF SoundIn, Sound
    <3> QED
      BY <2>3, <3>1, TypeNumbers DEF Formed, Content, Containers
  <2>5. g \in Frames(A) /\ s \in Steps(A) /\ s.tag = origin /\ Level(g, s, U[0])
    <3> DEFINE S == U[0]
               S2 == U[0 + 1]
    <3>1. origin \in S /\ origin \in A /\ Formed(origin, S2) /\ origin.id \in Containers /\ 0 \in Int
      BY <2>3, <2>4
    <3> HIDE DEF S, S2
    <3>2. /\ Frame(origin.id, origin.of, 0) \in Frames(A) /\ Step(origin) \in Steps(A) /\ Step(origin).tag = origin
          /\ Level(Frame(origin.id, origin.of, 0), Step(origin), S)
      BY <3>1, NewLevel
    <3> QED
      BY <2>3, <2>4, <3>2 DEF S
  <2> HIDE DEF g, s
  <2>6. /\ <<g>> \in Seq(Frames(A)) /\ <<s>> \in Seq(Steps(A)) /\ Len(<<g>>) = 1 /\ Len(<<s>>) = 1
        /\ <<g>>[1] = g /\ <<s>>[1] = s /\ Last(<<s>>) = s /\ <<s>> # <<>>
    BY <2>5 DEF Last
  <2>7. /\ \A k \in 1..1 : k - 1 = 0 /\ k = 1
        /\ 1..(1 - 1) = {} /\ 1 <= MaxDepth + 1
    BY MaxDepthAssumption
  <2>8. \A k \in 1..1 : Level(<<g>>[k], <<s>>[k], U[k - 1])
    BY <2>5, <2>6, <2>7
  <2>9. Alike(<<g>>, <<s>>, A, U)
    BY <2>5, <2>6, <2>7, <2>8 DEF Alike
  <2>10. path' = <<s>> /\ writing' = doing' /\ writing' \in {"rootname", "entry"}
    BY <1>1, <1>4, <2>2 DEF s
  <2> QED
    BY <1>1, <2>2, <2>3, <2>5, <2>6, <2>9, <2>10 DEF PairOK, PairIs, Doings, IsRoot, Alike
<1> QED
  BY <1>3, <1>4 DEF WriteRoot

LEMMA WriteEntryOK ==
  ASSUME NEW A, NEW U, SoundIn(A, U), PairOK(A, U), UNCHANGED origin, WriteEntry
  PROVE  PairOK(A, U)'
<1>1. /\ writing = "entry" /\ doing = "entry" /\ path # <<>> /\ Alike(frames, path, A, U) /\ type \in Int
      /\ Here.tag.id = TAG_COMPOUND /\ IsRoot(origin, U) /\ Expected = "byte"
  BY WaitedFor DEF WriteEntry, PairOK, PairIs, Here
<1>2. CASE ~ Written(Here) /\ Take("byte", Child(Here).id) /\ writing' = "name" /\ UNCHANGED path
  <2>1. ReadEntry(Child(Here).id)
    BY <1>1, <1>2, Taken
  <2>2. Child(Here).id \in Types
    BY <1>1, <1>2, ChildOK DEF Formed, Here
  <2>3. doing' = "name" /\ type' = Child(Here).id /\ frames' = frames
    BY <2>1, <2>2, TypeNumbers DEF ReadEntry
  <2> QED
    BY <1>1, <1>2, <2>2, <2>3, TypeNumbers DEF PairOK, PairIs, Doings, Here, Alike, IsRoot
<1>3. CASE Written(Here) /\ Take("byte", TAG_END) /\ Return(Front(path))
  <2>1. ReadEntry(TAG_END)
    BY <1>1, <1>3, Taken
  <2>2. Deliver(Front(frames), Tag(TAG_COMPOUND, TAG_END, Last(frames).got))
    BY <2>1 DEF ReadEntry
  <2>3. Tag(Last(frames).id, Last(frames).of, Last(frames).got) = Here.tag
    BY <1>1, <1>3, ClosedAlike
  <2>4. Last(frames).id = TAG_COMPOUND /\ Last(frames).of = TAG_END
    <3> DEFINE k == Len(path) - 1
               f == Last(frames)
    <3>1. k \in 0..(MaxDepth + 1) /\ Level(f, Here, U[k])
      BY <1>1, AlikeLast, MaxDepthAssumption DEF Here
    <3> HIDE DEF k, f
    <3>2. Content(Here.tag.id, Here.tag.of, Here.tag.v, U[k + 1])
      BY <3>1, LevelHolds
    <3>3. f.id = TAG_COMPOUND /\ f.of = TAG_END
      BY <1>1, <3>1, <3>2, TypeNumbers DEF Level, Content
    <3> QED
      BY <3>3 DEF f
  <2>5. Deliver(Front(frames), Here.tag)
    BY <2>2, <2>3, <2>4
  <2>6. IF Front(path) = <<>> THEN Front(frames) = <<>> /\ Here.tag = origin
        ELSE /\ Alike(Front(frames), Front(path), A, U)
             /\ Ready(Last(Front(frames)), Last(Front(path)))
             /\ Here.tag = Child(Last(Front(path)))
    BY <1>1, <1>3, ClosedAlike
  <2> QED
    BY <1>1, <1>3, <2>5, <2>6, ReturnStays
<1> QED
  BY <1>2, <1>3 DEF WriteEntry

LEMMA WriteNameOK ==
  ASSUME NEW A, NEW U, SoundIn(A, U), PairOK(A, U), UNCHANGED origin, WriteName
  PROVE  PairOK(A, U)'
<1> DEFINE f == Last(frames)
           name == Current(Here).name
           g == [f EXCEPT !.name = name]
<1>1. /\ writing = "name" /\ doing = "name" /\ path # <<>> /\ Alike(frames, path, A, U) /\ type \in Int
      /\ Here.tag.id = TAG_COMPOUND /\ IsRoot(origin, U) /\ Expected = "string"
      /\ ~ Written(Here) /\ type = Child(Here).id
  BY WaitedFor DEF WriteName, PairOK, PairIs, Here
<1>2. ReadName(name) /\ Enter(path)
  BY <1>1, Taken DEF WriteName
<1>3. name \in Int
  BY <1>1, ChildOK DEF Here
<1>4. /\ f \in Frames(A) /\ Here \in Steps(A) /\ Level(f, Here, U[Len(path) - 1]) /\ f = frames[Len(frames)]
      /\ Len(frames) = Len(path) /\ Len(path) \in 1..Len(path) /\ Here = path[Len(path)]
  BY <1>1, AlikeLast DEF Here
<1>5. g \in Frames(A) /\ g.id = f.id /\ g.of = f.of /\ g.got = f.got /\ g.name = name
  BY <1>3, <1>4 DEF Frames
<1>6. [frames EXCEPT ![Len(frames)].name = name] = WithLast(frames, g)
  BY <1>4 DEF WithLast
<1>7. Begin(WithLast(frames, g), type)
  BY <1>2, <1>6 DEF ReadName
<1>8. WithLast(path, Here) = path
  <2>1. path \in Seq(Steps(A))
    BY <1>1 DEF Alike
  <2> QED
    BY <1>4, <2>1 DEF WithLast
<1> HIDE DEF f, g, name
<1>9. Level(g, Here, U[Len(path) - 1])
  BY <1>4, <1>5 DEF Level
<1>10. Alike(WithLast(frames, g), path, A, U) /\ Last(WithLast(frames, g)) = g
  <2>1. /\ Alike(WithLast(frames, g), WithLast(path, Here), A, U) /\ Last(WithLast(frames, g)) = g
    BY <1>1, <1>4, <1>5, <1>9, AlikeReplaced DEF Here
  <2> QED
    BY <1>8, <2>1
<1>11. Ready(g, Here)
  BY <1>1, <1>5, TypeNumbers DEF Ready, Counted, name
<1>12. Ready(Last(WithLast(frames, g)), Last(path)) /\ Begin(WithLast(frames, g), Child(Last(path)).id)
  BY <1>1, <1>7, <1>10, <1>11 DEF Here
<1> QED
  BY <1>1, <1>2, <1>10, <1>12, EnterStays

LEMMA WriteValueOK ==
  ASSUME NEW A, NEW U, SoundIn(A, U), PairOK(A, U), UNCHANGED origin, WriteValue
  PROVE  PairOK(A, U)'
<1> DEFINE c == Child(Here)
           S == U[Len(path)]
           S2 == U[Len(path) + 1]
<1>1. /\ writing = "value" /\ doing = "value" /\ path # <<>> /\ Alike(frames, path, A, U) /\ type \in Int
      /\ IsRoot(origin, U) /\ Ready(Last(frames), Here) /\ type = c.id /\ c.id # TAG_COMPOUND
      /\ Expected = IF type \in DOMAIN Encoding THEN Encoding[type]
                    ELSE IF type = TAG_LIST THEN "byte" ELSE "varint"
  BY WaitedFor DEF WriteValue, PairOK, PairIs, Here
<1>2. Len(path) \in 0..MaxDepth /\ c \in S /\ c \in A /\ Formed(c, S2)
  BY <1>1, ChildOK DEF Here, Ready
<1> HIDE DEF S, S2
<1>3. CASE /\ c.id \in DOMAIN Encoding /\ Take(Encoding[c.id], c.v[1]) /\ Return(path)
  <2>1. ReadValue(c.v[1])
    BY <1>1, <1>3, Taken
  <2>2. Deliver(frames, Tag(type, TAG_END, <<c.v[1]>>))
    BY <1>1, <1>3, <2>1, TypeNumbers DEF ReadValue
  <2>3. c.v = <<c.v[1]>> /\ c.of = TAG_END
    BY <1>2, <1>3, TypeNumbers DEF Formed, Content
  <2>4. Deliver(frames, c)
    BY <1>1, <1>2, <2>2, <2>3 DEF Formed
  <2> QED
    BY <1>1, <1>3, <2>4, ReturnStays DEF Here
<1>4. ASSUME NEW left \in Int, c.id \in Containers, left = Len(c.v) \/ c.id = TAG_LIST,
             frames' = Append(frames, Frame(c.id, c.of, left)), path' = Append(path, Step(c)), type' = type,
             doing' = IF c.id = TAG_LIST THEN "count" ELSE "next", writing' = doing'
      PROVE  PairOK(A, U)'
  <2> DEFINE g == Frame(c.id, c.of, left)
             s == Step(c)
  <2>1. /\ g \in Frames(A) /\ s \in Steps(A) /\ s.tag = c /\ s.pos = 0 /\ Level(g, s, S)
        /\ left = Len(c.v) => Counted(g, s)
    <3>1. c \in S /\ c \in A /\ Formed(c, S2) /\ c.id \in Containers /\ left \in Int
      BY <1>2, <1>4
    <3> HIDE DEF c
    <3> QED
      BY <3>1, NewLevel
  <2>2. frames' = Append(frames, g) /\ path' = Append(path, s)
    BY <1>4
  <2> HIDE DEF g, s
  <2>3. /\ Alike(Append(frames, g), Append(path, s), A, U) /\ Append(path, s) # <<>>
        /\ Last(Append(frames, g)) = g /\ Last(Append(path, s)) = s
    BY <1>1, <1>2, <2>1, AlikeAppended DEF Here, S
  <2>4. Last(frames') = g /\ Last(path') = s /\ Alike(frames, path, A, U)' /\ path' # <<>>
    BY <2>2, <2>3 DEF Alike
  <2>5. writing' \in {"count", "next"} /\ (c.id = TAG_LIST <=> writing' = "count")
    BY <1>4
  <2>6. c.id # TAG_COMPOUND /\ type \in Int /\ (writing' = "next" => Counted(g, s))
    BY <1>1, <1>4, <2>1, <2>5
  <2> QED
    BY <1>1, <1>4, <2>1, <2>4, <2>5, <2>6, SMTT(30) DEF PairOK, PairIs, Doings, IsRoot
<1>5. CASE /\ c.id \in DOMAIN Element /\ Take("varint", Len(c.v))
           /\ writing' = "next" /\ path' = Append(path, Step(c))
  <2>1. ReadValue(Len(c.v))
    BY <1>1, <1>5, Taken, TypeNumbers
  <2>2. c.of = TAG_END /\ Len(c.v) \in Nat
    BY <1>2, <1>5, TypeNumbers DEF Formed, Content
  <2>3. doing' = "next" /\ frames' = Append(frames, Frame(c.id, c.of, Len(c.v))) /\ type' = type
    BY <1>1, <1>5, <2>1, <2>2, TypeNumbers DEF ReadValue
  <2> QED
    BY <1>4, <1>5, <2>2, <2>3, TypeNumbers DEF Containers
<1>6. CASE /\ c.id = TAG_LIST /\ Take("byte", ElementType(c))
           /\ writing' = "count" /\ path' = Append(path, Step(c))
  <2>1. ReadValue(c.of)
    BY <1>1, <1>6, Taken, TypeNumbers DEF ElementType
  <2>2. doing' = "count" /\ frames' = Append(frames, Frame(c.id, c.of, 0)) /\ type' = type
    BY <1>1, <1>6, <2>1, TypeNumbers DEF ReadValue
  <2> QED
    BY <1>4, <1>6, <2>2, TypeNumbers DEF Containers
<1> QED
  BY <1>3, <1>5, <1>6 DEF WriteValue


LEMMA WriteCountOK ==
  ASSUME NEW A, NEW U, SoundIn(A, U), PairOK(A, U), UNCHANGED origin, WriteCount
  PROVE  PairOK(A, U)'
<1> DEFINE f == Last(frames)
           k == Len(path) - 1
           c == Here.tag
           g == [f EXCEPT !.left = Len(c.v)]
<1>1. /\ writing = "count" /\ doing = "count" /\ path # <<>> /\ Alike(frames, path, A, U) /\ type \in Int
      /\ c.id = TAG_LIST /\ Here.pos = 0 /\ IsRoot(origin, U) /\ Expected = "varint"
  BY WaitedFor DEF WriteCount, PairOK, PairIs, Here
<1>2. ReadCount(Len(c.v)) /\ writing' = "next" /\ path' = path
  BY <1>1, Taken DEF WriteCount
<1>3. /\ f \in Frames(A) /\ Here \in Steps(A) /\ Level(f, Here, U[k]) /\ f = frames[Len(frames)]
      /\ Len(frames) = Len(path) /\ Len(path) \in 1..Len(path) /\ Here = path[Len(path)] /\ k \in 0..(MaxDepth + 1)
  BY <1>1, AlikeLast, MaxDepthAssumption DEF Here
<1>4. WithLast(path, Here) = path
  <2>1. path \in Seq(Steps(A))
    BY <1>1 DEF Alike
  <2> QED
    BY <1>3, <2>1 DEF WithLast
<1>5. Len(c.v) \in Nat /\ (Len(c.v) # 0 => f.of # TAG_END)
  <2> HIDE DEF k, f, c
  <2>1. Content(Here.tag.id, Here.tag.of, Here.tag.v, U[k + 1]) /\ f.of = Here.tag.of
    BY <1>3, LevelHolds DEF Level
  <2>2. c.v \in Seq(U[k + 1]) /\ (c.v # <<>> => f.of # TAG_END)
    BY <1>1, <2>1 DEF Content, c
  <2> QED
    BY <2>2
<1>6. (IF f.of = TAG_END THEN 0 ELSE Len(c.v)) = Len(c.v)
  BY <1>5
<1>7. doing' = "next" /\ type' = type /\ frames' = WithLast(frames, g)
  BY <1>2, <1>3, <1>6 DEF ReadCount, WithLast
<1>8. g \in Frames(A) /\ g.id = f.id /\ g.of = f.of /\ g.got = f.got /\ g.left = Len(c.v)
  <2> DEFINE m == Len(c.v)
  <2>1. m \in Int /\ g = [f EXCEPT !.left = m]
    BY <1>5
  <2> HIDE DEF m, f, g
  <2>2. g \in Frames(A) /\ g.id = f.id /\ g.of = f.of /\ g.got = f.got /\ g.left = m
    BY <1>3, <2>1 DEF Frames
  <2> QED
    BY <2>2 DEF m
<1> HIDE DEF g
<1>9. Level(g, Here, U[Len(path) - 1]) /\ Counted(g, Here)
  BY <1>1, <1>3, <1>5, <1>8 DEF Level, Counted
<1>10. Alike(WithLast(frames, g), path, A, U) /\ Last(WithLast(frames, g)) = g
  <2>1. /\ Alike(WithLast(frames, g), WithLast(path, Here), A, U) /\ Last(WithLast(frames, g)) = g
    BY <1>1, <1>3, <1>8, <1>9, AlikeReplaced DEF Here
  <2> QED
    BY <1>4, <2>1
<1> QED
  BY <1>1, <1>2, <1>7, <1>9, <1>10, TypeNumbers DEF PairOK, PairIs, Doings, IsRoot, Alike, Here

LEMMA WriteElementOK ==
  ASSUME NEW A, NEW U, SoundIn(A, U), PairOK(A, U), UNCHANGED origin, WriteElement
  PROVE  PairOK(A, U)'
<1> DEFINE f == Last(frames)
           k == Len(path) - 1
           s == Here
           g == Added(f, Child(s))
           t == [s EXCEPT !.pos = s.pos + 1]
<1>1. /\ writing = "element" /\ doing = "element" /\ path # <<>> /\ Alike(frames, path, A, U) /\ type \in Int
      /\ s.tag.id # TAG_COMPOUND /\ s.tag.id # TAG_LIST /\ Counted(f, s) /\ ~ Written(s) /\ IsRoot(origin, U)
      /\ Expected = Encoding[Element[f.id]]
  BY WaitedFor DEF WriteElement, PairOK, PairIs, Here
<1>2. /\ f \in Frames(A) /\ s \in Steps(A) /\ Level(f, s, U[k]) /\ f = frames[Len(frames)]
      /\ Len(frames) = Len(path) /\ Len(path) \in 1..Len(path) /\ s = path[Len(path)] /\ k \in 0..(MaxDepth + 1)
  BY <1>1, AlikeLast, MaxDepthAssumption DEF Here
<1>3. ReadElement(Current(s)) /\ writing' = "next" /\ path' = WithLast(path, t)
  <2>1. f.id = s.tag.id
    BY <1>2 DEF Level
  <2>2. Take(Expected, Current(s)) /\ writing' = "next" /\ path' = [path EXCEPT ![Len(path)].pos = @ + 1]
    BY <1>1, <2>1 DEF WriteElement
  <2>3. [path EXCEPT ![Len(path)].pos = @ + 1] = WithLast(path, t)
    BY <1>2 DEF WithLast
  <2> QED
    BY <1>1, <2>2, <2>3, Taken
<1>4. Child(s) = Current(s)
  BY <1>1 DEF Child
<1>5. doing' = "next" /\ type' = type /\ frames' = WithLast(frames, g)
  BY <1>2, <1>3, <1>4 DEF ReadElement, WithLast
<1> HIDE DEF k, f, s
<1>6. g \in Frames(A) /\ t \in Steps(A) /\ t.tag = s.tag /\ Level(g, t, U[k]) /\ Counted(g, t)
  BY <1>1, <1>2, OneMore
<1> HIDE DEF g, t
<1>7. Level(g, t, U[Len(path) - 1]) /\ t.tag = Last(path).tag
  BY <1>6 DEF k, s, Here
<1>8. /\ Alike(WithLast(frames, g), WithLast(path, t), A, U) /\ WithLast(path, t) # <<>>
      /\ Last(WithLast(frames, g)) = g /\ Last(WithLast(path, t)) = t
  BY <1>1, <1>6, <1>7, AlikeReplaced
<1> QED
  BY <1>1, <1>3, <1>5, <1>6, <1>8, TypeNumbers DEF PairOK, PairIs, Doings, IsRoot, Alike

LEMMA WriteNextOK ==
  ASSUME NEW A, NEW U, SoundIn(A, U), PairOK(A, U), UNCHANGED origin,
         doing = "next", ReadNext, writing = "next", WriteNext
  PROVE  PairOK(A, U)'
<1> DEFINE f == Last(frames)
           k == Len(path) - 1
<1>1. /\ path # <<>> /\ Alike(frames, path, A, U) /\ type \in Int /\ IsRoot(origin, U)
      /\ Here.tag.id # TAG_COMPOUND /\ Counted(f, Here)
  BY DEF PairOK, PairIs, Here
<1>2. f \in Frames(A) /\ Here \in Steps(A) /\ Level(f, Here, U[k]) /\ k \in 0..(MaxDepth + 1)
  BY <1>1, AlikeLast, MaxDepthAssumption DEF Here
<1>3. Len(Here.tag.v) \in Nat /\ Here.pos \in Nat /\ Here.pos <= Len(Here.tag.v) /\ f.left = Len(Here.tag.v) - Here.pos /\ f.id = Here.tag.id
  <2> HIDE DEF k, f
  <2>1. Content(Here.tag.id, Here.tag.of, Here.tag.v, U[k + 1])
    BY <1>2, LevelHolds
  <2>2. Len(Here.tag.v) \in Nat
    BY <1>2, <2>1, TypeNumbers DEF Content, Level, Containers, Entries
  <2> QED
    BY <1>1, <1>2, <2>2 DEF Counted, Level, Steps
<1> HIDE DEF k
<1>4. Written(Here) => f.left <= 0
  BY <1>3 DEF Written
<1>5. ~ Written(Here) => f.left > 0
  BY <1>3 DEF Written
<1>6. CASE Written(Here)
  <2>1. Return(Front(path)) /\ ~ (f.left > 0)
    BY <1>3, <1>4, <1>6 DEF WriteNext
  <2>2. Deliver(Front(frames), Tag(f.id, f.of, f.got))
    BY <2>1 DEF ReadNext
  <2>3. Tag(f.id, f.of, f.got) = Here.tag
    BY <1>1, <1>6, ClosedAlike
  <2>4. IF Front(path) = <<>> THEN Front(frames) = <<>> /\ Here.tag = origin
        ELSE /\ Alike(Front(frames), Front(path), A, U)
             /\ Ready(Last(Front(frames)), Last(Front(path)))
             /\ Here.tag = Child(Last(Front(path)))
    BY <1>1, <1>6, ClosedAlike
  <2>5. Deliver(Front(frames), Here.tag)
    BY <2>2, <2>3
  <2> QED
    BY <1>1, <2>1, <2>4, <2>5, ReturnStays
<1>7. CASE ~ Written(Here) /\ Here.tag.id = TAG_LIST
  <2>1. Enter(path) /\ Begin(frames, f.of)
    <3>1. f.id = TAG_LIST /\ f.left > 0 /\ ~ (f.left <= 0)
      BY <1>3, <1>5, <1>7
    <3> QED
      BY <1>7, <3>1 DEF WriteNext, ReadNext
  <2>2. f.of = Child(Last(path)).id
    BY <1>1, <1>7, ChildOK DEF Here
  <2>3. Ready(Last(frames), Last(path))
    BY <1>1, <1>7, TypeNumbers DEF Ready, Here
  <2>4. Begin(frames, Child(Last(path)).id)
    BY <2>1, <2>2
  <2> QED
    BY <1>1, <2>1, <2>3, <2>4, EnterStays
<1>8. CASE ~ Written(Here) /\ Here.tag.id # TAG_LIST
  <2>1. writing' = "element" /\ path' = path /\ doing' = "element" /\ type' = type /\ frames' = frames
    <3>1. f.id # TAG_LIST /\ f.left > 0 /\ ~ (f.left <= 0)
      BY <1>3, <1>5, <1>8
    <3> QED
      BY <1>8, <3>1 DEF WriteNext, ReadNext
  <2> QED
    BY <1>1, <1>8, <2>1 DEF PairOK, PairIs, Doings, IsRoot, Alike, Here
<1> QED
  BY <1>6, <1>7, <1>8

LEMMA CarryOK ==
  ASSUME NEW A, NEW U, SoundIn(A, U), PairOK(A, U), Carry
  PROVE  PairOK(A, U)'
<1>1. origin' = origin
  BY DEF Carry
<1>2. CASE WriteRootName
  <2>1. /\ writing = "rootname" /\ doing = "rootname" /\ path # <<>> /\ Alike(frames, path, A, U) /\ type \in Int
        /\ Last(path).tag.id = TAG_COMPOUND /\ IsRoot(origin, U) /\ Expected = "string"
    BY <1>2, WaitedFor DEF WriteRootName, PairOK, PairIs
  <2>2. ReadRootName /\ writing' = "entry" /\ path' = path
    BY <1>2, <2>1, Taken DEF WriteRootName
  <2> QED
    BY <1>1, <2>1, <2>2 DEF ReadRootName, PairOK, PairIs, Doings, IsRoot, Alike
<1> QED
  BY <1>1, <1>2, WriteRootOK, WriteEntryOK, WriteNameOK, WriteValueOK, WriteCountOK, WriteElementOK DEF Carry

-----------------------------------------------------------------------------
Others == named \in BOOLEAN /\ received \in 0..MaxTokens

\* The inductive invariant.
Inv ==
  /\ Others
  /\ \/ writing = "none" /\ path = <<>> /\ SomeReader
     \/ writing # "none" /\ SomePair

NoTags == [d \in 0..(MaxDepth + 1) |-> {}]

LEMMA NothingRead ==
  ASSUME NEW r
  PROVE  SoundIn({}, NoTags) /\ ReaderIs("root", TAG_END, <<>>, r, {}, NoTags)
<1>1. SoundIn({}, NoTags)
  BY MaxDepthAssumption DEF SoundIn, Sound, NoTags
<1>2. Nested(<<>>, {}, NoTags)
  BY MaxDepthAssumption DEF Nested
<1> QED
  BY <1>1, <1>2, TypeNumbers DEF ReaderIs, Doings

AllGame == UNION {Game[d] : d \in 0..(MaxDepth + 1)}

LEMMA GameIsSound == SoundIn(AllGame, Game) /\ \A tag \in GameTags : IsRoot(tag, Game)
<1>1. \A d \in 0..(MaxDepth + 1) : Game[d] \subseteq AllGame
  BY DEF AllGame
<1>2. Game = [d \in 0..(MaxDepth + 1) |-> Game[d]]
  BY GameAssumption
<1>3. Game \in [0..(MaxDepth + 1) -> SUBSET AllGame]
  BY <1>1, <1>2
<1> QED
  BY <1>3, GameAssumption DEF SoundIn, GameTags, IsRoot

LEMMA InitOK == Init => Inv
<1> SUFFICES ASSUME Init PROVE Inv
  OBVIOUS
<1>1. ReaderIs("root", TAG_END, <<>>, result, {}, NoTags) /\ SoundIn({}, NoTags)
  BY NothingRead
<1>2. SomeReader
  BY <1>1 DEF Init, SomeReader, ReaderOK
<1> QED
  BY <1>2, MaxTokensAssumption DEF Init, Inv, Others

LEMMA StepOK == Inv /\ [Next]_vars => Inv'
<1> SUFFICES ASSUME Inv, [Next]_vars PROVE Inv'
  OBVIOUS
<1>1. CASE Receive
  <2>1. PICK token \in Tokens : Take(token.enc, token.n)
    BY <1>1 DEF Receive
  <2>2. token.n \in Int
    BY TokensAssumption
  <2>3. PICK A, U : SoundIn(A, U) /\ ReaderOK(A, U)
    BY <1>1 DEF Receive, Inv, SomeReader
  <2>4. SomeReader'
    BY <2>1, <2>2, <2>3, TakeOK
  <2>5. Others'
    BY <1>1, MaxTokensAssumption DEF Receive, Inv, Others
  <2> QED
    BY <1>1, <2>4, <2>5 DEF Receive, Inv, writer
<1>2. CASE RunOut
  <2>1. PICK A, U : SoundIn(A, U) /\ ReaderOK(A, U)
    BY <1>2 DEF RunOut, Inv, SomeReader
  <2>2. ReaderOK(A, U)'
    BY <1>2, <2>1, FailOK DEF RunOut, ReaderOK, ReaderIs
  <2>3. SomeReader'
    BY <2>1, <2>2 DEF SomeReader
  <2> QED
    BY <1>2, <2>3 DEF RunOut, Inv, Others, writer
<1>3. CASE Loop
  <2>1. Others'
    BY <1>3 DEF Loop, Inv, Others
  <2>2. CASE writing = "none"
    <3>1. PICK A, U : SoundIn(A, U) /\ ReaderOK(A, U)
      BY <2>2 DEF Inv, SomeReader
    <3>2. SomeReader'
      BY <1>3, <3>1, TurnOK DEF Loop
    <3> QED
      BY <1>3, <2>1, <2>2, <3>2 DEF Loop, Inv, writer
  <2>3. CASE writing # "none"
    <3>1. PICK A, U : SoundIn(A, U) /\ PairOK(A, U)
      BY <2>3 DEF Inv, SomePair
    <3>2. writing = "next"
      BY <1>3, <3>1 DEF Loop, PairOK, PairIs
    <3>3. PairOK(A, U)'
      BY <1>3, <3>1, <3>2, WriteNextOK DEF Loop
    <3>4. writing' # "none"
      BY <3>3 DEF PairOK, PairIs, Doings
    <3> QED
      BY <2>1, <3>1, <3>3, <3>4 DEF Inv, SomePair
  <2> QED
    BY <2>2, <2>3
<1>4. CASE Carry
  <2>1. writing # "none"
    BY <1>4 DEF Carry, WriteRoot, WriteRootName, WriteEntry, WriteName, WriteValue, WriteCount, WriteElement
  <2>2. PICK A, U : SoundIn(A, U) /\ PairOK(A, U)
    BY <2>1 DEF Inv, SomePair
  <2>3. PairOK(A, U)'
    BY <1>4, <2>2, CarryOK
  <2>4. writing' # "none"
    BY <2>3 DEF PairOK, PairIs, Doings
  <2>5. Others'
    BY <1>4 DEF Carry, Inv, Others
  <2> QED
    BY <2>2, <2>3, <2>4, <2>5 DEF Inv, SomePair
<1>5. CASE Pass
  <2>1. \E A, U : SoundIn(A, U) /\ IsRoot(result, U) /\ (writing # "none" => result = origin)
    BY <1>5 DEF Pass, Inv, SomeReader, SomePair, ReaderOK, ReaderIs, PairOK, PairIs
  <2>2. PICK A, U : SoundIn(A, U) /\ IsRoot(result, U) /\ (writing # "none" => result = origin)
    BY <2>1
  <2>3. origin' = result
    BY <1>5, <2>2 DEF Pass
  <2>4. PairOK(A, U)'
    BY <1>5, <2>2, <2>3, TypeNumbers DEF Pass, PairOK, PairIs, Doings, IsRoot
  <2>5. Others' /\ writing' # "none"
    BY <1>5, MaxTokensAssumption DEF Pass, Inv, Others
  <2> QED
    BY <2>2, <2>4, <2>5 DEF Inv, SomePair
<1>6. CASE Another
  <2>1. Others'
    BY <1>6, MaxTokensAssumption DEF Another, Inv, Others
  <2>2. CASE writing' = "none" /\ path' = <<>> /\ origin' = None
    <3>1. ReaderIs("root", TAG_END, <<>>, None, {}, NoTags) /\ SoundIn({}, NoTags)
      BY NothingRead
    <3>2. ReaderOK({}, NoTags)'
      BY <1>6, <3>1 DEF Another, ReaderOK
    <3>3. SomeReader'
      BY <3>1, <3>2 DEF SomeReader
    <3> QED
      BY <2>1, <2>2, <3>3 DEF Inv
  <2>3. ASSUME NEW tag \in GameTags, writing' = "root", path' = <<Step(tag)>>, origin' = tag
        PROVE  Inv'
    <3>1. PairOK(AllGame, Game)'
      BY <1>6, <2>3, GameIsSound, TypeNumbers DEF Another, PairOK, PairIs, Doings
    <3> QED
      BY <2>1, <2>3, <3>1, GameIsSound DEF Inv, SomePair
  <2> QED
    BY <1>6, <2>2, <2>3 DEF Another
<1>7. CASE UNCHANGED vars
  <2>1. Others'
    BY <1>7 DEF Inv, Others, vars
  <2>2. SomeReader => SomeReader'
    BY <1>7 DEF SomeReader, ReaderOK, vars
  <2>3. SomePair => SomePair'
    BY <1>7 DEF SomePair, PairOK, PairIs, IsRoot, Alike, vars
  <2> QED
    BY <1>7, <2>1, <2>2, <2>3 DEF Inv, vars
<1> QED
  BY <1>1, <1>2, <1>3, <1>4, <1>5, <1>6, <1>7 DEF Next

\* Neither a reader nor a writer is ever deeper in calls of its own than the
\* limit on the nesting says, whatever that limit is and whatever is sent.
THEOREM TypeCorrect == Spec => []TypeOK
<1>1. Inv => TypeOK
  <2> SUFFICES ASSUME Inv PROVE TypeOK
    OBVIOUS
  <2>1. CASE writing = "none" /\ path = <<>> /\ SomeReader
    BY <2>1, MaxDepthAssumption DEF Inv, Others, SomeReader, ReaderOK, ReaderIs, Nested, TypeOK, Doings
  <2>2. CASE writing # "none" /\ SomePair
    <3>1. PICK A, U : SoundIn(A, U) /\ PairOK(A, U)
      BY <2>2 DEF SomePair
    <3>2. /\ doing = writing /\ writing \in Doings /\ type \in Int
          /\ writing = "root" => frames = <<>> /\ path = <<Step(origin)>>
          /\ writing = "done" => frames = <<>> /\ path = <<>>
          /\ writing \notin {"root", "done"} => Len(frames) = Len(path) /\ Len(path) <= MaxDepth + 1
      BY <3>1 DEF PairOK, PairIs, Alike
    <3>3. Len(frames) <= MaxDepth + 1 /\ Len(path) <= MaxDepth + 1
      BY <3>2, MaxDepthAssumption
    <3> QED
      BY <3>2, <3>3 DEF Inv, Others, TypeOK
  <2> QED
    BY <2>1, <2>2 DEF Inv
<1> QED
  BY <1>1, InitOK, StepOK, PTL DEF Spec

\* However many protocols a tag has passed, the next one reads what the first
\* one read, to the last token that was written and no further.
THEOREM TagIsKept == Spec => []TagKept
<1>1. Inv => TagKept
  BY DEF Inv, SomePair, PairOK, PairIs, TagKept
<1> QED
  BY <1>1, InitOK, StepOK, PTL DEF Spec

\* A tag that one protocol has read is one that every later one reads.
THEOREM NoLaterFailure == Spec => []NoneRefused
<1>1. Inv => NoneRefused
  BY DEF Inv, SomePair, PairOK, PairIs, NoneRefused, Doings
<1> QED
  BY <1>1, InitOK, StepOK, PTL DEF Spec

=============================================================================
