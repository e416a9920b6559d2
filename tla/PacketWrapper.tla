---------------------------- MODULE PacketWrapper ----------------------------
(***************************************************************************)
(* The wrapper a handler sees a packet through (codec/wrapper.py), as an   *)
(* interpreter.  A payload is a sequence of tokens, one for each primitive *)
(* value on the wire:                                                      *)
(*                                                                         *)
(*   enc  how it is encoded: a reader of another encoding would misparse   *)
(*   n    its value, where control depends on it; else a datum that tells  *)
(*        the values of one payload apart                                  *)
(*   of   the field the sender meant it to be.  No code reads it: it is    *)
(*        the ghost that lets a property say a value arrived as what it    *)
(*        was sent as.                                                     *)
(*                                                                         *)
(* A type of codec/types is the sequence of the fields it reads, which is  *)
(* the sequence of those it writes, and a handler is a sequence of steps   *)
(* on such types.  What a step does to the wrapper is Perform.             *)
(***************************************************************************)
EXTENDS Integers, Sequences, TLC

(***************************************************************************)
(* The vocabulary.  A field may name the values V its sender can choose,   *)
(* when control depends on it; {} leaves it a datum.                       *)
(***************************************************************************)
Field(e) == <<[op |-> "field", x |-> "", enc |-> e, V |-> {}]>>
When(x, S, body) == <<[op |-> "when", x |-> x, S |-> S, t |-> body]>>
Unless(x, S, body) == <<[op |-> "unless", x |-> x, S |-> S, t |-> body]>>
Times(x, body) == <<[op |-> "times", x |-> x, t |-> body]>>
\* A type that raises unless the field x is one of S.
Only(x, S) == <<[op |-> "only", x |-> x, S |-> S]>>

\* The type T as the field x: one token, or the run of tokens it takes.
F(x, T) ==
  LET name(i) == IF i.op = "field" /\ i.x = "" THEN [i EXCEPT !.x = x] ELSE i
      T1 == [k \in 1..Len(T) |-> name(T[k])]
  IN IF Len(T) = 1 /\ T[1].op = "field" THEN T1
     ELSE <<[op |-> "whole", x |-> x, t |-> T1]>>

\* The field x, whose sender chooses one of the values V.
Is(x, T, V) == <<[F(x, T)[1] EXCEPT !.V = V]>>

\* The methods of the wrapper, each on the fields of a type.
Pass(T) == <<[op |-> "pass", t |-> T]>>
Read(T) == <<[op |-> "read", t |-> T]>>
Write(T) == <<[op |-> "write", t |-> T]>>
\* map(A, B): the field x read as A and written as B.
As(x, A, B) == Read(F(x, A)) \o Write(F(x, B))

\* A value the handler makes up itself: written at once, or kept in x.  A
\* datum made up is numbered 0, as no datum of a sender is.
New(x, T, n) == <<[op |-> "new", x |-> x, enc |-> T[1].enc, n |-> n]>>
Let(x, of, n) == <<[op |-> "let", x |-> x, of |-> of, n |-> n]>>
\* The length of the lists of lengths xs put together, as the count x.
Sum(x, xs) == Let(x, "#", 0) \o [k \in 1..Len(xs) |-> [op |-> "add", x |-> x, y |-> xs[k]]]
\* The local variable x through the function f, where f has a value for it.
Through(x, f) == <<[op |-> "through", x |-> x, f |-> f]>>

\* The local variable x taken to be meant as the field of; grown by k; or
\* raised to the variable y.
Meant(x, of) == <<[op |-> "meant", x |-> x, of |-> of]>>
Plus(x, k) == <<[op |-> "plus", x |-> x, k |-> k]>>
AtLeast(x, y) == <<[op |-> "at least", x |-> x, y |-> y]>>
\* Steps on a first pass over fields that a second pass reads again.
Ahead(body) == <<[op |-> "ahead", t |-> body]>>

PassAll == <<[op |-> "rest"]>>
DropAll == <<[op |-> "drop"]>>
\* All that is left but the last field, cut off by the bytes a T takes.
PassAllBut(T) == <<[op |-> "cut", enc |-> T[1].enc]>>
\* Raise if anything is left to read.
AtEnd == <<[op |-> "end"]>>
Raise == <<[op |-> "stop", st |-> "raised"]>>
Cancel == <<[op |-> "stop", st |-> "cancelled"]>>

(***************************************************************************)
(* The wrapper: what is left to read, what is written, the handler's local *)
(* variables, what the handler has still to do, and how it stands.  What   *)
(* is to do is a sequence of steps, each with the method it is under.      *)
(***************************************************************************)
Do(mode, T) == [k \in 1..Len(T) |-> [mode |-> mode, i |-> T[k]]]
Wrapper(mode, T, payload) ==
  [in |-> payload, out |-> <<>>, env |-> ("" :> <<>>), todo |-> Do(mode, T), st |-> "ok"]

Stop(s, why) == [s EXCEPT !.st = why]
Local(s, x) == s.env[x][1]
Bind(s, x, toks) == [s EXCEPT !.env = (x :> toks) @@ @]
Emit(s, toks) == [s EXCEPT !.out = @ \o toks]
\* The steps of T first, and the step i before all that is left.
First(s, mode, T) == [s EXCEPT !.todo = Do(mode, T) \o @]
Then(s, mode, i) == First(s, mode, <<i>>)

\* A value as the encoding holds it: a byte keeps the low eight bits.
Fit(enc, n) == IF enc = "b1" THEN n % 256 ELSE n

\* Reading a field: past the end, of another encoding, or right.  A checking
\* walk also asks that the token is meant as this field.
Take(mode, i, s) ==
  IF s.in = <<>> THEN Stop(s, "short")
  ELSE IF \/ Head(s.in).enc # i.enc
          \/ mode = "check" /\ Head(s.in).of # i.x
       THEN Stop(s, "misread")
  ELSE Bind([s EXCEPT !.in = Tail(@)], i.x, <<Head(s.in)>>)

\* What a field becomes when the handler's value of it is written.
Encoded(i, tok) == [enc |-> i.enc, of |-> tok.of, n |-> Fit(i.enc, tok.n)]

InField(mode, i, s) ==
  IF mode = "write" THEN Emit(s, <<Encoded(i, Local(s, i.x))>>)
  ELSE LET r == Take(mode, i, s)
       IN IF mode = "pass" /\ r.st = "ok" THEN Emit(r, <<Head(s.in)>>) ELSE r

\* A type as one field: its tokens are kept when the last of them is read.
Whole(mode, i, s) ==
  IF mode = "write" THEN Emit(s, s.env[i.x])
  ELSE First(Then(s, mode, [op |-> "keep", x |-> i.x, from |-> s.in]), mode, i.t)
Keep(i, s) == Bind(s, i.x, SubSeq(i.from, 1, Len(i.from) - Len(s.in)))

\* The steps t, n times over.
Again(mode, n, t, s) ==
  IF n = 0 THEN s ELSE First(Then(s, mode, [op |-> "again", n |-> n - 1, t |-> t]), mode, t)

\* What the step i does to the wrapper it is taken on.
Perform(mode, i, s) ==
  CASE i.op = "field" -> InField(mode, i, s)
    [] i.op = "whole" -> Whole(mode, i, s)
    [] i.op = "keep" -> Keep(i, s)
    [] i.op = "when" ->
         IF Local(s, i.x).n \in i.S THEN First(s, mode, i.t) ELSE s
    [] i.op = "unless" ->
         IF Local(s, i.x).n \in i.S THEN s ELSE First(s, mode, i.t)
    [] i.op = "only" ->
         IF Local(s, i.x).n \in i.S THEN s ELSE Stop(s, "raised")
    [] i.op = "times" -> Again(mode, Local(s, i.x).n, i.t, s)
    [] i.op = "again" -> Again(mode, i.n, i.t, s)
    [] i.op \in {"pass", "read", "write"} -> First(s, i.op, i.t)
    [] i.op = "new" -> Emit(s, <<[enc |-> i.enc, of |-> i.x, n |-> Fit(i.enc, i.n)]>>)
    [] i.op = "let" -> Bind(s, i.x, <<[enc |-> "", of |-> i.of, n |-> i.n]>>)
    [] i.op = "add" ->
         Bind(s, i.x, <<[Local(s, i.x) EXCEPT !.n = @ + Local(s, i.y).n]>>)
    [] i.op = "through" ->
         IF Local(s, i.x).n \in DOMAIN i.f
         THEN Bind(s, i.x, <<[Local(s, i.x) EXCEPT !.n = i.f[@]]>>) ELSE s
    [] i.op = "meant" -> Bind(s, i.x, <<[Local(s, i.x) EXCEPT !.of = i.of]>>)
    [] i.op = "plus" -> Bind(s, i.x, <<[Local(s, i.x) EXCEPT !.n = @ + i.k]>>)
    [] i.op = "at least" ->
         IF Local(s, i.y).n <= Local(s, i.x).n THEN s
         ELSE Bind(s, i.x, <<[Local(s, i.x) EXCEPT !.n = Local(s, i.y).n]>>)
    [] i.op = "ahead" -> First(Then(s, mode, [op |-> "back", in |-> s.in, out |-> s.out]), mode, i.t)
    [] i.op = "back" -> [s EXCEPT !.in = i.in, !.out = i.out]
    [] i.op = "rest" -> [Emit(s, s.in) EXCEPT !.in = <<>>]
    [] i.op = "cut" ->
         IF s.in = <<>> \/ s.in[Len(s.in)].enc # i.enc THEN Stop(s, "misread")
         ELSE [Emit(s, SubSeq(s.in, 1, Len(s.in) - 1)) EXCEPT !.in = <<>>]
    [] i.op = "end" -> IF s.in = <<>> THEN s ELSE Stop(s, "raised")
    [] i.op = "drop" -> [s EXCEPT !.in = <<>>]
    [] i.op = "stop" -> Stop(s, i.st)

\* The next step of a handler, unless it has ended or one ended it early.
Ended(s) == s.st # "ok" \/ s.todo = <<>>
Step(s) == Perform(Head(s.todo).mode, Head(s.todo).i, [s EXCEPT !.todo = Tail(@)])

\* to_bytes: what was written, then whatever the handler left unread.
ToBytes(s) == s.out \o s.in

(***************************************************************************)
(* The programs a program is made of: itself, the bodies of its steps, and *)
(* theirs, six levels deep.                                                *)
(***************************************************************************)
Nesting == {"whole", "when", "unless", "times", "pass", "read", "write", "ahead"}
Plain ==
  {"field", "only", "new", "let", "add", "through", "meant", "plus", "at least", "rest", "cut",
   "end", "drop", "stop"}
Bodies(T) == {T[k].t : k \in {j \in 1..Len(T) : T[j].op \in Nesting}}
Inside(P) == P \cup UNION {Bodies(T) : T \in P}
Parts(T) == Inside(Inside(Inside(Inside(Inside(Inside({T}))))))
=============================================================================
