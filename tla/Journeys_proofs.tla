--------------------------- MODULE Journeys_proofs ---------------------------
(***************************************************************************)
(* For every set of routes over registered protocols, every payload and    *)
(* every choice of a sender: a packet is where its route and its handler   *)
(* say, only a handler that may drop it does, the journey implements       *)
(* Delivery, and what each protocol keeps arrives.                         *)
(***************************************************************************)
EXTENDS Journeys, TLAPS

(***************************************************************************)
(* What a handler does to its wrapper.  Everything it has still to do is a *)
(* step of one of its parts, or one that the wrapper has put in to come    *)
(* back to.                                                                *)
(***************************************************************************)
Fields == {"in", "out", "env", "todo", "st"}

PartOf(i, h) ==
  \/ \E T \in Parts(h) : \E k \in 1..Len(T) : i = T[k]
  \/ i.op = "again" /\ i.t \in Parts(h)
  \/ i.op \in {"keep", "back"}

Follows(s, h) ==
  /\ DOMAIN s = Fields
  /\ \E S : s.todo \in Seq(S) /\ \A e \in S : PartOf(e.i, h)

\* A program whose parts are all its own, of steps that the wrapper knows.
WellFormed(h) ==
  /\ Inside(Parts(h)) \subseteq Parts(h)
  /\ \A T \in Parts(h) : Len(T) \in Nat /\ \A k \in 1..Len(T) : T[k].op \in Nesting \cup Plain

LEMMA PartsHaveItself == ASSUME NEW h PROVE h \in Parts(h)
  BY DEF Parts, Inside

LEMMA BodyIsPart ==
  ASSUME NEW h, WellFormed(h), NEW T \in Parts(h), NEW k \in 1..Len(T), T[k].op \in Nesting
  PROVE  T[k].t \in Parts(h)
<1>1. T[k].t \in Bodies(T)
  BY DEF Bodies
<1>2. T[k].t \in Inside(Parts(h))
  BY <1>1 DEF Inside
<1> QED
  BY <1>2 DEF WellFormed

LEMMA FirstFollows ==
  ASSUME NEW h, NEW s, Follows(s, h), NEW mode, NEW T, Len(T) \in Nat,
         \A k \in 1..Len(T) : PartOf(T[k], h)
  PROVE  Follows(First(s, mode, T), h) /\ First(s, mode, T).st = s.st
<1>1. PICK S : s.todo \in Seq(S) /\ \A e \in S : PartOf(e.i, h)
  BY DEF Follows
<1> DEFINE new == {Do(mode, T)[k] : k \in 1..Len(T)}
<1>2. Do(mode, T) \in Seq(new)
  BY DEF Do
<1>3. \A e \in new : PartOf(e.i, h)
  BY DEF Do
<1>4. Do(mode, T) \o s.todo \in Seq(new \cup S)
  <2>1. Do(mode, T) \in Seq(new \cup S) /\ s.todo \in Seq(new \cup S)
    <3> HIDE DEF new
    <3> QED BY <1>1, <1>2
  <2> HIDE DEF new
  <2> QED BY <2>1
<1>5. DOMAIN First(s, mode, T) = Fields /\ First(s, mode, T).todo = Do(mode, T) \o s.todo
      /\ First(s, mode, T).st = s.st
  BY DEF First, Follows, Fields
<1>6. \A e \in new \cup S : PartOf(e.i, h)
  BY <1>1, <1>3
<1> HIDE DEF new
<1> QED
  BY <1>4, <1>5, <1>6 DEF Follows

LEMMA ThenFollows ==
  ASSUME NEW h, NEW s, Follows(s, h), NEW mode, NEW i, PartOf(i, h)
  PROVE  Follows(Then(s, mode, i), h) /\ Then(s, mode, i).st = s.st
<1>1. Len(<<i>>) = 1 /\ <<i>>[1] = i
  OBVIOUS
<1>2. \A k \in 1..Len(<<i>>) : PartOf(<<i>>[k], h)
  BY <1>1
<1> QED
  BY <1>1, <1>2, FirstFollows DEF Then

\* A wrapper with the same to do.
LEMMA SameFollows ==
  ASSUME NEW h, NEW s, Follows(s, h), NEW r, DOMAIN r = DOMAIN s, r.todo = s.todo
  PROVE  Follows(r, h)
  BY DEF Follows

LEMMA EmitIsSame ==
  ASSUME NEW h, NEW s, Follows(s, h), NEW toks
  PROVE  Follows(Emit(s, toks), h) /\ Emit(s, toks).st = s.st
<1>1. DOMAIN Emit(s, toks) = DOMAIN s /\ Emit(s, toks).todo = s.todo /\ Emit(s, toks).st = s.st
  BY DEF Emit, Follows, Fields
<1> QED
  BY <1>1, SameFollows

LEMMA BindIsSame ==
  ASSUME NEW h, NEW s, Follows(s, h), NEW x, NEW toks
  PROVE  Follows(Bind(s, x, toks), h) /\ Bind(s, x, toks).st = s.st
<1>1. /\ DOMAIN Bind(s, x, toks) = DOMAIN s
      /\ Bind(s, x, toks).todo = s.todo /\ Bind(s, x, toks).st = s.st
  BY DEF Bind, Follows, Fields
<1> QED
  BY <1>1, SameFollows

LEMMA StopIsSame ==
  ASSUME NEW h, NEW s, Follows(s, h), NEW why
  PROVE  Follows(Stop(s, why), h) /\ Stop(s, why).st = why
<1>1. DOMAIN Stop(s, why) = DOMAIN s /\ Stop(s, why).todo = s.todo /\ Stop(s, why).st = why
  BY DEF Stop, Follows, Fields
<1> QED
  BY <1>1, SameFollows

LEMMA InputIsSame ==
  ASSUME NEW h, NEW s, Follows(s, h), NEW toks
  PROVE  Follows([s EXCEPT !.in = toks], h) /\ [s EXCEPT !.in = toks].st = s.st
<1>1. /\ DOMAIN [s EXCEPT !.in = toks] = DOMAIN s
      /\ [s EXCEPT !.in = toks].todo = s.todo /\ [s EXCEPT !.in = toks].st = s.st
  BY DEF Follows, Fields
<1> QED
  BY <1>1, SameFollows

LEMMA BodyFollows ==
  ASSUME NEW h, WellFormed(h), NEW s, Follows(s, h), NEW mode, NEW T \in Parts(h)
  PROVE  Follows(First(s, mode, T), h) /\ First(s, mode, T).st = s.st
<1>1. Len(T) \in Nat
  BY DEF WellFormed
<1>2. \A k \in 1..Len(T) : PartOf(T[k], h)
  BY DEF PartOf
<1> QED
  BY <1>1, <1>2, FirstFollows

LEMMA AgainFollows ==
  ASSUME NEW h, WellFormed(h), NEW s, Follows(s, h), NEW mode, NEW n, NEW T \in Parts(h)
  PROVE  Follows(Again(mode, n, T, s), h) /\ Again(mode, n, T, s).st = s.st
<1> DEFINE i == [op |-> "again", n |-> n - 1, t |-> T]
<1>1. PartOf(i, h)
  BY DEF PartOf
<1>2. Follows(Then(s, mode, i), h) /\ Then(s, mode, i).st = s.st
  BY <1>1, ThenFollows
<1> HIDE DEF i
<1>3. Follows(First(Then(s, mode, i), mode, T), h) /\ First(Then(s, mode, i), mode, T).st = s.st
  BY <1>2, BodyFollows
<1> QED
  BY <1>3 DEF Again, i

\* A step is cancelling only if it is the one that says so.
Keeps(r, s, h) == Follows(r, h) /\ (r.st = "cancelled" => s.st = "cancelled" \/ Cancels(h))

LEMMA NestingFollows ==
  ASSUME NEW h, WellFormed(h), NEW s, Follows(s, h), NEW mode, NEW i, PartOf(i, h),
         i.op \in Nesting \cup {"again", "keep", "back"}
  PROVE  Keeps(Perform(mode, i, s), s, h)
<1>1. ASSUME i.op \in Nesting \cup {"again"}
      PROVE  i.t \in Parts(h)
  <2>1. CASE \E T \in Parts(h) : \E k \in 1..Len(T) : i = T[k]
    <3>1. PICK T \in Parts(h) : \E k \in 1..Len(T) : i = T[k]
      BY <2>1
    <3>2. PICK k \in 1..Len(T) : i = T[k]
      BY <3>1
    <3>3. CASE i.op \in Nesting
      BY <3>2, <3>3, BodyIsPart
    <3>4. CASE i.op = "again"
      BY <3>2, <3>4 DEF WellFormed, Nesting, Plain
    <3> QED
      BY <1>1, <3>3, <3>4
  <2> QED
    BY <1>1, <2>1 DEF PartOf, Nesting
<1>2. CASE i.op = "whole"
  <2> DEFINE j == [op |-> "keep", x |-> i.x, from |-> s.in]
  <2>1. PartOf(j, h)
    BY DEF PartOf
  <2> HIDE DEF j
  <2>2. Follows(Then(s, mode, j), h) /\ Then(s, mode, j).st = s.st
    BY <2>1, ThenFollows
  <2>3. Keeps(First(Then(s, mode, j), mode, i.t), s, h)
    BY <1>1, <1>2, <2>2, BodyFollows DEF Nesting, Keeps
  <2>4. Keeps(Emit(s, s.env[i.x]), s, h)
    BY EmitIsSame DEF Keeps
  <2> QED
    BY <1>2, <2>3, <2>4 DEF Perform, Whole, j
<1>3. CASE i.op = "ahead"
  <2> DEFINE j == [op |-> "back", in |-> s.in, out |-> s.out]
  <2>1. PartOf(j, h)
    BY DEF PartOf
  <2> HIDE DEF j
  <2>2. Follows(Then(s, mode, j), h) /\ Then(s, mode, j).st = s.st
    BY <2>1, ThenFollows
  <2>3. Keeps(First(Then(s, mode, j), mode, i.t), s, h)
    BY <1>1, <1>3, <2>2, BodyFollows DEF Nesting, Keeps
  <2> QED
    BY <1>3, <2>3 DEF Perform, j
<1>4. CASE i.op \in {"when", "unless", "pass", "read", "write"}
  <2>1. \A m : Keeps(First(s, m, i.t), s, h)
    BY <1>1, <1>4, BodyFollows DEF Nesting, Keeps
  <2> QED
    BY <1>4, <2>1 DEF Perform, Keeps
<1>5. CASE i.op \in {"times", "again"}
  <2>1. \A n : Keeps(Again(mode, n, i.t, s), s, h)
    BY <1>1, <1>5, AgainFollows DEF Nesting, Keeps
  <2> QED
    BY <1>5, <2>1 DEF Perform
<1>6. CASE i.op = "keep"
  <2>1. Perform(mode, i, s) = Keep(i, s)
    BY <1>6 DEF Perform
  <2>2. \A x, toks : Keeps(Bind(s, x, toks), s, h)
    BY BindIsSame DEF Keeps
  <2> QED
    BY <2>1, <2>2 DEF Keep
<1>7. CASE i.op = "back"
  <2>1. Perform(mode, i, s) = [s EXCEPT !.in = i.in, !.out = i.out]
    BY <1>7 DEF Perform
  <2>2. /\ DOMAIN Perform(mode, i, s) = DOMAIN s
        /\ Perform(mode, i, s).todo = s.todo /\ Perform(mode, i, s).st = s.st
    BY <2>1 DEF Follows, Fields
  <2> QED
    BY <2>2, SameFollows DEF Keeps
<1> QED
  BY <1>2, <1>3, <1>4, <1>5, <1>6, <1>7 DEF Nesting

LEMMA PlainFollows ==
  ASSUME NEW h, NEW s, Follows(s, h), NEW mode, NEW i, PartOf(i, h), i.op \in Plain
  PROVE  Keeps(Perform(mode, i, s), s, h)
<1>1. Keeps(s, s, h)
  BY DEF Keeps
<1>2. \A toks : Keeps(Emit(s, toks), s, h)
  BY EmitIsSame DEF Keeps
<1>3. \A x, toks : Keeps(Bind(s, x, toks), s, h)
  BY BindIsSame DEF Keeps
<1>4. \A why : why # "cancelled" => Keeps(Stop(s, why), s, h)
  BY StopIsSame DEF Keeps
<1>5. CASE i.op = "stop"
  <2>1. Perform(mode, i, s) = Stop(s, i.st)
    BY <1>5 DEF Perform
  <2>2. i.st = "cancelled" => Cancels(h)
    BY <1>5 DEF PartOf, Cancels
  <2> QED
    BY <2>1, <2>2, StopIsSame DEF Keeps
<1>6. CASE i.op = "field"
  <2>1. Perform(mode, i, s) = InField(mode, i, s)
    BY <1>6 DEF Perform
  <2> DEFINE r == Take(mode, i, s)
             rest == [s EXCEPT !.in = Tail(s.in)]
  <2>2. Keeps(r, s, h)
    <3>1. Follows(rest, h) /\ rest.st = s.st
      BY InputIsSame
    <3> HIDE DEF rest
    <3>2. Keeps(Bind(rest, i.x, <<Head(s.in)>>), s, h)
      BY <3>1, BindIsSame DEF Keeps
    <3>3. r \in {Stop(s, "short"), Stop(s, "misread"), Bind(rest, i.x, <<Head(s.in)>>)}
      BY DEF Take, rest
    <3> QED
      BY <1>4, <3>2, <3>3
  <2> HIDE DEF r
  <2>3. Keeps(Emit(r, <<Head(s.in)>>), s, h)
    BY <2>2, EmitIsSame DEF Keeps
  <2> QED
    BY <1>2, <2>1, <2>2, <2>3 DEF InField, r
<1>7. CASE i.op \in {"only", "end"}
  BY <1>1, <1>4, <1>7 DEF Perform
<1>8. CASE i.op = "drop"
  <2>1. Perform(mode, i, s) = [s EXCEPT !.in = <<>>]
    BY <1>8 DEF Perform
  <2> QED
    BY <2>1, InputIsSame DEF Keeps
<1>9. CASE i.op \in {"rest", "cut"}
  <2>1. ASSUME NEW toks
        PROVE  Keeps([Emit(s, toks) EXCEPT !.in = <<>>], s, h)
    BY EmitIsSame, InputIsSame DEF Keeps
  <2>2. \/ Perform(mode, i, s) = Stop(s, "misread")
        \/ \E toks : Perform(mode, i, s) = [Emit(s, toks) EXCEPT !.in = <<>>]
    BY <1>9 DEF Perform
  <2> QED
    BY <1>4, <2>1, <2>2
<1>10. CASE i.op \in {"new", "let", "add", "through", "meant", "plus", "at least"}
  <2>1. \/ Perform(mode, i, s) = s
        \/ \E toks : Perform(mode, i, s) = Emit(s, toks)
        \/ \E toks : Perform(mode, i, s) = Bind(s, i.x, toks)
    BY <1>10 DEF Perform
  <2> QED
    BY <1>1, <1>2, <1>3, <2>1
<1> QED
  BY <1>5, <1>6, <1>7, <1>8, <1>9, <1>10 DEF Plain

LEMMA PerformFollows ==
  ASSUME NEW h, WellFormed(h), NEW s, Follows(s, h), NEW mode, NEW i, PartOf(i, h)
  PROVE  Keeps(Perform(mode, i, s), s, h)
<1>1. i.op \in Nesting \cup {"again", "keep", "back"} \cup Plain
  BY DEF PartOf, WellFormed
<1> QED
  BY <1>1, NestingFollows, PlainFollows

\* The wrapper of a handler has its steps to do, and never others.
LEMMA WrapperFollows ==
  ASSUME NEW h, WellFormed(h), NEW mode, NEW p
  PROVE  Follows(Wrapper(mode, h, p), h) /\ Wrapper(mode, h, p).st = "ok"
<1>1. h \in Parts(h) /\ Len(h) \in Nat
  BY PartsHaveItself DEF WellFormed
<1> DEFINE new == {Do(mode, h)[k] : k \in 1..Len(h)}
<1>2. Do(mode, h) \in Seq(new)
  BY <1>1 DEF Do
<1>3. \A e \in new : PartOf(e.i, h)
  BY <1>1 DEF Do, PartOf
<1>4. /\ DOMAIN Wrapper(mode, h, p) = Fields
      /\ Wrapper(mode, h, p).todo = Do(mode, h) /\ Wrapper(mode, h, p).st = "ok"
  BY DEF Wrapper, Fields
<1> HIDE DEF new
<1> QED
  BY <1>2, <1>3, <1>4 DEF Follows

LEMMA StepFollows ==
  ASSUME NEW h, WellFormed(h), NEW s, Follows(s, h), ~ Ended(s)
  PROVE  Keeps(Step(s), s, h)
<1>1. PICK S : s.todo \in Seq(S) /\ \A e \in S : PartOf(e.i, h)
  BY DEF Follows
<1> DEFINE r == [s EXCEPT !.todo = Tail(@)]
<1>2. DOMAIN r = Fields /\ r.todo = Tail(s.todo) /\ r.st = s.st
  BY DEF Follows, Fields
<1>3. Head(s.todo) \in S /\ Tail(s.todo) \in Seq(S)
  BY <1>1 DEF Ended
<1>4. Follows(r, h)
  BY <1>1, <1>2, <1>3 DEF Follows
<1>5. PartOf(Head(s.todo).i, h)
  BY <1>1, <1>3
<1> HIDE DEF r
<1>6. Keeps(Perform(Head(s.todo).mode, Head(s.todo).i, r), r, h)
  BY <1>4, <1>5, PerformFollows
<1>7. Step(s) = Perform(Head(s.todo).mode, Head(s.todo).i, r)
  BY DEF Step, r
<1> QED
  BY <1>2, <1>6, <1>7 DEF Keeps

(***************************************************************************)
(* The way of a packet.                                                    *)
(***************************************************************************)
LEMMA VersionsAre == VersionSet = {860, 898, 924, 944, 975, 1001}
  BY DEF VersionSet, Versions

\* On every way there is a next version, with nothing between.
LEMMA NextToIsNear ==
  ASSUME NEW v \in VersionSet, NEW w \in VersionSet, v # w
  PROVE  /\ NextTo(v, w) \in Between(v, w) \ {v}
         /\ Between(v, NextTo(v, w)) = {v, NextTo(v, w)}
<1>1. \E x \in Between(v, w) \ {v} : Between(v, x) = {v, x}
  BY VersionsAre, SMTT(60) DEF Between
<1> QED
  BY <1>1 DEF NextTo

\* One version on, a packet is still on its way, and has passed those it had.
LEMMA OneStepOn ==
  ASSUME NEW f \in VersionSet, NEW t \in VersionSet, NEW a \in Between(f, t), a # t
  PROVE  /\ a \in VersionSet /\ NextTo(a, t) # a
         /\ NextTo(a, t) \in Between(f, t)
         /\ Between(f, NextTo(a, t)) = Between(f, a) \cup {NextTo(a, t)}
<1> DEFINE n == NextTo(a, t)
<1>1. a \in VersionSet
  BY DEF Between
<1>2. n \in Between(a, t) \ {a} /\ Between(a, n) = {a, n}
  BY <1>1, NextToIsNear
<1> HIDE DEF n
<1>3. VersionSet \subseteq Int
  BY VersionsAre
<1>4. n \in VersionSet /\ n # a
  BY <1>2 DEF Between
<1>5. \A x \in VersionSet : (a <= x /\ x <= n) \/ (n <= x /\ x <= a) => x = a \/ x = n
  BY <1>2 DEF Between
<1>6. n \in Between(f, t)
  BY <1>1, <1>2, <1>3, <1>4 DEF Between
<1>7. \A x \in VersionSet : x \in Between(f, n) <=> x \in Between(f, a) \/ x = n
  BY <1>1, <1>2, <1>3, <1>4, <1>5, <1>6 DEF Between
<1>8. Between(f, n) \subseteq VersionSet /\ Between(f, a) \subseteq VersionSet
  BY DEF Between
<1> QED
  BY <1>1, <1>4, <1>6, <1>7, <1>8 DEF n

(***************************************************************************)
(* The inductive invariant.  TypeOK and DroppedRightly alone do not say    *)
(* that a wrapper is still at the steps of the handler it was made for, so *)
(* that what cancels the packet is that handler.                           *)
(***************************************************************************)
TheHandler == Handler(route.dir, at, Onward, route.kind)

AtItsHandler ==
  status = "handling" =>
    /\ Follows(wrapper, TheHandler)
    /\ wrapper.st = "cancelled" => Cancels(TheHandler)

IInv == TypeOK /\ AtItsHandler /\ DroppedRightly

LEMMA RouteIsOne ==
  ASSUME NEW r \in Routes
  PROVE  r.dir \in Directions /\ r.from \in VersionSet /\ r.to \in VersionSet
  BY RoutesAssumption DEF RoutesAssumption

LEMMA EndsAreBetween ==
  ASSUME NEW f \in VersionSet, NEW t \in VersionSet
  PROVE  f \in Between(f, t)
<1>1. VersionSet \subseteq Int
  BY VersionsAre
<1> QED
  BY <1>1 DEF Between

\* What is known of the handler of a packet short of where it goes to.
LEMMA HandlerIsKnown ==
  ASSUME IInv, status # "idle", at # route.to, Handles(route.dir, at, Onward, route.kind)
  PROVE  /\ WellFormed(TheHandler)
         /\ Cancels(TheHandler) => Excused(at, Onward, route.kind)
<1>1. route \in Routes /\ route.dir \in Directions /\ at \in Between(route.from, route.to)
  BY RouteIsOne DEF IInv, TypeOK
<1>2. <<at, Onward>> \in DOMAIN Registered(route.dir)
  BY <1>1, RoutesAssumption DEF RoutesAssumption, Onward
<1> DEFINE step == <<at, Onward>>
<1>3. route.kind \in DOMAIN Registered(route.dir)[step]
  BY DEF Handles
<1>4. TheHandler = Registered(route.dir)[step][route.kind]
  BY DEF TheHandler, Handler
<1>5. step[1] = at /\ step[2] = Onward
  OBVIOUS
<1> HIDE DEF step
<1>6. step \in DOMAIN Registered(route.dir)
  BY <1>2 DEF step
<1>7. /\ Inside(Parts(TheHandler)) \subseteq Parts(TheHandler)
      /\ \A T \in Parts(TheHandler) :
           Len(T) \in Nat /\ \A k \in 1..Len(T) : T[k].op \in Nesting \cup Plain
      /\ Cancels(TheHandler) => Excused(step[1], step[2], route.kind)
  BY <1>1, <1>3, <1>4, <1>6, HandlersAssumption DEF HandlersAssumption
<1> QED
  BY <1>5, <1>7 DEF WellFormed

LEMMA OnwardIsOn ==
  ASSUME IInv, status # "idle", at # route.to
  PROVE  /\ Onward # at /\ Onward \in Between(route.from, route.to)
         /\ Between(route.from, Onward) = Between(route.from, at) \cup {Onward}
<1>1. /\ route.from \in VersionSet /\ route.to \in VersionSet
      /\ at \in Between(route.from, route.to)
  BY RouteIsOne DEF IInv, TypeOK
<1> QED
  BY <1>1, OneStepOn DEF Onward

LEMMA InitIInv == Init => IInv
  BY DEF Init, IInv, TypeOK, AtItsHandler, DroppedRightly, Statuses

LEMMA NextIInv == IInv /\ [Next]_vars => IInv'
<1> SUFFICES ASSUME IInv, [Next]_vars
             PROVE  IInv'
  OBVIOUS
<1> USE DEF IInv
<1>1. CASE Send
  <2>1. PICK r \in Routes : route' = r /\ at' = r.from
    BY <1>1 DEF Send
  <2>2. status' = "travelling" /\ r.dir \in Directions /\ r.from \in Between(r.from, r.to)
    BY <1>1, RouteIsOne, EndsAreBetween DEF Send
  <2> QED
    BY <2>1, <2>2 DEF TypeOK, AtItsHandler, DroppedRightly, Statuses
<1>2. CASE PassBy
  <2>1. status = "travelling" /\ at' = Onward /\ UNCHANGED <<route, status>>
    BY <1>2 DEF PassBy, AtProtocol
  <2>2. at' \in Between(route.from, route.to)
    BY <1>2, <2>1, OnwardIsOn DEF PassBy, AtProtocol
  <2> QED
    BY <2>1, <2>2 DEF TypeOK, AtItsHandler, DroppedRightly
<1>3. CASE Enter
  <2>1. /\ status = "travelling" /\ at # route.to
        /\ Handles(route.dir, at, Onward, route.kind)
        /\ status' = "handling" /\ wrapper' = Wrapper("pass", TheHandler, payload)
        /\ UNCHANGED <<route, at>>
    BY <1>3 DEF Enter, AtProtocol, TheHandler
  <2>2. Onward' = Onward /\ TheHandler' = TheHandler
    BY <2>1 DEF Onward, TheHandler
  <2>3. Follows(wrapper', TheHandler) /\ wrapper'.st = "ok"
    BY <2>1, HandlerIsKnown, WrapperFollows
  <2>4. TypeOK'
    BY <2>1, <2>2 DEF TypeOK, Statuses
  <2>5. AtItsHandler'
    BY <2>2, <2>3 DEF AtItsHandler
  <2> QED
    BY <2>1, <2>4, <2>5 DEF DroppedRightly
<1>4. CASE Work
  <2>1. /\ status = "handling" /\ ~ Ended(wrapper) /\ wrapper' = Step(wrapper)
        /\ UNCHANGED <<route, sent, payload, at, status>>
    BY <1>4 DEF Work
  <2>2. Onward' = Onward /\ TheHandler' = TheHandler
    BY <2>1 DEF Onward, TheHandler
  <2>3. WellFormed(TheHandler) /\ Follows(wrapper, TheHandler)
    BY <2>1, HandlerIsKnown DEF TypeOK, AtItsHandler
  <2>4. Keeps(wrapper', wrapper, TheHandler)
    BY <2>1, <2>3, StepFollows
  <2>5. AtItsHandler'
    BY <2>1, <2>2, <2>4 DEF Keeps, AtItsHandler
  <2> QED
    BY <2>1, <2>2, <2>5 DEF TypeOK, DroppedRightly
<1>5. CASE Forward
  <2>1. /\ status = "handling" /\ status' = "travelling"
        /\ at' = Onward /\ UNCHANGED route
    BY <1>5 DEF Forward
  <2>2. at # route.to
    BY <2>1 DEF TypeOK
  <2>3. at' \in Between(route.from, route.to)
    BY <2>1, <2>2, OnwardIsOn
  <2> QED
    BY <2>1, <2>3 DEF TypeOK, AtItsHandler, DroppedRightly, Statuses
<1>6. CASE Drop
  <2>1. /\ status = "handling" /\ status' \in {"cancelled", "failed"}
        /\ status' = "cancelled" => wrapper.st = "cancelled"
        /\ UNCHANGED <<route, sent, payload, at>>
    BY <1>6 DEF Drop
  <2>2. Onward' = Onward
    BY <2>1 DEF Onward
  <2>3. status' = "cancelled" => Excused(at, Onward, route.kind)
    BY <2>1, HandlerIsKnown DEF TypeOK, AtItsHandler
  <2> QED
    BY <2>1, <2>2, <2>3 DEF TypeOK, AtItsHandler, DroppedRightly, Statuses
<1>7. CASE Deliver
  BY <1>7 DEF Deliver, TypeOK, AtItsHandler, DroppedRightly, Statuses
<1>8. CASE Leave
  BY <1>8 DEF Leave, TypeOK, AtItsHandler, DroppedRightly, Statuses
<1>9. CASE UNCHANGED vars
  <2>1. Onward' = Onward /\ TheHandler' = TheHandler
    BY <1>9 DEF vars, Onward, TheHandler
  <2> QED
    BY <1>9, <2>1 DEF vars, TypeOK, AtItsHandler, DroppedRightly
<1> QED
  BY <1>1, <1>2, <1>3, <1>4, <1>5, <1>6, <1>7, <1>8, <1>9 DEF Next

LEMMA InvariantHolds == Spec => []IInv
  BY InitIInv, NextIInv, PTL DEF Spec

\* Theorem: a packet is always on its way, and a handler has it only where a
\* protocol has one for it (BaseProtocol.transform).
THEOREM TypeCorrect == Spec => []TypeOK
<1>1. IInv => TypeOK
  BY DEF IInv
<1> QED
  BY <1>1, InvariantHolds, PTL

\* Theorem: whatever a handler's steps do, and however deep they nest, it
\* drops no packet but one that its other side could not have been sent.
THEOREM DroppedOnlyRightly == Spec => []DroppedRightly
<1>1. IInv => DroppedRightly
  BY DEF IInv
<1> QED
  BY <1>1, InvariantHolds, PTL

(***************************************************************************)
(* The journey is a delivery.                                              *)
(***************************************************************************)
LEMMA InitDelivers == Init => Abstract!Init
  BY DEF Init, Abstract!Init, NoRoute

LEMMA NextDelivers == IInv /\ [Next]_vars => [Abstract!Next]_(Abstract!vars)
<1> SUFFICES ASSUME IInv, [Next]_vars
             PROVE  Abstract!Next \/ UNCHANGED Abstract!vars
  OBVIOUS
<1> DEFINE step == Abstract!Next \/ UNCHANGED Abstract!vars
<1>a. Abstract!Onward = Onward
  BY DEF Abstract!Onward, Onward
<1>1. CASE Send
  <2>1. Abstract!Send
    BY <1>1 DEF Send, Abstract!Send
  <2> QED
    BY <2>1 DEF Abstract!Next
<1>2. CASE PassBy
  <2>1. Abstract!Cross
    BY <1>2, <1>a DEF PassBy, AtProtocol, Abstract!Cross
  <2> QED
    BY <2>1 DEF Abstract!Next
<1>3. CASE Enter
  BY <1>3 DEF Enter, AtProtocol, Abstract!vars
<1>4. CASE Work
  BY <1>4 DEF Work, Abstract!vars
<1>5. CASE Forward
  <2>1. at # route.to /\ Abstract!Handled
    BY <1>5, <1>a DEF Forward, IInv, TypeOK, Abstract!Handled
  <2>2. Abstract!Cross
    BY <1>5, <1>a, <2>1 DEF Forward, Abstract!Cross
  <2> QED
    BY <2>2 DEF Abstract!Next
<1>6. CASE Drop
  <2>1. at # route.to /\ Abstract!Handled
    BY <1>6, <1>a DEF Drop, IInv, TypeOK, Abstract!Handled
  <2>2. CASE wrapper.st = "cancelled"
    <3>1. Excused(at, Onward, route.kind)
      BY <1>6, <2>2, HandlerIsKnown DEF Drop, IInv, TypeOK, AtItsHandler
    <3>2. Abstract!Drop
      BY <1>6, <1>a, <2>1, <2>2, <3>1 DEF Drop, Abstract!Drop
    <3> QED
      BY <3>2 DEF Abstract!Next
  <2>3. CASE wrapper.st # "cancelled"
    <3>1. Abstract!Fail
      BY <1>6, <2>1, <2>3 DEF Drop, Abstract!Fail
    <3> QED
      BY <3>1 DEF Abstract!Next
  <2> QED
    BY <2>2, <2>3
<1>7. CASE Deliver
  <2>1. Abstract!Deliver
    BY <1>7 DEF Deliver, Abstract!Deliver
  <2> QED
    BY <2>1 DEF Abstract!Next
<1>8. CASE Leave
  <2>1. Abstract!Leave
    BY <1>8 DEF Leave, Abstract!Leave, NoRoute
  <2> QED
    BY <2>1 DEF Abstract!Next
<1>9. CASE UNCHANGED vars
  BY <1>9 DEF vars, Abstract!vars
<1> QED
  BY <1>1, <1>2, <1>3, <1>4, <1>5, <1>6, <1>7, <1>8, <1>9 DEF Next

\* Theorem: the packet goes past each protocol once, in the order of the
\* versions; only a handler changes, drops or fails it, and what a handler
\* does to its wrapper on the way is nothing of the packet's.
THEOREM JourneyIsDelivery == Spec => Delivers
<1>1. Spec => [][Abstract!Next]_(Abstract!vars)
  BY InvariantHolds, NextDelivers, PTL DEF Spec
<1>2. Spec => Abstract!Init
  BY InitDelivers DEF Spec
<1> QED
  BY <1>1, <1>2, PTL DEF Delivers, Abstract!Spec

(***************************************************************************)
(* What every protocol keeps, the whole way keeps.                         *)
(***************************************************************************)
\* The inductive form of DataKept: it also holds while a handler is at work.
DInv ==
  status \in {"travelling", "handling", "delivered"} =>
    \A x \in KeptBy(Between(route.from, at)) : Values(x, payload) = Values(x, sent)

LEMMA FewerKeepMore ==
  ASSUME NEW vs, NEW ws \in SUBSET vs, ws # {}
  PROVE  KeptBy(vs) \subseteq KeptBy(ws)
<1> DEFINE S(us) == {NamesAt[v][route.kind] : v \in us}
<1>1. S(ws) \subseteq S(vs) /\ S(ws) # {}
  OBVIOUS
<1>2. KeptBy(vs) = Common(S(vs)) \ ({"?", "#"} \cup Renumbered(route.kind))
  BY DEF KeptBy
<1>3. KeptBy(ws) = Common(S(ws)) \ ({"?", "#"} \cup Renumbered(route.kind))
  BY DEF KeptBy
<1> HIDE DEF S
<1>4. Common(S(vs)) \subseteq Common(S(ws))
  BY <1>1 DEF Common
<1> QED
  BY <1>2, <1>3, <1>4

LEMMA NextDInv == IInv /\ DInv /\ [Next]_vars /\ [HandlerKeeps]_vars => DInv'
<1> SUFFICES ASSUME IInv, DInv, [Next]_vars, [HandlerKeeps]_vars
             PROVE  DInv'
  OBVIOUS
<1>1. CASE Send
  BY <1>1 DEF Send, DInv
<1>2. CASE PassBy \/ Forward
  <2>1. /\ status \in {"travelling", "handling"} /\ at # route.to
        /\ at' = Onward /\ UNCHANGED <<route, sent>>
    BY <1>2 DEF PassBy, AtProtocol, Forward, IInv, TypeOK
  <2>2. /\ at' # at /\ Between(route.from, at') = Between(route.from, at) \cup {at'}
        /\ at' \in Between(route.from, route.to)
    BY <2>1, OnwardIsOn
  <2>3. at \in Between(route.from, at) /\ route.from \in VersionSet /\ at \in VersionSet
    <3>1. /\ route.from \in VersionSet /\ route.to \in VersionSet
          /\ at \in Between(route.from, route.to)
      BY <2>1, RouteIsOne DEF IInv, TypeOK
    <3>2. VersionSet \subseteq Int
      BY VersionsAre
    <3> QED
      BY <3>1, <3>2 DEF Between
  <2>4. HandlerKeeps
    BY <2>2 DEF vars
  <2>5. ASSUME NEW x \in KeptBy(Between(route.from, at'))
        PROVE  Values(x, payload') = Values(x, sent)
    <3>1. x \in KeptBy(Between(route.from, at))
      BY <2>2, <2>3, FewerKeepMore
    <3>2. x \in KeptBy({at, at'})
      BY <2>2, <2>3, FewerKeepMore
    <3> QED
      BY <2>1, <2>2, <2>4, <3>1, <3>2 DEF HandlerKeeps, DInv
  <2>6. KeptBy(Between(route.from, at))' = KeptBy(Between(route.from, at'))
    BY <2>1 DEF KeptBy
  <2> QED
    BY <2>1, <2>5, <2>6 DEF DInv
<1>3. CASE Enter \/ Work \/ Deliver \/ UNCHANGED vars
  <2>1. UNCHANGED <<route, sent, payload, at>>
    BY <1>3 DEF Enter, Work, Deliver, vars
  <2>2. /\ status' \in {"travelling", "handling", "delivered"}
           => status \in {"travelling", "handling", "delivered"}
    BY <1>3 DEF Enter, AtProtocol, Work, Deliver, vars
  <2>3. KeptBy(Between(route.from, at))' = KeptBy(Between(route.from, at))
    BY <2>1 DEF KeptBy
  <2> QED
    BY <2>1, <2>2, <2>3 DEF DInv
<1>4. CASE Drop \/ Leave
  BY <1>4 DEF Drop, Leave, DInv
<1> QED
  BY <1>1, <1>2, <1>3, <1>4 DEF Next

\* Theorem: if each protocol keeps the values of the fields that both its
\* versions have, then every field that all the versions of a way have
\* arrives as it was sent, whatever the way and whoever drops or forwards.
THEOREM DataIsKept == Spec /\ HandlersKeep => []DataKept
<1>1. Init => DInv
  BY DEF Init, DInv
<1>2. DInv => DataKept
  BY DEF DInv, DataKept
<1> QED
  BY <1>1, <1>2, NextDInv, InvariantHolds, PTL DEF Spec, HandlersKeep
=============================================================================
