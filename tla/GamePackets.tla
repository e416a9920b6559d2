----------------------------- MODULE GamePackets -----------------------------
(***************************************************************************)
(* The packets of the game: those it sends in a layout, and whether it can *)
(* read a payload as one.  The game is not part of this program.           *)
(***************************************************************************)
EXTENDS PacketWrapper

CONSTANT MaxChoices   \* choices of a sender that are not the least one

\* T reads all of the payload, each field as the one it was sent as.
RECURSIVE ReadOn(_)
ReadOn(s) == IF Ended(s) THEN s ELSE ReadOn(Step(s))
GameReads(T, payload) ==
  LET s == ReadOn(Wrapper("check", T, payload)) IN s.st = "ok" /\ s.in = <<>>

(***************************************************************************)
(* The packets of a layout.  Where the sender has a choice, at most "left" *)
(* of its choices are not the least one: that keeps the product of the     *)
(* optional parts small and still combines them with each other.           *)
(***************************************************************************)
Least(V) == CHOOSE n \in V : \A m \in V : n <= m

Chosen(i, p) ==
  IF i.V = {} THEN {Len(p.out) + 1}
  ELSE {n \in i.V : n = Least(i.V) \/ p.left > 0}

Add(i, p, n) ==
  LET tok == [enc |-> i.enc, of |-> i.x, n |-> n]
  IN [out |-> Append(p.out, tok), env |-> (i.x :> tok) @@ p.env,
      left |-> IF i.V = {} \/ n = Least(i.V) THEN p.left ELSE p.left - 1]

RECURSIVE Grow(_, _), GrowTimes(_, _, _)

GrowBy(i, p) ==
  CASE i.op = "field" -> {Add(i, p, n) : n \in Chosen(i, p)}
    [] i.op = "whole" -> Grow(i.t, {p})
    [] i.op = "when" -> IF p.env[i.x].n \in i.S THEN Grow(i.t, {p}) ELSE {p}
    [] i.op = "unless" -> IF p.env[i.x].n \in i.S THEN {p} ELSE Grow(i.t, {p})
    [] i.op = "times" -> GrowTimes(p.env[i.x].n, i.t, {p})
    [] i.op = "only" -> IF p.env[i.x].n \in i.S THEN {p} ELSE {}

Grow(T, P) ==
  IF T = <<>> THEN P ELSE Grow(Tail(T), UNION {GrowBy(Head(T), p) : p \in P})

GrowTimes(n, T, P) == IF n = 0 THEN P ELSE GrowTimes(n - 1, T, Grow(T, P))

GameSends(T) ==
  {p.out : p \in Grow(T, {[out |-> <<>>, env |-> ("" :> [n |-> 0]), left |-> MaxChoices]})}
=============================================================================
