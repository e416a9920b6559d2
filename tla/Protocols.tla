----------------------------- MODULE Protocols -----------------------------
(***************************************************************************)
(* The vocabulary shared by the other modules: protocol versions,          *)
(* protocols and chains of protocols (protocol/__init__.py and the         *)
(* contract stated in protocol/manager.py).                                *)
(*                                                                         *)
(* A protocol translates between the server it is registered for and the   *)
(* client it is registered for.  A chain for a client c of a server s      *)
(* starts with the protocol whose client side is c and ends with one whose *)
(* server side is s, each protocol handing its server side to the next.    *)
(***************************************************************************)
EXTENDS Integers, Sequences, FiniteSets

CONSTANTS
    Versions,       \* protocol numbers
    Pool,           \* the protocols that may be registered
    None            \* Python's None: no chain, no pipeline

ASSUME VersionsAssumption == IsFiniteSet(Versions)

ASSUME PoolAssumption ==
    Pool \subseteq [server_protocol : Versions, client_protocol : Versions, name : STRING]

ASSUME NoneAssumption == None \notin Seq(Pool)

\* The key of the _protocols dictionary.
Key(p) == <<p.server_protocol, p.client_protocol>>

\* ch leads from client version c to server version s.
IsChain(ch, s, c) ==
    /\ ch \in Seq(Pool) \ {<<>>}
    /\ ch[1].client_protocol = c
    /\ ch[Len(ch)].server_protocol = s
    /\ \A i \in 1 .. Len(ch) - 1 : ch[i].server_protocol = ch[i + 1].client_protocol

\* A chain made of protocols of P only.
IsChainOf(P, ch, s, c) ==
    IsChain(ch, s, c) /\ \A i \in 1 .. Len(ch) : ch[i] \in P

(***************************************************************************)
(* No chain of protocols of P leads from c to s: some set of versions      *)
(* contains c, not s, and is closed under following a protocol from its    *)
(* client side to its server side.                                         *)
(***************************************************************************)
Unreachable(P, s, c) ==
    \E V \in SUBSET Versions :
        /\ c \in V
        /\ s \notin V
        /\ \A p \in P : p.client_protocol \in V => p.server_protocol \in V

\* A shortest chain visits a version at most once.
MaxHops == Cardinality(Versions) - 1

\* The chains of n protocols of P for (s, c).
Chains(P, s, c, n) == {ch \in [1 .. n -> P] : IsChain(ch, s, c)}

\* The chains of P for (s, c) that no other chain undercuts.
ShortestChains(P, s, c) ==
    LET Shortest(n) == /\ \A m \in 1 .. n - 1 : Chains(P, s, c, m) = {}
                       /\ Chains(P, s, c, n) # {}
    IN  UNION {Chains(P, s, c, n) : n \in {n \in 1 .. MaxHops : Shortest(n)}}

(***************************************************************************)
(* What ProtocolManager.get_path promises: the empty list if the versions  *)
(* match, None if there is no chain, or a shortest one.                    *)
(***************************************************************************)
Paths(P, s, c) ==
    IF s = c THEN {<<>>}
    ELSE IF Unreachable(P, s, c) THEN {None}
    ELSE ShortestChains(P, s, c)
============================================================================
