-------------------------- MODULE ChainResolution --------------------------
(***************************************************************************)
(* What ProtocolManager promises its callers, without saying how: a        *)
(* registered protocol is used by every later answer, the one registered   *)
(* last for a pair of versions wins, and every answer is a shortest chain  *)
(* of the protocols registered when it is given, or None when there is no  *)
(* chain.  There is no cache and no search here.                           *)
(***************************************************************************)
EXTENDS Protocols

VARIABLES
    registered,     \* the protocols registered now
    answer          \* the last answer given to a caller

vars == <<registered, answer>>

Init == registered = {} /\ answer = None

Register(p) ==
    /\ registered' = {q \in registered : Key(q) # Key(p)} \cup {p}
    /\ UNCHANGED answer

GetPath(s, c) ==
    /\ \E path \in Paths(registered, s, c) :
           answer' = [server |-> s, client |-> c, path |-> path]
    /\ UNCHANGED registered

GetSupportedVersions(s) ==
    /\ answer' = [server |-> s,
                  supported |-> {s} \cup {c \in {Key(p)[2] : p \in registered} :
                                              Paths(registered, s, c) # {None}}]
    /\ UNCHANGED registered

Next ==
    \/ \E p \in Pool : Register(p)
    \/ \E s, c \in Versions : GetPath(s, c)
    \/ \E s \in Versions : GetSupportedVersions(s)

Spec == Init /\ [][Next]_vars
============================================================================
