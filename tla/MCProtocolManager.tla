------------------------- MODULE MCProtocolManager -------------------------
(***************************************************************************)
(* ProtocolManager on a small graph with everything the registered one has *)
(* and may come to have: a detour beside a shorter chain, protocols in     *)
(* both directions between the same versions (a cycle), a version that     *)
(* reaches nothing, and a second protocol for a key already registered.   *)
(***************************************************************************)
EXTENDS ProtocolManager

MCVersions == 1 .. 4

Edge(server, client) == [server_protocol |-> server, client_protocol |-> client, name |-> "first"]

MCPool ==
    {Edge(1, 2), Edge(2, 3), Edge(3, 4), Edge(2, 4), Edge(4, 2),
     [Edge(1, 2) EXCEPT !.name = "second"]}
============================================================================
