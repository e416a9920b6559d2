----------------------------- MODULE MCPipeline ----------------------------
(***************************************************************************)
(* Pipeline with the protocols and the handlers that the plugin registers, *)
(* on a server of version 944: a client of its own version, one behind a   *)
(* single protocol, one behind two newer ones, one behind two older ones,  *)
(* and one that no chain leads to.                                         *)
(***************************************************************************)
EXTENDS Pipeline, Registry

UnknownVersion == 999

MCVersions == RegisteredVersions \cup {UnknownVersion}

\* Computed once: the chain for every client of this server.
PathTable == [c \in MCVersions |-> CHOOSE path \in Paths(RegisteredProtocols, 944, c) : TRUE]

MCGetPath(s, c) == IF s = 944 /\ c \in MCVersions THEN PathTable[c] ELSE None
============================================================================
