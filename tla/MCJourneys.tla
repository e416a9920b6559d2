----------------------------- MODULE MCJourneys ------------------------------
(***************************************************************************)
(* Journeys with every packet that a protocol on the way rewrites or       *)
(* drops, between every two versions that are joined.                      *)
(***************************************************************************)
EXTENDS Journeys, GamePackets

\* The packets some protocol on the way from v to w has a handler for.
OnTheWay(dir, v, w) ==
  UNION {DOMAIN Registered(dir)[<<x, NextTo(x, w)>>] : x \in Between(v, w) \ {w}}
AimAssist == [dir |-> "clientbound", kind |-> "CAMERA_AIM_ASSIST_PRESETS", from |-> 860, to |-> 898]
Biomes == [dir |-> "clientbound", kind |-> "BIOME_DEFINITION_LIST", from |-> 924, to |-> 1001]
\* Packets that some protocol on the way does not expect in the layout they
\* have: the two above, in runs of their own; a sound of a client with the
\* field that came with v975; a clientbound inventory transaction from before
\* v944.
Disputed(r) ==
  \/ r.dir = "clientbound" /\ r.kind = "INVENTORY_TRANSACTION" /\ r.from < 944
  \/ r.dir = "clientbound" /\ r.kind = "CAMERA_AIM_ASSIST_PRESETS" /\ r.from = 860
  \/ r.dir = "clientbound" /\ r.kind = "BIOME_DEFINITION_LIST" /\ r.to = 1001
  \/ r.dir = "serverbound" /\ r.kind = "LEVEL_SOUND_EVENT" /\ r.from >= 975 /\ r.to < 975

\* The versions that are joined: an older server and a newer client, and a
\* newer server, up to v944, and an older client.
Joined == {p \in VersionSet \X VersionSet : p[1] < p[2] \/ (p[2] < p[1] /\ p[1] <= 944)}
Way(r) == IF r.dir = "clientbound" THEN <<r.from, r.to>> ELSE <<r.to, r.from>>
EveryWay ==
  {r \in [dir : Directions, kind : Kinds, from : VersionSet, to : VersionSet] :
     /\ Way(r) \in Joined /\ Has(r.from, r.kind) /\ ~ Disputed(r)
     /\ r.kind \in OnTheWay(r.dir, r.from, r.to)}

\* The routes of the findings.
Aim == {AimAssist}
Biome == {Biomes}
Joining == {[dir |-> "clientbound", kind |-> "START_GAME", from |-> 924, to |-> 898]}
Gathering == {"gathering"}
==============================================================================
