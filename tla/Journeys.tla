----------------------------- MODULE Journeys -------------------------------
(***************************************************************************)
(* A packet between a server and a client of different versions: it is     *)
(* sent in the layout of the one's version and goes through the handlers   *)
(* of each protocol on the way (Pipeline has the connections and their     *)
(* lists, ProtocolManager the search for the protocols), and each of them  *)
(* parses what the one before it wrote, one call of its wrapper after the  *)
(* other.                                                                  *)
(***************************************************************************)
EXTENDS Layouts, FiniteSets

CONSTANTS
  Routes,          \* the packets sent: [dir, kind, from, to] records
  Payloads(_),     \* the payloads that a sender may send in a layout
  Conforms(_, _)   \* a receiver with this layout can read this payload

VARIABLES route, sent, payload, at, status, wrapper
vars == <<route, sent, payload, at, status, wrapper>>

Versions == <<860, 898, 924, 944, 975, 1001>>
VersionSet == {Versions[i] : i \in 1..Len(Versions)}
Directions == {"clientbound", "serverbound"}
Statuses == {"idle", "travelling", "handling", "delivered", "cancelled", "failed"}

(***************************************************************************)
(* The protocols of the registry: for packets of each direction, the       *)
(* handlers of the step from one version to the next of the way.           *)
(***************************************************************************)
Clientbound ==
  [step \in {<<860, 898>>, <<898, 924>>, <<924, 944>>, <<944, 975>>, <<975, 1001>>,
             <<898, 860>>, <<924, 898>>, <<944, 924>>} |->
     CASE step = <<860, 898>> -> H860!ClientboundToV898
       [] step = <<898, 924>> -> H898!ClientboundToV924
       [] step = <<924, 944>> -> H924!ClientboundToV944
       [] step = <<944, 975>> -> H944!ClientboundToV975
       [] step = <<975, 1001>> -> H975!ClientboundToV1001
       [] step = <<898, 860>> -> H860!ClientboundToV860
       [] step = <<924, 898>> -> H898!ClientboundToV898
       [] step = <<944, 924>> -> H924!ClientboundToV924]
Serverbound ==
  [step \in {<<898, 860>>, <<924, 898>>, <<944, 924>>, <<975, 944>>, <<1001, 975>>,
             <<860, 898>>, <<898, 924>>, <<924, 944>>} |->
     CASE step = <<898, 860>> -> H860!ServerboundToV860
       [] step = <<924, 898>> -> H898!ServerboundToV898
       [] step = <<944, 924>> -> H924!ServerboundToV924
       [] step = <<975, 944>> -> H944!ServerboundToV944
       [] step = <<1001, 975>> -> H975!ServerboundToV975
       [] step = <<860, 898>> -> H860!ServerboundToV898
       [] step = <<898, 924>> -> H898!ServerboundToV924
       [] step = <<924, 944>> -> H924!ServerboundToV944]
Registered(dir) == IF dir = "clientbound" THEN Clientbound ELSE Serverbound

\* The versions from one to the other, and the one after v on the way to w.
Between(v, w) == {x \in VersionSet : (v <= x /\ x <= w) \/ (w <= x /\ x <= v)}
NextTo(v, w) ==
  CHOOSE x \in Between(v, w) \ {v} : Between(v, x) = {v, x}

Handles(dir, v, w, kind) == kind \in DOMAIN Registered(dir)[<<v, w>>]
Handler(dir, v, w, kind) == Registered(dir)[<<v, w>>][kind]

\* Every protocol that a packet meets on its way is registered.
RoutesAssumption ==
  /\ Routes \subseteq [dir : Directions, kind : Kinds, from : VersionSet, to : VersionSet]
  /\ \A r \in Routes : \A v \in Between(r.from, r.to) \ {r.to} :
       <<v, NextTo(v, r.to)>> \in DOMAIN Registered(r.dir)
ASSUME RoutesAssumption

(***************************************************************************)
(* The journey.                                                            *)
(***************************************************************************)
NoRoute == [dir |-> "", kind |-> "", from |-> 0, to |-> 0]
NoWrapper == Wrapper("pass", <<>>, <<>>)

Init ==
  /\ route = NoRoute /\ sent = <<>> /\ payload = <<>> /\ at = 0 /\ status = "idle"
  /\ wrapper = NoWrapper

Send ==
  /\ status = "idle"
  /\ \E r \in Routes : \E p \in Payloads(Layout[r.from][r.kind]) :
       route' = r /\ sent' = p /\ payload' = p /\ at' = r.from
  /\ status' = "travelling" /\ UNCHANGED wrapper

\* The protocol between the packet's version and the next one of its way.
Onward == NextTo(at, route.to)
AtProtocol == status = "travelling" /\ at # route.to

\* A packet without a handler goes on as it is.
PassBy_ToTheEnd ==
  /\ AtProtocol /\ ~ Handles(route.dir, at, Onward, route.kind)
  /\ at' = route.to
  /\ UNCHANGED <<route, sent, payload, status, wrapper>>
PassBy ==
  /\ AtProtocol /\ ~ Handles(route.dir, at, Onward, route.kind)
  /\ at' = Onward
  /\ UNCHANGED <<route, sent, payload, status, wrapper>>

Enter ==
  /\ AtProtocol /\ Handles(route.dir, at, Onward, route.kind)
  /\ wrapper' = Wrapper("pass", Handler(route.dir, at, Onward, route.kind), payload)
  /\ status' = "handling"
  /\ UNCHANGED <<route, sent, payload, at>>

\* The next thing the handler does.
Work ==
  /\ status = "handling" /\ ~ Ended(wrapper)
  /\ wrapper' = Step(wrapper)
  /\ UNCHANGED <<route, sent, payload, at, status>>

\* The handler has returned.
Forward ==
  /\ status = "handling" /\ Ended(wrapper) /\ wrapper.st = "ok"
  /\ payload' = ToBytes(wrapper) /\ at' = Onward
  /\ status' = "travelling" /\ wrapper' = NoWrapper
  /\ UNCHANGED <<route, sent>>

\* It has cancelled the packet; or it raised an error, or a read did.
Drop_Ended ==
  /\ status = "handling" /\ Ended(wrapper)
  /\ status' = "cancelled" /\ wrapper' = NoWrapper
  /\ UNCHANGED <<route, sent, payload, at>>
Drop ==
  /\ status = "handling" /\ wrapper.st # "ok"
  /\ status' = IF wrapper.st = "cancelled" THEN "cancelled" ELSE "failed"
  /\ wrapper' = NoWrapper
  /\ UNCHANGED <<route, sent, payload, at>>

Deliver_Anywhere ==
  /\ status = "travelling" /\ status' = "delivered"
  /\ UNCHANGED <<route, sent, payload, at, wrapper>>
Deliver ==
  /\ status = "travelling" /\ at = route.to
  /\ status' = "delivered"
  /\ UNCHANGED <<route, sent, payload, at, wrapper>>

\* The next packet is not this one's concern.
Leave ==
  /\ status \in {"delivered", "cancelled", "failed"}
  /\ route' = NoRoute /\ sent' = <<>> /\ payload' = <<>> /\ at' = 0 /\ status' = "idle"
  /\ UNCHANGED wrapper

Next == Send \/ PassBy \/ Enter \/ Work \/ Forward \/ Drop \/ Deliver \/ Leave

Spec == Init /\ [][Next]_vars

(***************************************************************************)
(* Properties.                                                             *)
(***************************************************************************)
\* A packet is where it was sent from, where it goes to, or between them, and
\* a handler has it only short of where it goes to.
TypeOK ==
  /\ status \in Statuses
  /\ status = "idle" => route = NoRoute /\ payload = <<>>
  /\ status # "idle" => route \in Routes /\ at \in Between(route.from, route.to)
  /\ status = "delivered" => at = route.to
  /\ status = "handling" => at # route.to /\ Handles(route.dir, at, Onward, route.kind)

\* Whatever a handler forwards is a packet of the next version, to its last
\* byte: no handler fails on a packet of the version before it, no field added
\* at one version is left in or left out, none is read as another, and a
\* version is sent no packet it does not have.
Understood ==
  /\ status # "failed"
  /\ status \in {"travelling", "delivered"} => Conforms(Layout[at][route.kind], payload)

\* The fields of a layout.
Names(T) ==
  UNION {{U[k].x : k \in {j \in 1..Len(U) : U[j].op = "field"}} : U \in Parts(T)}
NamesAt == [v \in VersionSet |-> [kind \in Kinds |-> Names(Layout[v][kind])]]

\* The fields a handler renumbers, chooses or resets.
Renumbered(kind) ==
  CASE kind = "TILE_EVENT" -> {"event data"}
    [] kind = "LEVEL_SOUND_EVENT" -> {"sound"}
    [] kind = "COMMAND_REQUEST" -> {"version", "origin_type", "player_id"}
    [] kind = "START_GAME" -> {"checksum", "gathering"}
    [] kind = "CRAFTING_DATA" ->
         {"entry type", "descriptor", "context", "item_id", "item_data", "item_aux",
          "descriptor_aux", "recipe_net_id"}
    [] OTHER -> {}

\* A value in the form all versions share: a signed byte by its sign, a cost
\* up to the largest of a byte, white, chunks without a count.
Meaning(tok) ==
  CASE tok.of \in {"window_id", "face"} /\ tok.enc = "b1" /\ tok.n > 127 -> tok.n - 256
    [] tok.of = "cost" /\ tok.n > 255 -> 255
    [] tok.of = "colour" /\ tok.n = 7 -> 6
    [] tok.of = "sub chunks" /\ tok.n = H975!Limited -> H975!Limitless
    [] OTHER -> tok.n

\* The values of the field x, but for those that are nothing.
Values(x, p) ==
  LET given == SelectSeq(p, LAMBDA tok : tok.of = x /\ tok.n # 0)
  IN [k \in 1..Len(given) |-> Meaning(given[k])]

\* What all the sets of S have.
Common(S) == {x \in UNION S : \A s \in S : x \in s}

\* The fields of the packet that arrive as they were sent, wherever all of
\* the versions vs have them.
KeptBy(vs) ==
  Common({NamesAt[v][route.kind] : v \in vs}) \ ({"?", "#"} \cup Renumbered(route.kind))

\* Every field that all versions so far have arrives with the values it was
\* sent with, in their order, whatever order, width or place it has there.
DataKept ==
  status \in {"travelling", "delivered"} =>
    \A x \in KeptBy(Between(route.from, at)) : Values(x, payload) = Values(x, sent)

\* A protocol keeps the values of the fields that both its versions have, also
\* of those that an earlier version did not.
HandlerKeeps ==
  status \in {"travelling", "handling"} /\ at' # at =>
    \A x \in KeptBy({at, at'}) : Values(x, payload') = Values(x, payload)
HandlersKeep == [][HandlerKeeps]_vars

\* The ids of the recipes made for the furnaces are no other recipe's.
NetIdsDistinct ==
  LET ids(p) == Values("recipe_net_id", p)
      range(s) == {s[k] : k \in 1..Len(s)}
  IN status = "delivered" =>
       Cardinality(range(ids(payload)))
         = Cardinality(range(ids(sent))) + Len(ids(payload)) - Len(ids(sent))

\* What the versions on the two sides of a step both have, in forms without an
\* equal in the other, by the version on the newer side.
Reformed ==
  [v \in VersionSet |->
     CASE v = 944 -> {"EDITOR_NETWORK"}
       [] v = 975 -> {"SERVER_SCRIPT_DEBUG_DRAWER", "SERVERBOUND_DIAGNOSTICS"}
       [] OTHER -> {}]
Excused(v, w, kind) ==
  ~ Has(v, kind) \/ ~ Has(w, kind) \/ kind \in Reformed[IF v < w THEN w ELSE v]

\* No protocol drops a packet that its other side could have been sent.
DroppedRightly ==
  status = "cancelled" => Excused(at, Onward, route.kind)

\* The handlers never nest deeper than Parts goes, and those that cancel the
\* packet belong to protocols that may.
Cancels(T) ==
  \E U \in Parts(T) : \E k \in 1..Len(U) : U[k].op = "stop" /\ U[k].st = "cancelled"
HandlersAssumption ==
  \A dir \in Directions : \A step \in DOMAIN Registered(dir) :
    \A kind \in DOMAIN Registered(dir)[step] :
      LET handler == Registered(dir)[step][kind]
      IN /\ Inside(Parts(handler)) \subseteq Parts(handler)
         /\ \A T \in Parts(handler) :
              Len(T) \in Nat /\ \A k \in 1..Len(T) : T[k].op \in Nesting \cup Plain
         /\ Cancels(handler) => Excused(step[1], step[2], kind)
ASSUME HandlersAssumption

\* The journey, with all that happens in a wrapper hidden, is a delivery.
Abstract ==
  INSTANCE Delivery WITH
    Towards <- NextTo,
    status <- IF status = "handling" THEN "travelling" ELSE status
Delivers == Abstract!Spec
=============================================================================
