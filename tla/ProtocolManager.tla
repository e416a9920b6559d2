-------------------------- MODULE ProtocolManager --------------------------
(***************************************************************************)
(* protocol/manager.py: the registry of protocols, the breadth-first       *)
(* search for a chain of them, and the cache of its results.  One action   *)
(* per branch of get_path and per statement of the loops of _bfs and       *)
(* get_supported_versions, so that the loops' invariants can be stated.    *)
(***************************************************************************)
EXTENDS Protocols

CONSTANTS
    Servers,            \* the server versions the manager is asked about
    MaxRegistered       \* bound of the model: how many protocols are registered

ASSUME ServersAssumption == Servers \subseteq Versions
ASSUME MaxRegisteredAssumption == MaxRegistered \in Nat

VARIABLES
    protocols,      \* _protocols: the dictionary's values, in insertion order
    path_cache,     \* _path_cache: from <<server, client>> to a path or None
    pc,             \* "idle", or where _bfs is: "while" (its outer loop) or "for" (its inner one)
    goal,           \* the <<server, client>> that _bfs was called with
    visited,        \* _bfs's visited
    queue,          \* _bfs's queue
    node,           \* _bfs's (current, path)
    edges,          \* the positions in protocols of adjacency[current] still to be followed
    survey,         \* get_supported_versions under way, or None
    answer          \* the last result returned to a caller of the manager

search == <<pc, goal, visited, queue, node, edges>>
vars == <<protocols, path_cache, search, survey, answer>>

Registered == {protocols[i] : i \in 1 .. Len(protocols)}

Nodes == [version : Versions, path : Seq(Pool)]
Surveys == [server : Versions, todo : SUBSET (1 .. Len(protocols)), supported : SUBSET Versions]

Init ==
    /\ protocols = <<>>
    /\ path_cache = <<>>
    /\ pc = "idle"
    /\ goal = None
    /\ visited = {}
    /\ queue = <<>>
    /\ node = None
    /\ edges = {}
    /\ survey = None
    /\ answer = None

Idle == pc = "idle" /\ survey = None

\* i is the first of the positions that a loop over the protocols has left.
IsNext(i, positions) == i \in positions /\ \A j \in positions : i <= j

\* The dictionary keeps the position of a key that is assigned again.
Insert(p) ==
    \/ \E i \in 1 .. Len(protocols) :
           Key(protocols[i]) = Key(p) /\ protocols' = [protocols EXCEPT ![i] = p]
    \/ /\ \A i \in 1 .. Len(protocols) : Key(protocols[i]) # Key(p)
       /\ Len(protocols) < MaxRegistered
       /\ protocols' = Append(protocols, p)

\* A faulty variant: register forgets only the answers "no path".
Keep(keys) == path_cache' = [k \in keys |-> path_cache[k]]

register_KeepingPaths(p) ==
    /\ Idle
    /\ Insert(p)
    /\ Keep({k \in DOMAIN path_cache : path_cache[k] # None})
    /\ UNCHANGED <<search, survey, answer>>

\* A new protocol makes every answer that was remembered doubtful.
register(p) ==
    /\ Idle
    /\ Insert(p)
    /\ path_cache' = <<>>
    /\ UNCHANGED <<search, survey, answer>>

(***************************************************************************)
(* The paths returned by get_path go to the caller, or to the iteration of *)
(* get_supported_versions that asked for them.                             *)
(***************************************************************************)
ReturnToCaller(s, c, path) ==
    /\ survey = None
    /\ answer' = [server |-> s, client |-> c, path |-> path]
    /\ UNCHANGED survey

\* A faulty variant: a client without a path is supported too.
Supported_Always(c, path) == {c}

Supported(c, path) == IF path = None THEN {} ELSE {c}

ReturnToSurvey(c, path) ==
    /\ survey # None
    /\ \E i \in survey.todo :
           /\ IsNext(i, survey.todo)
           /\ survey' = [server |-> survey.server,
                         todo |-> survey.todo \ {i},
                         supported |-> survey.supported \cup Supported(c, path)]
    /\ UNCHANGED answer

Return(s, c, path) == ReturnToCaller(s, c, path) \/ ReturnToSurvey(c, path)

\* A faulty variant: only the latest answer is remembered.
Remember_Latest(s, c, path) == path_cache' = [k \in {<<s, c>>} |-> path]

Remember(s, c, path) ==
    path_cache' = [k \in DOMAIN path_cache \cup {<<s, c>>} |->
                      IF k = <<s, c>> THEN path ELSE path_cache[k]]

ReturnSame(s, c) ==
    /\ s = c
    /\ Return(s, c, <<>>)
    /\ UNCHANGED <<path_cache, search>>

ReturnCached(s, c) ==
    /\ s # c
    /\ <<s, c>> \in DOMAIN path_cache
    /\ Return(s, c, path_cache[<<s, c>>])
    /\ UNCHANGED <<path_cache, search>>

ReturnDirect(s, c) ==
    /\ s # c
    /\ <<s, c>> \notin DOMAIN path_cache
    /\ \E i \in 1 .. Len(protocols) :
           /\ Key(protocols[i]) = <<s, c>>
           /\ Remember(s, c, <<protocols[i]>>)
           /\ Return(s, c, <<protocols[i]>>)
    /\ UNCHANGED search

StartSearch(s, c) ==
    /\ s # c
    /\ <<s, c>> \notin DOMAIN path_cache
    /\ \A i \in 1 .. Len(protocols) : Key(protocols[i]) # <<s, c>>
    /\ pc' = "while"
    /\ goal' = <<s, c>>
    /\ visited' = {c}
    /\ queue' = <<[version |-> c, path |-> <<>>]>>
    /\ UNCHANGED <<node, edges, path_cache, survey, answer>>

get_path(s, c) ==
    /\ \/ ReturnSame(s, c)
       \/ ReturnCached(s, c)
       \/ ReturnDirect(s, c)
       \/ StartSearch(s, c)
    /\ UNCHANGED protocols

\* _bfs returns, and get_path caches what it returned.
EndSearch(path) ==
    /\ pc' = "idle"
    /\ goal' = None
    /\ visited' = {}
    /\ queue' = <<>>
    /\ node' = None
    /\ edges' = {}
    /\ Remember(goal[1], goal[2], path)
    /\ Return(goal[1], goal[2], path)
    /\ UNCHANGED protocols

\* A faulty variant: one position off.
Adjacent_OffByOne(version) ==
    {i - 1 : i \in {j \in 1 .. Len(protocols) : protocols[j].client_protocol = version}}

\* adjacency[version]
Adjacent(version) == {i \in 1 .. Len(protocols) : protocols[i].client_protocol = version}

\* A faulty variant: the node is read and stays in the queue.
PopLeft_Peek ==
    /\ pc = "while"
    /\ queue # <<>>
    /\ node' = Head(queue)
    /\ edges' = Adjacent(Head(queue).version)
    /\ pc' = "for"
    /\ UNCHANGED <<protocols, path_cache, goal, visited, queue, survey, answer>>

PopLeft ==
    /\ pc = "while"
    /\ queue # <<>>
    /\ node' = Head(queue)
    /\ queue' = Tail(queue)
    /\ edges' = Adjacent(Head(queue).version)
    /\ pc' = "for"
    /\ UNCHANGED <<protocols, path_cache, goal, visited, survey, answer>>

QueueEmpty ==
    /\ pc = "while"
    /\ queue = <<>>
    /\ EndSearch(None)

\* A faulty variant: a version seen before is queued again.
IsNew_Always(version) == TRUE

IsNew(version) == version \notin visited

FollowEdge(i) ==
    LET protocol == protocols[i]
        next_proto == protocol.server_protocol
        extended == Append(node.path, protocol)
    IN  /\ pc = "for"
        /\ IsNext(i, edges)
        /\ \/ next_proto = goal[1] /\ EndSearch(extended)
           \/ /\ next_proto # goal[1]
              /\ IsNew(next_proto)
              /\ visited' = visited \cup {next_proto}
              /\ queue' = Append(queue, [version |-> next_proto, path |-> extended])
              /\ edges' = edges \ {i}
              /\ UNCHANGED <<protocols, path_cache, pc, goal, node, survey, answer>>
           \/ /\ next_proto # goal[1]
              /\ ~IsNew(next_proto)
              /\ edges' = edges \ {i}
              /\ UNCHANGED <<protocols, path_cache, pc, goal, visited, queue, node, survey, answer>>

EdgesDone ==
    /\ pc = "for"
    /\ edges = {}
    /\ pc' = "while"
    /\ UNCHANGED <<protocols, path_cache, goal, visited, queue, node, edges, survey, answer>>

(***************************************************************************)
(* get_supported_versions: one get_path for the client version of every    *)
(* key, in order, then the collected versions.                             *)
(***************************************************************************)
get_supported_versions(s) ==
    /\ Idle
    /\ survey' = [server |-> s, todo |-> 1 .. Len(protocols), supported |-> {s}]
    /\ UNCHANGED <<protocols, path_cache, search, answer>>

SurveyNext ==
    /\ pc = "idle"
    /\ survey # None
    /\ \E i \in survey.todo :
           IsNext(i, survey.todo) /\ get_path(survey.server, protocols[i].client_protocol)

SurveyDone ==
    /\ pc = "idle"
    /\ survey # None
    /\ survey.todo = {}
    /\ answer' = [server |-> survey.server, supported |-> survey.supported]
    /\ survey' = None
    /\ UNCHANGED <<protocols, path_cache, search>>

Search ==
    \/ PopLeft
    \/ QueueEmpty
    \/ \E i \in edges : FollowEdge(i)
    \/ EdgesDone

Survey == SurveyNext \/ SurveyDone

Next ==
    \/ \E p \in Pool : register(p)
    \/ \E s \in Servers, c \in Versions : Idle /\ get_path(s, c)
    \/ \E s \in Servers : get_supported_versions(s)
    \/ Search
    \/ Survey

Spec == Init /\ [][Next]_vars

\* A call of the manager, once made, runs to its end.
FairSpec == Spec /\ WF_vars(Search) /\ WF_vars(Survey)

-----------------------------------------------------------------------------
(***************************************************************************)
(* Properties.                                                             *)
(***************************************************************************)

\* The type of every variable.
TypeOK ==
    /\ protocols \in Seq(Pool)
    /\ DOMAIN path_cache \subseteq Versions \X Versions
    /\ \A k \in DOMAIN path_cache : path_cache[k] \in Seq(Pool) \cup {None}
    /\ pc \in {"idle", "while", "for"}
    /\ pc # "idle" => goal \in Versions \X Versions
    /\ visited \subseteq Versions
    /\ queue \in Seq(Nodes)
    /\ pc = "for" => node \in Nodes
    /\ edges \subseteq 1 .. Len(protocols)
    /\ survey \in Surveys \cup {None}

(***************************************************************************)
(* A cached path is the answer a fresh search would give with the          *)
(* protocols registered now: no entry, and no protocol replaced since,     *)
(* survives a later register (the cache is cleared as a whole).            *)
(***************************************************************************)
CacheFresh ==
    \A k \in DOMAIN path_cache : path_cache[k] \in Paths(Registered, k[1], k[2])

(***************************************************************************)
(* What _bfs relies on to return a shortest chain at the first edge into   *)
(* the goal: the queue is ordered by distance from the client version, no  *)
(* queued path is more than one hop longer than the one being extended,    *)
(* and no version is queued or expanded twice.                             *)
(***************************************************************************)
BreadthFirst ==
    LET frontier == (IF pc = "for" THEN <<node>> ELSE <<>>) \o queue
        hops(i) == Len(frontier[i].path)
    IN  \A i, j \in 1 .. Len(frontier) :
            i < j => /\ hops(i) <= hops(j)
                     /\ hops(j) <= hops(1) + 1
                     /\ frontier[i].version # frontier[j].version

(***************************************************************************)
(* Asked again, the manager gives the same answer, until a protocol is     *)
(* registered: nothing remembered is changed or forgotten, whatever is     *)
(* searched for in between, and what a caller gets is what is remembered   *)
(* (manager.py:70-81).  Two connections of one client version thus share   *)
(* one chain, whenever their lists are resolved.                           *)
(***************************************************************************)
CacheStays ==
    \A k \in DOMAIN path_cache : k \in DOMAIN path_cache' /\ path_cache'[k] = path_cache[k]

AnswerIsRemembered ==
    answer'.server # answer'.client =>
        /\ <<answer'.server, answer'.client>> \in DOMAIN path_cache'
        /\ answer'.path = path_cache'[<<answer'.server, answer'.client>>]

AnswersStay ==
    [][\/ \E p \in Pool : register(p)
       \/ CacheStays /\ (survey = None /\ answer' # answer => AnswerIsRemembered)]_vars

(***************************************************************************)
(* No call of the manager is left without its result: a search always      *)
(* ends, whatever cycles the registered protocols form, and so does a      *)
(* survey of the supported versions.                                       *)
(***************************************************************************)
CallsReturn == ~Idle ~> Idle

\* The manager, with its cache and its search, answers as ChainResolution does.
Abstract == INSTANCE ChainResolution WITH registered <- Registered, answer <- answer

ResolvesChains == Abstract!Spec
============================================================================
