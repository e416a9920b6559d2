---------------------- MODULE ProtocolManager_proofs -----------------------
(***************************************************************************)
(* For every set of versions and every pool of protocols: whatever is      *)
(* registered, and in whatever order, a cached path is a shortest chain of *)
(* the protocols registered now between the versions it is cached for, a   *)
(* cached None is right, and the search visits versions in the order of    *)
(* their distance.                                                         *)
(***************************************************************************)
EXTENDS ProtocolManager, TLAPS, FiniteSetTheorems

\* What a search knows of a queued or popped node: how it got there.
PathTo(n) ==
    \/ n.path = <<>> /\ n.version = goal[2]
    \/ IsChainOf(Registered, n.path, n.version, goal[2])

\* Every version that was visited is queued, or its protocols were followed or still will be.
Expanded ==
    \A j \in 1 .. Len(protocols) :
        protocols[j].client_protocol \in visited =>
            \/ protocols[j].server_protocol \in visited
            \/ \E i \in 1 .. Len(queue) : queue[i].version = protocols[j].client_protocol
            \/ pc = "for" /\ j \in edges

\* The invariant of _bfs's loops.
SearchInv ==
    pc # "idle" =>
        /\ goal[2] \in visited
        /\ goal[1] \notin visited
        /\ \A i \in 1 .. Len(queue) : PathTo(queue[i])
        /\ pc = "for" => /\ PathTo(node)
                         /\ \A j \in edges : protocols[j].client_protocol = node.version
        /\ Expanded

(***************************************************************************)
(* What CacheFresh needs of the cache before anything is known of lengths: *)
(* a cached path is a chain of registered protocols between the two        *)
(* versions of its key, a cached None means that there is none.            *)
(***************************************************************************)
CacheSound ==
    \A k \in DOMAIN path_cache :
        IF path_cache[k] = None THEN Unreachable(Registered, k[1], k[2])
        ELSE IsChainOf(Registered, path_cache[k], k[1], k[2])

IInv == TypeOK /\ CacheSound /\ SearchInv

PathSound(s, c, path) ==
    IF path = None THEN Unreachable(Registered, s, c)
    ELSE IsChainOf(Registered, path, s, c)

-----------------------------------------------------------------------------
(***************************************************************************)
(* Lemmas on chains.                                                       *)
(***************************************************************************)

\* A protocol alone is a chain for its own pair of versions (get_path's direct lookup).
LEMMA SingleIsChain ==
    ASSUME NEW P \in SUBSET Pool, NEW p \in P
    PROVE  IsChainOf(P, <<p>>, p.server_protocol, p.client_protocol)
BY DEF IsChainOf, IsChain

\* Extending a chain by a protocol whose client side is where the chain ends (_bfs's path + [protocol]).
LEMMA AppendToChain ==
    ASSUME NEW P \in SUBSET Pool, NEW p \in P, NEW ch, NEW v, NEW c,
           IsChainOf(P, ch, v, c), p.client_protocol = v
    PROVE  IsChainOf(P, Append(ch, p), p.server_protocol, c)
<1> DEFINE new == Append(ch, p)
<1>1. ch \in Seq(Pool) /\ Len(ch) \in Nat /\ Len(ch) >= 1
  BY DEF IsChainOf, IsChain
<1>2. new \in Seq(Pool) /\ Len(new) = Len(ch) + 1 /\ new[Len(ch) + 1] = p
  BY <1>1
<1>3. \A i \in 1 .. Len(ch) : new[i] = ch[i]
  BY <1>1
<1>4. new # <<>>
  BY <1>1, <1>2
<1>5. new[1].client_protocol = c
  BY <1>1, <1>3 DEF IsChainOf, IsChain
<1>6. \A i \in 1 .. Len(new) - 1 : new[i].server_protocol = new[i + 1].client_protocol
  <2> SUFFICES ASSUME NEW i \in 1 .. Len(new) - 1
               PROVE  new[i].server_protocol = new[i + 1].client_protocol
    OBVIOUS
  <2>1. CASE i = Len(ch)
    BY <2>1, <1>1, <1>2, <1>3 DEF IsChainOf, IsChain
  <2>2. CASE i < Len(ch)
    BY <2>2, <1>1, <1>2, <1>3 DEF IsChainOf, IsChain
  <2> QED
    BY <1>1, <1>2, <2>1, <2>2
<1>7. \A i \in 1 .. Len(new) : new[i] \in P
  BY <1>1, <1>2, <1>3 DEF IsChainOf
<1> HIDE DEF new
<1>8. IsChainOf(P, new, p.server_protocol, c)
  BY <1>2, <1>4, <1>5, <1>6, <1>7 DEF IsChainOf, IsChain
<1> QED
  BY <1>8 DEF new

\* The protocols of the dictionary come from the pool.
LEMMA RegisteredInPool ==
    ASSUME TypeOK
    PROVE  Registered \in SUBSET Pool
BY DEF TypeOK, Registered

-----------------------------------------------------------------------------
(***************************************************************************)
(* The parts that several actions share.                                   *)
(***************************************************************************)

\* Caching a path for a pair of versions keeps the cache well typed and sound if the path is sound.
LEMMA RememberKeeps ==
    ASSUME IInv, NEW s \in Versions, NEW c \in Versions,
           NEW path \in Seq(Pool) \cup {None}, PathSound(s, c, path),
           Remember(s, c, path), UNCHANGED protocols
    PROVE  /\ DOMAIN path_cache' \subseteq Versions \X Versions
           /\ \A k \in DOMAIN path_cache' : path_cache'[k] \in Seq(Pool) \cup {None}
           /\ CacheSound'
<1>1. Registered' = Registered
  BY DEF Registered
<1>2. DOMAIN path_cache' = DOMAIN path_cache \cup {<<s, c>>}
  BY DEF Remember
<1>3. ASSUME NEW k \in DOMAIN path_cache'
      PROVE  /\ path_cache'[k] \in Seq(Pool) \cup {None}
             /\ PathSound(k[1], k[2], path_cache'[k])
  <2>1. CASE k = <<s, c>>
    BY <2>1, <1>2 DEF Remember
  <2>2. CASE k # <<s, c>>
    BY <2>2, <1>2 DEF Remember, IInv, TypeOK, CacheSound, PathSound
  <2> QED
    BY <2>1, <2>2
<1>4. CacheSound'
  BY <1>1, <1>3 DEF CacheSound, PathSound
<1> QED
  BY <1>2, <1>3, <1>4 DEF IInv, TypeOK

\* Returning a path leaves a survey in progress well typed.
LEMMA ReturnKeeps ==
    ASSUME TypeOK, NEW s \in Versions, NEW c \in Versions, NEW path, Return(s, c, path),
           UNCHANGED protocols
    PROVE  survey' \in Surveys' \cup {None}
<1>1. CASE ReturnToCaller(s, c, path)
  BY <1>1 DEF ReturnToCaller, TypeOK, Surveys
<1>2. CASE ReturnToSurvey(c, path)
  BY <1>2 DEF ReturnToSurvey, Supported, TypeOK, Surveys
<1> QED
  BY <1>1, <1>2 DEF Return

\* The end of a search with a sound path keeps the invariant.
LEMMA EndSearchKeeps ==
    ASSUME IInv, pc # "idle", NEW path \in Seq(Pool) \cup {None},
           PathSound(goal[1], goal[2], path), EndSearch(path)
    PROVE  IInv'
<1>1. goal[1] \in Versions /\ goal[2] \in Versions
  BY DEF IInv, TypeOK
<1>2. Remember(goal[1], goal[2], path) /\ UNCHANGED protocols
  BY DEF EndSearch
<1>3. /\ DOMAIN path_cache' \subseteq Versions \X Versions
      /\ \A k \in DOMAIN path_cache' : path_cache'[k] \in Seq(Pool) \cup {None}
      /\ CacheSound'
  BY <1>1, <1>2, RememberKeeps
<1>4. survey' \in Surveys' \cup {None}
  BY <1>1, ReturnKeeps DEF EndSearch, IInv
<1>5. TypeOK'
  BY <1>3, <1>4 DEF EndSearch, IInv, TypeOK
<1>6. SearchInv'
  BY DEF EndSearch, SearchInv
<1> QED
  BY <1>3, <1>5, <1>6 DEF IInv

\* A call of get_path keeps the invariant, whoever makes it.
LEMMA GetPathKeeps ==
    ASSUME IInv, pc = "idle", NEW s \in Versions, NEW c \in Versions, get_path(s, c)
    PROVE  IInv'
<1>0. UNCHANGED protocols /\ Registered' = Registered
  BY DEF get_path, Registered
<1>1. CASE ReturnSame(s, c)
  <2>1. survey' \in Surveys' \cup {None}
    BY <1>0, <1>1, ReturnKeeps DEF ReturnSame, IInv
  <2>2. TypeOK'
    BY <1>0, <1>1, <2>1 DEF ReturnSame, search, IInv, TypeOK
  <2>3. CacheSound'
    BY <1>0, <1>1 DEF ReturnSame, IInv, CacheSound
  <2> QED
    BY <1>1, <2>2, <2>3 DEF ReturnSame, search, IInv, SearchInv
<1>2. CASE ReturnCached(s, c)
  <2>1. survey' \in Surveys' \cup {None}
    BY <1>0, <1>2, ReturnKeeps DEF ReturnCached, IInv
  <2>2. TypeOK'
    BY <1>0, <1>2, <2>1 DEF ReturnCached, search, IInv, TypeOK
  <2>3. CacheSound'
    BY <1>0, <1>2 DEF ReturnCached, IInv, CacheSound
  <2> QED
    BY <1>2, <2>2, <2>3 DEF ReturnCached, search, IInv, SearchInv
<1>3. CASE ReturnDirect(s, c)
  <2>1. PICK i \in 1 .. Len(protocols) :
            /\ Key(protocols[i]) = <<s, c>>
            /\ Remember(s, c, <<protocols[i]>>)
            /\ Return(s, c, <<protocols[i]>>)
    BY <1>3 DEF ReturnDirect
  <2>2. protocols[i] \in Pool /\ protocols[i] \in Registered /\ Registered \in SUBSET Pool
    BY RegisteredInPool DEF IInv, TypeOK, Registered
  <2>3. protocols[i].server_protocol = s /\ protocols[i].client_protocol = c
    BY <2>1 DEF Key
  <2>4. <<protocols[i]>> \in Seq(Pool)
    BY <2>2
  <2>5. PathSound(s, c, <<protocols[i]>>)
    BY <2>2, <2>3, <2>4, SingleIsChain, NoneAssumption DEF PathSound
  <2>6. /\ DOMAIN path_cache' \subseteq Versions \X Versions
        /\ \A k \in DOMAIN path_cache' : path_cache'[k] \in Seq(Pool) \cup {None}
        /\ CacheSound'
    BY <1>0, <2>1, <2>4, <2>5, RememberKeeps
  <2>7. survey' \in Surveys' \cup {None}
    BY <1>0, <2>1, ReturnKeeps DEF IInv
  <2>8. TypeOK'
    BY <1>0, <1>3, <2>6, <2>7 DEF ReturnDirect, search, IInv, TypeOK
  <2> QED
    BY <1>3, <2>6, <2>8 DEF ReturnDirect, search, IInv, SearchInv
<1>4. CASE StartSearch(s, c)
  <2> DEFINE start == [version |-> c, path |-> <<>>]
  <2>1. start \in Nodes
    BY DEF Nodes
  <2>2. queue' = <<start>> /\ goal' = <<s, c>> /\ visited' = {c} /\ pc' = "while" /\ s # c
    BY <1>4 DEF StartSearch
  <2>3. TypeOK'
    BY <1>0, <1>4, <2>1, <2>2 DEF StartSearch, IInv, TypeOK, Surveys
  <2>4. CacheSound'
    BY <1>0, <1>4 DEF StartSearch, IInv, CacheSound
  <2>5. SearchInv'
    BY <1>0, <2>2 DEF SearchInv, PathTo, Expanded
  <2> QED
    BY <2>3, <2>4, <2>5 DEF IInv
<1> QED
  BY <1>1, <1>2, <1>3, <1>4 DEF get_path

-----------------------------------------------------------------------------
(***************************************************************************)
(* The steps of the search.                                                *)
(***************************************************************************)

\* queue.popleft() keeps the invariant.
LEMMA PopLeftKeeps ==
    ASSUME IInv, PopLeft
    PROVE  IInv'
<1>1. /\ pc = "while" /\ pc' = "for" /\ queue # <<>>
      /\ node' = Head(queue) /\ queue' = Tail(queue)
      /\ edges' = {i \in 1 .. Len(protocols) : protocols[i].client_protocol = Head(queue).version}
      /\ UNCHANGED <<protocols, path_cache, goal, visited, survey, answer, Registered>>
  BY DEF PopLeft, Adjacent, Registered
<1>2. /\ queue \in Seq(Nodes) /\ Len(queue) >= 1 /\ Head(queue) = queue[1]
      /\ Tail(queue) \in Seq(Nodes) /\ Len(Tail(queue)) = Len(queue) - 1
      /\ \A i \in 1 .. Len(queue) - 1 : Tail(queue)[i] = queue[i + 1]
  BY <1>1 DEF IInv, TypeOK
<1>3. TypeOK'
  BY <1>1, <1>2 DEF IInv, TypeOK, Surveys
<1>4. CacheSound'
  BY <1>1 DEF IInv, CacheSound
<1>5. PathTo(node)' /\ \A i \in 1 .. Len(queue') : PathTo(queue[i])'
  <2>1. \A i \in 1 .. Len(queue) : PathTo(queue[i])
    BY <1>1 DEF IInv, SearchInv
  <2>2. PathTo(node)'
    BY <1>1, <1>2, <2>1 DEF PathTo
  <2>3. ASSUME NEW i \in 1 .. Len(queue') PROVE PathTo(queue[i])'
    <3>1. i + 1 \in 1 .. Len(queue) /\ queue'[i] = queue[i + 1]
      BY <1>1, <1>2
    <3> QED
      BY <1>1, <2>1, <3>1 DEF PathTo
  <2> QED
    BY <2>2, <2>3
<1>6. Expanded'
  <2> SUFFICES ASSUME NEW j \in 1 .. Len(protocols),
                      protocols[j].client_protocol \in visited,
                      protocols[j].server_protocol \notin visited
               PROVE  \/ \E i \in 1 .. Len(queue') : queue'[i].version = protocols[j].client_protocol
                      \/ j \in edges'
    BY <1>1 DEF Expanded
  <2>1. PICK i \in 1 .. Len(queue) : queue[i].version = protocols[j].client_protocol
    BY <1>1 DEF IInv, SearchInv, Expanded
  <2>2. CASE i = 1
    BY <1>1, <1>2, <2>1, <2>2
  <2>3. CASE i # 1
    <3>1. i - 1 \in 1 .. Len(queue') /\ queue'[i - 1] = queue[i]
      BY <1>1, <1>2, <2>3
    <3> QED
      BY <2>1, <3>1
  <2> QED
    BY <2>2, <2>3
<1>7. \A j \in edges' : protocols'[j].client_protocol = node'.version
  BY <1>1
<1> QED
  BY <1>1, <1>3, <1>4, <1>5, <1>6, <1>7 DEF IInv, SearchInv

\* With the queue empty, the visited versions are closed: None is the right answer.
LEMMA QueueEmptyKeeps ==
    ASSUME IInv, QueueEmpty
    PROVE  IInv'
<1>1. pc = "while" /\ queue = <<>> /\ EndSearch(None)
  BY DEF QueueEmpty
<1>2. goal[2] \in visited /\ goal[1] \notin visited /\ Expanded /\ visited \in SUBSET Versions
  BY <1>1 DEF IInv, SearchInv, TypeOK
<1>3. \A p \in Registered : p.client_protocol \in visited => p.server_protocol \in visited
  <2>1. Len(queue) = 0
    BY <1>1
  <2> QED
    BY <1>1, <1>2, <2>1 DEF Expanded, Registered
<1>4. Unreachable(Registered, goal[1], goal[2])
  BY <1>2, <1>3 DEF Unreachable
<1> QED
  BY <1>1, <1>4, EndSearchKeeps DEF PathSound

\* Following a protocol from the current version keeps the invariant.
LEMMA FollowEdgeKeeps ==
    ASSUME IInv, NEW i \in edges, FollowEdge(i)
    PROVE  IInv'
<1> DEFINE p == protocols[i]
           next == p.server_protocol
           extended == Append(node.path, p)
<1>1. /\ pc = "for" /\ node \in Nodes /\ PathTo(node) /\ i \in 1 .. Len(protocols)
      /\ protocols \in Seq(Pool) /\ queue \in Seq(Nodes)
  BY DEF FollowEdge, IsNew, IInv, TypeOK, SearchInv
<1>2. p \in Pool /\ p \in Registered /\ Registered \in SUBSET Pool /\ next \in Versions
  BY <1>1, RegisteredInPool, PoolAssumption DEF IInv, Registered
<1>3. p.client_protocol = node.version
  BY <1>1 DEF IInv, SearchInv
<1>4. extended \in Seq(Pool) /\ IsChainOf(Registered, extended, next, goal[2])
  <2>1. CASE node.path = <<>> /\ node.version = goal[2]
    <3>1. extended = <<p>>
      BY <2>1
    <3> QED
      BY <1>2, <1>3, <2>1, <3>1, SingleIsChain DEF IsChainOf, IsChain
  <2>2. CASE IsChainOf(Registered, node.path, node.version, goal[2])
    <3>1. IsChainOf(Registered, extended, next, goal[2])
      BY <1>2, <1>3, <2>2, AppendToChain
    <3> QED
      BY <3>1 DEF IsChainOf, IsChain
  <2> QED
    BY <1>1, <2>1, <2>2 DEF PathTo
<1>5. CASE next = goal[1] /\ EndSearch(extended)
  <2>1. PathSound(goal[1], goal[2], extended)
    BY <1>4, <1>5, NoneAssumption DEF PathSound
  <2> QED
    BY <1>1, <1>4, <1>5, <2>1, EndSearchKeeps
<1>6. ASSUME next # goal[1], edges' = edges \ {i},
             UNCHANGED <<protocols, path_cache, pc, goal, node, survey, answer>>,
             visited' = visited \cup {next},
             queue' \in Seq(Nodes),
             \A k \in 1 .. Len(queue) : k \in 1 .. Len(queue') /\ queue'[k] = queue[k],
             \A k \in 1 .. Len(queue') : k \in 1 .. Len(queue) \/ queue'[k] = [version |-> next, path |-> extended],
             next \in visited \/ \E k \in 1 .. Len(queue') : queue'[k].version = next
      PROVE  IInv'
  <2>0. Registered' = Registered
    BY <1>6 DEF Registered
  <2>1. TypeOK'
    BY <1>1, <1>2, <1>6 DEF IInv, TypeOK, Surveys
  <2>2. CacheSound'
    BY <1>6, <2>0 DEF IInv, CacheSound
  <2>3. ASSUME NEW k \in 1 .. Len(queue') PROVE PathTo(queue[k])'
    <3>1. CASE k \in 1 .. Len(queue)
      BY <1>1, <1>6, <2>0, <3>1 DEF IInv, SearchInv, PathTo
    <3>2. CASE queue'[k] = [version |-> next, path |-> extended]
      BY <1>4, <1>6, <2>0, <3>2 DEF PathTo
    <3> QED
      BY <1>6, <3>1, <3>2
  <2>4. Expanded'
    <3> SUFFICES ASSUME NEW j \in 1 .. Len(protocols),
                        protocols[j].client_protocol \in visited',
                        protocols[j].server_protocol \notin visited'
                 PROVE  \/ \E k \in 1 .. Len(queue') : queue'[k].version = protocols[j].client_protocol
                        \/ j \in edges'
      BY <1>1, <1>6 DEF Expanded
    <3>1. CASE protocols[j].client_protocol \in visited
      <4>1. j # i
        BY <1>6
      <4>2. \/ \E k \in 1 .. Len(queue) : queue[k].version = protocols[j].client_protocol
            \/ j \in edges
        BY <1>1, <1>6, <3>1 DEF IInv, SearchInv, Expanded
      <4> QED
        BY <1>6, <4>1, <4>2
    <3>2. CASE protocols[j].client_protocol \notin visited
      BY <1>6, <3>2
    <3> QED
      BY <3>1, <3>2
  <2>5. PathTo(node)' /\ \A j \in edges' : protocols'[j].client_protocol = node'.version
    BY <1>1, <1>6, <2>0 DEF IInv, SearchInv, PathTo
  <2> QED
    BY <1>1, <1>6, <2>1, <2>2, <2>3, <2>4, <2>5 DEF IInv, SearchInv
<1>7. CASE /\ next # goal[1]
           /\ next \notin visited
           /\ visited' = visited \cup {next}
           /\ queue' = Append(queue, [version |-> next, path |-> extended])
           /\ edges' = edges \ {i}
           /\ UNCHANGED <<protocols, path_cache, pc, goal, node, survey, answer>>
  <2> DEFINE new == [version |-> next, path |-> extended]
  <2>1. new \in Nodes
    BY <1>2, <1>4 DEF Nodes
  <2>2. /\ queue' \in Seq(Nodes) /\ Len(queue') = Len(queue) + 1 /\ queue'[Len(queue) + 1] = new
        /\ Len(queue) \in Nat /\ \A k \in 1 .. Len(queue) : queue'[k] = queue[k]
    <3> HIDE DEF new
    <3> QED
      BY <1>1, <1>7, <2>1 DEF new
  <2>3. \A k \in 1 .. Len(queue) : k \in 1 .. Len(queue') /\ queue'[k] = queue[k]
    BY <2>2
  <2>4. \A k \in 1 .. Len(queue') : k \in 1 .. Len(queue) \/ queue'[k] = new
    BY <2>2
  <2>5. \E k \in 1 .. Len(queue') : queue'[k].version = next
    BY <2>2
  <2> QED
    BY <1>6, <1>7, <2>2, <2>3, <2>4, <2>5
<1>8. CASE /\ next # goal[1]
           /\ next \in visited
           /\ edges' = edges \ {i}
           /\ UNCHANGED <<protocols, path_cache, pc, goal, visited, queue, node, survey, answer>>
  <2>1. visited' = visited \cup {next} /\ queue' \in Seq(Nodes) /\ queue' = queue
    BY <1>1, <1>8
  <2> QED
    BY <1>6, <1>8, <2>1
<1> QED
  BY <1>5, <1>7, <1>8 DEF FollowEdge, IsNew

\* The inner loop's end keeps the invariant.
LEMMA EdgesDoneKeeps ==
    ASSUME IInv, EdgesDone
    PROVE  IInv'
<1>1. TypeOK'
  BY DEF EdgesDone, IInv, TypeOK, Surveys
<1>2. CacheSound'
  BY DEF EdgesDone, IInv, CacheSound, Registered
<1>3. SearchInv'
  BY DEF EdgesDone, IInv, SearchInv, PathTo, Expanded, Registered
<1> QED
  BY <1>1, <1>2, <1>3 DEF IInv

-----------------------------------------------------------------------------
(***************************************************************************)
(* Registration and get_supported_versions.                                *)
(***************************************************************************)

\* Registering a protocol keeps the invariant: the cache is cleared.
LEMMA RegisterKeeps ==
    ASSUME IInv, NEW p \in Pool, register(p)
    PROVE  IInv'
<1>1. protocols' \in Seq(Pool) /\ Len(protocols') >= Len(protocols)
  <2>1. protocols \in Seq(Pool)
    BY DEF IInv, TypeOK
  <2>2. CASE \E i \in 1 .. Len(protocols) : protocols' = [protocols EXCEPT ![i] = p]
    BY <2>1, <2>2
  <2>3. CASE protocols' = Append(protocols, p)
    BY <2>1, <2>3
  <2> QED
    BY <2>2, <2>3 DEF register, Insert
<1>2. TypeOK'
  BY <1>1 DEF register, Insert, search, Idle, IInv, TypeOK, Surveys
<1>3. CacheSound'
  BY DEF register, Insert, CacheSound
<1>4. SearchInv'
  BY DEF register, Insert, Idle, search, SearchInv
<1> QED
  BY <1>2, <1>3, <1>4 DEF IInv

\* The start of get_supported_versions keeps the invariant.
LEMMA SurveyStartKeeps ==
    ASSUME IInv, NEW s \in Servers, get_supported_versions(s)
    PROVE  IInv'
<1>1. survey' \in Surveys'
  BY ServersAssumption DEF get_supported_versions, Surveys, IInv, TypeOK
<1>2. TypeOK'
  BY <1>1 DEF get_supported_versions, search, IInv, TypeOK, Surveys
<1>3. CacheSound'
  BY DEF get_supported_versions, IInv, CacheSound, Registered
<1>4. SearchInv'
  BY DEF get_supported_versions, Idle, search, SearchInv
<1> QED
  BY <1>2, <1>3, <1>4 DEF IInv

\* An iteration of get_supported_versions keeps the invariant.
LEMMA SurveyNextKeeps ==
    ASSUME IInv, SurveyNext
    PROVE  IInv'
<1>1. PICK i \in survey.todo : get_path(survey.server, protocols[i].client_protocol)
  BY DEF SurveyNext
<1>2. survey \in Surveys /\ protocols \in Seq(Pool)
  BY DEF SurveyNext, IInv, TypeOK
<1>3. i \in 1 .. Len(protocols) /\ survey.server \in Versions
  BY <1>2 DEF Surveys
<1>4. protocols[i].client_protocol \in Versions
  BY <1>2, <1>3, PoolAssumption
<1> QED
  BY <1>1, <1>3, <1>4, GetPathKeeps DEF SurveyNext

\* The end of get_supported_versions keeps the invariant.
LEMMA SurveyDoneKeeps ==
    ASSUME IInv, SurveyDone
    PROVE  IInv'
<1>1. TypeOK'
  BY DEF SurveyDone, search, IInv, TypeOK
<1>2. CacheSound'
  BY DEF SurveyDone, IInv, CacheSound, Registered
<1>3. SearchInv'
  BY DEF SurveyDone, search, SearchInv
<1> QED
  BY <1>1, <1>2, <1>3 DEF IInv

-----------------------------------------------------------------------------
(***************************************************************************)
(* The theorems.                                                           *)
(***************************************************************************)

\* The invariant is inductive.
LEMMA Inductive == IInv /\ [Next]_vars => IInv'
<1> SUFFICES ASSUME IInv, [Next]_vars PROVE IInv'
  OBVIOUS
<1>1. CASE \E p \in Pool : register(p)
  BY <1>1, RegisterKeeps
<1>2. CASE \E s \in Servers, c \in Versions : Idle /\ get_path(s, c)
  BY <1>2, GetPathKeeps, ServersAssumption DEF Idle
<1>3. CASE \E s \in Servers : get_supported_versions(s)
  BY <1>3, SurveyStartKeeps
<1>4. CASE Search
  BY <1>4, PopLeftKeeps, QueueEmptyKeeps, FollowEdgeKeeps, EdgesDoneKeeps DEF Search
<1>5. CASE Survey
  BY <1>5, SurveyNextKeeps, SurveyDoneKeeps DEF Survey
<1>6. CASE UNCHANGED vars
  <2>1. TypeOK'
    BY <1>6 DEF vars, search, IInv, TypeOK, Surveys
  <2>2. CacheSound'
    BY <1>6 DEF vars, IInv, CacheSound, Registered
  <2>3. SearchInv'
    BY <1>6 DEF vars, search, IInv, SearchInv, PathTo, Expanded, Registered
  <2> QED
    BY <2>1, <2>2, <2>3 DEF IInv
<1> QED
  BY <1>1, <1>2, <1>3, <1>4, <1>5, <1>6 DEF Next

\* It holds initially: nothing is registered, cached or searched for.
LEMMA Initial == Init => IInv
BY DEF Init, IInv, TypeOK, CacheSound, SearchInv

\* The invariant holds in every state of the manager.
LEMMA Invariant == Spec => []IInv
BY Initial, Inductive, PTL DEF Spec

\* Every variable of the manager keeps its type, a search's and a survey's included.
THEOREM TypeCorrect == Spec => []TypeOK
<1>1. IInv => TypeOK
  BY DEF IInv
<1> QED
  BY <1>1, Invariant, PTL

-----------------------------------------------------------------------------
(***************************************************************************)
(* The answers stay.                                                       *)
(***************************************************************************)

\* Nothing is searched for that is remembered.
Unanswered == pc # "idle" => goal \notin DOMAIN path_cache /\ goal[1] # goal[2]

AInv == TypeOK /\ Unanswered

\* Remembering an answer to a question that had none changes no other.
LEMMA RememberStays ==
    ASSUME NEW s, NEW c, NEW path, <<s, c>> \notin DOMAIN path_cache, Remember(s, c, path)
    PROVE  /\ CacheStays
           /\ <<s, c>> \in DOMAIN path_cache'
           /\ path_cache'[<<s, c>>] = path
BY DEF Remember, CacheStays

\* A path returned outside a survey is the answer.
LEMMA ReturnAnswers ==
    ASSUME NEW s, NEW c, NEW path, Return(s, c, path),
           s # c => <<s, c>> \in DOMAIN path_cache' /\ path_cache'[<<s, c>>] = path
    PROVE  survey = None => AnswerIsRemembered
BY DEF Return, ReturnToCaller, ReturnToSurvey, AnswerIsRemembered

\* get_path keeps what it remembers, and only searches for what it does not.
LEMMA GetPathStays ==
    ASSUME AInv, pc = "idle", NEW s, NEW c, get_path(s, c)
    PROVE  /\ CacheStays
           /\ survey = None /\ answer' # answer => AnswerIsRemembered
           /\ Unanswered'
<1>1. CASE ReturnSame(s, c)
  BY <1>1, ReturnAnswers DEF ReturnSame, CacheStays, search, Unanswered
<1>2. CASE ReturnCached(s, c)
  BY <1>2, ReturnAnswers DEF ReturnCached, CacheStays, search, Unanswered
<1>3. CASE ReturnDirect(s, c)
  BY <1>3, RememberStays, ReturnAnswers DEF ReturnDirect, search, Unanswered
<1>4. CASE StartSearch(s, c)
  BY <1>4 DEF StartSearch, CacheStays, Unanswered
<1> QED
  BY <1>1, <1>2, <1>3, <1>4 DEF get_path

\* The end of a search adds the answer to the question it was for.
LEMMA EndSearchStays ==
    ASSUME AInv, pc # "idle", NEW path, EndSearch(path)
    PROVE  /\ CacheStays
           /\ survey = None /\ answer' # answer => AnswerIsRemembered
           /\ Unanswered'
<1>1. goal = <<goal[1], goal[2]>> /\ goal \notin DOMAIN path_cache
  BY DEF AInv, TypeOK, Unanswered
<1>2. CacheStays /\ goal \in DOMAIN path_cache' /\ path_cache'[goal] = path
  BY <1>1, RememberStays DEF EndSearch
<1>3. survey = None => AnswerIsRemembered
  BY <1>1, <1>2, ReturnAnswers DEF EndSearch
<1> QED
  BY <1>2, <1>3 DEF EndSearch, Unanswered

\* Every step that registers nothing keeps the answers.
LEMMA StepStays ==
    ASSUME AInv, [Next]_vars
    PROVE  /\ Unanswered'
           /\ [\/ \E p \in Pool : register(p)
               \/ CacheStays /\ (survey = None /\ answer' # answer => AnswerIsRemembered)]_vars
<1>1. CASE UNCHANGED vars
  BY <1>1 DEF vars, search, AInv, Unanswered
<1>2. CASE \E p \in Pool : register(p)
  BY <1>2 DEF register, Idle, search, Unanswered
<1>3. CASE \E s \in Servers, c \in Versions : Idle /\ get_path(s, c)
  BY <1>3, GetPathStays DEF Idle
<1>4. CASE \E s \in Servers : get_supported_versions(s)
  BY <1>4 DEF get_supported_versions, Idle, search, CacheStays, Unanswered
<1>5. CASE PopLeft \/ EdgesDone
  BY <1>5 DEF PopLeft, EdgesDone, CacheStays, AInv, Unanswered
<1>6. CASE QueueEmpty
  BY <1>6, EndSearchStays DEF QueueEmpty
<1>7. ASSUME NEW i \in edges, FollowEdge(i)
      PROVE  /\ Unanswered'
             /\ CacheStays /\ (survey = None /\ answer' # answer => AnswerIsRemembered)
  <2>1. CASE EndSearch(Append(node.path, protocols[i]))
    BY <1>7, <2>1, EndSearchStays DEF FollowEdge
  <2>2. CASE UNCHANGED <<path_cache, pc, goal, answer>>
    BY <2>2 DEF CacheStays, AInv, Unanswered
  <2> QED
    BY <1>7, <2>1, <2>2 DEF FollowEdge
<1>8. CASE SurveyNext
  BY <1>8, GetPathStays DEF SurveyNext
<1>9. CASE SurveyDone
  BY <1>9 DEF SurveyDone, search, CacheStays, Unanswered
<1> QED
  BY <1>1, <1>2, <1>3, <1>4, <1>5, <1>6, <1>7, <1>8, <1>9 DEF Next, Search, Survey

(***************************************************************************)
(* Until a protocol is registered, the answer to a question stays what it  *)
(* is, and a caller gets the one that is remembered (manager.get_path):    *)
(* get_path can be taken for a function by whoever asks afterwards.        *)
(***************************************************************************)
THEOREM AnswersStayTheSame == Spec => AnswersStay
<1>1. Init => Unanswered
  BY DEF Init, Unanswered
<1>2. TypeOK /\ Unanswered /\ [Next]_vars
          => /\ Unanswered'
             /\ [\/ \E p \in Pool : register(p)
                 \/ CacheStays /\ (survey = None /\ answer' # answer => AnswerIsRemembered)]_vars
  BY StepStays DEF AInv
<1> QED
  BY <1>1, <1>2, TypeCorrect, PTL DEF Spec, AnswersStay

-----------------------------------------------------------------------------
(***************************************************************************)
(* The search visits versions in the order of their distance, and so every *)
(* path that get_path caches or returns is a shortest one.  First, lemmas  *)
(* on chains.                                                              *)
(***************************************************************************)

\* A chain of n protocols is a chain, and has n protocols.
LEMMA ChainsAreChains ==
    ASSUME NEW P \in SUBSET Pool, NEW s, NEW c, NEW n \in Nat, NEW ch \in Chains(P, s, c, n)
    PROVE  ch \in Seq(Pool) /\ IsChainOf(P, ch, s, c) /\ Len(ch) = n
<1>1. ch \in [1 .. n -> P] /\ IsChain(ch, s, c)
  BY DEF Chains
<1>2. ch \in Seq(P)
  BY <1>1
<1>3. ch \in Seq(Pool) /\ Len(ch) = n
  BY <1>1, <1>2 DEF IsChain
<1>4. \A i \in 1 .. Len(ch) : ch[i] \in P
  BY <1>1, <1>3
<1> QED
  BY <1>1, <1>3, <1>4 DEF IsChainOf

\* And the other way round.
LEMMA ChainsHaveChains ==
    ASSUME NEW P \in SUBSET Pool, NEW s, NEW c, NEW ch, IsChainOf(P, ch, s, c)
    PROVE  ch \in Seq(Pool) /\ Len(ch) \in Nat \ {0} /\ ch \in Chains(P, s, c, Len(ch))
<1>1. ch \in Seq(Pool) /\ ch # <<>> /\ \A i \in 1 .. Len(ch) : ch[i] \in P
  BY DEF IsChainOf, IsChain
<1>2. Len(ch) \in Nat \ {0}
  BY <1>1
<1>3. ch \in [1 .. Len(ch) -> P]
  BY <1>1, <1>2
<1> QED
  BY <1>1, <1>2, <1>3 DEF Chains, IsChainOf

\* What a chain is without its last protocol: nothing, or a chain.
LEMMA ChainWithoutLast ==
    ASSUME NEW P \in SUBSET Pool, NEW v, NEW c, NEW ch, IsChainOf(P, ch, v, c)
    PROVE  \E p \in P :
             /\ p.server_protocol = v
             /\ \/ Len(ch) = 1 /\ p.client_protocol = c
                \/ \E pre \in Seq(Pool) :
                     /\ IsChainOf(P, pre, p.client_protocol, c)
                     /\ Len(pre) = Len(ch) - 1
<1>1. /\ ch \in Seq(Pool) /\ Len(ch) \in Nat \ {0}
      /\ ch[1].client_protocol = c /\ ch[Len(ch)].server_protocol = v
      /\ \A i \in 1 .. Len(ch) - 1 : ch[i].server_protocol = ch[i + 1].client_protocol
      /\ \A i \in 1 .. Len(ch) : ch[i] \in P
  BY DEF IsChainOf, IsChain
<1>2. PICK m \in Nat : Len(ch) = m + 1
  <2>1. Len(ch) - 1 \in Nat /\ Len(ch) = (Len(ch) - 1) + 1
    BY <1>1
  <2> QED
    BY <2>1
<1>3. PICK p \in P : p = ch[m + 1] /\ p.server_protocol = v
  BY <1>1, <1>2
<1>4. CASE m = 0
  BY <1>1, <1>2, <1>3, <1>4
<1>5. CASE m # 0
  <2> DEFINE pre == [i \in 1 .. m |-> ch[i]]
  <2>1. pre \in Seq(Pool) /\ Len(pre) = m /\ \A i \in 1 .. m : pre[i] = ch[i]
    BY <1>1, <1>2
  <2> HIDE DEF pre
  <2>2. m \in 1 .. m /\ 1 \in 1 .. m /\ pre # <<>>
    BY <1>5, <2>1
  <2>3. pre[1].client_protocol = c /\ pre[m].server_protocol = p.client_protocol
    BY <1>1, <1>2, <1>3, <2>1, <2>2
  <2>4. \A i \in 1 .. m - 1 : pre[i].server_protocol = pre[i + 1].client_protocol
    BY <1>1, <1>2, <2>1
  <2>5. \A i \in 1 .. m : pre[i] \in P
    BY <1>1, <1>2, <2>1
  <2>6. IsChainOf(P, pre, p.client_protocol, c)
    BY <2>1, <2>2, <2>3, <2>4, <2>5 DEF IsChainOf, IsChain
  <2>7. Len(pre) = Len(ch) - 1
    BY <1>2, <2>1
  <2> QED
    BY <1>3, <2>1, <2>6, <2>7
<1> QED
  BY <1>4, <1>5

\* A path that visits no version twice has at most MaxHops protocols.
LEMMA LoopFree ==
    ASSUME NEW c \in Versions, NEW path \in Seq(Pool),
           \A i \in 1 .. Len(path) : path[i].server_protocol # c,
           \A i, j \in 1 .. Len(path) : path[i].server_protocol = path[j].server_protocol => i = j
    PROVE  Len(path) <= MaxHops
<1> DEFINE n == Len(path)
           f == [i \in 0 .. n |-> IF i = 0 THEN c ELSE path[i].server_protocol]
<1>1. n \in Nat /\ \A i \in 1 .. n : path[i].server_protocol \in Versions
  BY PoolAssumption
<1>2. f \in [0 .. n -> Versions]
  BY <1>1
<1>3. \A i, j \in 0 .. n : f[i] = f[j] => i = j
  BY <1>1
<1>4. f \in Injection(0 .. n, Versions)
  BY <1>2, <1>3 DEF Injection, IsInjective
<1> HIDE DEF f
<1>5. Cardinality(0 .. n) <= Cardinality(Versions)
  BY <1>4, VersionsAssumption, FS_Injection
<1>6. Cardinality(0 .. n) = n + 1
  BY <1>1, FS_Interval
<1>7. Cardinality(Versions) \in Nat
  BY VersionsAssumption, FS_CardinalityType
<1> QED
  BY <1>1, <1>5, <1>6, <1>7 DEF MaxHops

\* A chain that is neither undercut nor too long is what get_path promises.
LEMMA ShortestIsPath ==
    ASSUME NEW P \in SUBSET Pool, NEW s, NEW c, s # c, NEW path,
           IsChainOf(P, path, s, c), ~Unreachable(P, s, c), Len(path) <= MaxHops,
           \A ch \in Seq(Pool) : IsChainOf(P, ch, s, c) => Len(path) <= Len(ch)
    PROVE  path \in Paths(P, s, c)
<1> DEFINE n == Len(path)
<1>1. path \in Seq(Pool) /\ n \in Nat \ {0} /\ path \in Chains(P, s, c, n)
  BY ChainsHaveChains
<1>2. ASSUME NEW m \in 1 .. n - 1 PROVE Chains(P, s, c, m) = {}
  <2> SUFFICES ASSUME NEW ch \in Chains(P, s, c, m) PROVE FALSE
    OBVIOUS
  <2>1. ch \in Seq(Pool) /\ IsChainOf(P, ch, s, c) /\ Len(ch) = m
    BY <1>1, ChainsAreChains
  <2> QED
    BY <1>1, <2>1
<1>3. MaxHops \in Int
  BY VersionsAssumption, FS_CardinalityType DEF MaxHops
<1>4. n \in 1 .. MaxHops
  BY <1>1, <1>3
<1> HIDE DEF n
<1>5. path \in ShortestChains(P, s, c)
  BY <1>1, <1>2, <1>4 DEF ShortestChains
<1> QED
  BY <1>5 DEF Paths

-----------------------------------------------------------------------------
(***************************************************************************)
(* The invariant of the search: versions are visited by their distance.    *)
(***************************************************************************)

Closed(V) == \A p \in Registered : p.client_protocol \in V => p.server_protocol \in V

\* A node is there by a shortest path, without a loop, through visited versions.
ShortTo(n) ==
    /\ n.version \in visited
    /\ n.version = goal[2] => n.path = <<>>
    /\ \A ch \in Seq(Pool) : IsChainOf(Registered, ch, n.version, goal[2]) => Len(n.path) <= Len(ch)
    /\ \A i \in 1 .. Len(n.path) :
           n.path[i].server_protocol \in visited /\ n.path[i].server_protocol # goal[2]
    /\ \A i, j \in 1 .. Len(n.path) :
           n.path[i].server_protocol = n.path[j].server_protocol => i = j

\* Every version at most d protocols away is visited.
Near(d) ==
    \A v \in Versions, ch \in Seq(Pool) :
        IsChainOf(Registered, ch, v, goal[2]) /\ Len(ch) <= d => v \in visited

\* The queue: two levels at most, the nearer one first, no version twice.
QueueInOrder ==
    \A i, j \in 1 .. Len(queue) :
        i < j => /\ Len(queue[i].path) <= Len(queue[j].path)
                 /\ Len(queue[j].path) <= Len(queue[1].path) + 1
                 /\ queue[i].version # queue[j].version

\* The node under way belongs before the queue.
NodeBeforeQueue ==
    \A i \in 1 .. Len(queue) :
        /\ Len(node.path) <= Len(queue[i].path)
        /\ Len(queue[i].path) <= Len(node.path) + 1
        /\ queue[i].version # node.version

SearchOrder ==
    /\ pc = "idle" => queue = <<>>
    /\ pc # "idle" =>
        /\ QueueInOrder
        /\ \A i \in 1 .. Len(queue) : ShortTo(queue[i])
        /\ \A V \in SUBSET Versions : Closed(V) /\ goal[2] \in V => visited \subseteq V
    /\ pc = "while" /\ queue # <<>> => Near(Len(queue[1].path))
    /\ pc = "for" => ShortTo(node) /\ Near(Len(node.path)) /\ NodeBeforeQueue

JInv == IInv /\ CacheFresh /\ SearchOrder

\* get_path's promise of a path for (s, c).
Promised(s, c, path) == path \in Paths(Registered, s, c)

-----------------------------------------------------------------------------
(***************************************************************************)
(* What get_path returns.                                                  *)
(***************************************************************************)

\* A protocol for the very pair of versions is a shortest path by itself.
LEMMA DirectIsPromised ==
    ASSUME TypeOK, NEW s \in Versions, NEW c \in Versions, s # c,
           NEW i \in 1 .. Len(protocols), Key(protocols[i]) = <<s, c>>
    PROVE  Promised(s, c, <<protocols[i]>>)
<1> DEFINE p == protocols[i]
           path == <<p>>
<1>1. p \in Registered /\ Registered \in SUBSET Pool
  BY RegisteredInPool DEF Registered
<1>2. p.server_protocol = s /\ p.client_protocol = c
  BY DEF Key
<1>3. path \in Seq(Pool) /\ Len(path) = 1 /\ path[1] = p
  BY <1>1
<1> HIDE DEF path
<1>4. IsChainOf(Registered, path, s, c)
  BY <1>1, <1>2, SingleIsChain DEF path
<1>5. ~Unreachable(Registered, s, c)
  BY <1>1, <1>2 DEF Unreachable
<1>6. Len(path) <= MaxHops
  <2>1. \A k \in 1 .. Len(path) : path[k].server_protocol # c
    BY <1>2, <1>3
  <2>2. \A k, l \in 1 .. Len(path) : path[k].server_protocol = path[l].server_protocol => k = l
    BY <1>3
  <2> QED
    BY <1>3, <2>1, <2>2, LoopFree
<1>7. \A ch \in Seq(Pool) : IsChainOf(Registered, ch, s, c) => Len(path) <= Len(ch)
  BY <1>1, <1>3, ChainsHaveChains
<1>8. path \in Paths(Registered, s, c)
  BY <1>1, <1>4, <1>5, <1>6, <1>7, ShortestIsPath
<1> QED
  BY <1>8 DEF Promised, path

\* With the queue empty, there is no path.
LEMMA NoneIsPromised ==
    ASSUME IInv, pc = "while", queue = <<>>
    PROVE  Promised(goal[1], goal[2], None)
<1>1. goal[2] \in visited /\ goal[1] \notin visited /\ Expanded /\ visited \in SUBSET Versions
  BY DEF IInv, SearchInv, TypeOK
<1>2. Closed(visited)
  <2>1. Len(queue) = 0
    OBVIOUS
  <2> QED
    BY <1>1, <2>1 DEF Expanded, Registered, Closed
<1>3. Unreachable(Registered, goal[1], goal[2])
  BY <1>1, <1>2 DEF Unreachable, Closed
<1> QED
  BY <1>1, <1>3 DEF Promised, Paths

\* Where a protocol leads from the node under way, and the path that goes there.
Target(i) == protocols[i].server_protocol
Extension(i) == Append(node.path, protocols[i])

\* The path to a version that was not visited before, by way of the node under way.
LEMMA ExtendedPath ==
    ASSUME JInv, pc = "for", NEW i \in edges, Target(i) \notin visited
    PROVE  /\ protocols[i] \in Registered /\ Target(i) \in Versions
           /\ protocols[i].client_protocol = node.version
           /\ Extension(i) \in Seq(Pool) /\ Len(Extension(i)) = Len(node.path) + 1
           /\ IsChainOf(Registered, Extension(i), Target(i), goal[2])
           /\ \A ch \in Seq(Pool) :
                  IsChainOf(Registered, ch, Target(i), goal[2]) => Len(Extension(i)) <= Len(ch)
           /\ \A k \in 1 .. Len(Extension(i)) :
                  /\ Extension(i)[k].server_protocol \in visited \cup {Target(i)}
                  /\ Extension(i)[k].server_protocol # goal[2]
           /\ \A k, l \in 1 .. Len(Extension(i)) :
                  Extension(i)[k].server_protocol = Extension(i)[l].server_protocol => k = l
<1> DEFINE p == protocols[i]
           path == Append(node.path, p)
<1>0. p.server_protocol = Target(i) /\ path = Extension(i) /\ p.server_protocol \notin visited
  BY DEF Target, Extension
<1>1. /\ node \in Nodes /\ PathTo(node) /\ i \in 1 .. Len(protocols) /\ protocols \in Seq(Pool)
      /\ goal[2] \in visited /\ p.client_protocol = node.version
  BY DEF JInv, IInv, TypeOK, SearchInv
<1>2. ShortTo(node) /\ Near(Len(node.path))
  BY DEF JInv, SearchOrder
<1>3. p \in Pool /\ p \in Registered /\ Registered \in SUBSET Pool /\ p.server_protocol \in Versions
  BY <1>1, RegisteredInPool, PoolAssumption DEF JInv, IInv, Registered
<1>4. node.path \in Seq(Pool) /\ Len(node.path) \in Nat
  BY <1>1 DEF Nodes
<1>5. /\ path \in Seq(Pool) /\ Len(path) = Len(node.path) + 1 /\ path[Len(node.path) + 1] = p
      /\ \A k \in 1 .. Len(node.path) : path[k] = node.path[k]
  BY <1>3, <1>4
<1>6. IsChainOf(Registered, path, p.server_protocol, goal[2])
  <2>1. CASE node.path = <<>> /\ node.version = goal[2]
    <3>1. path = <<p>>
      BY <2>1
    <3> QED
      BY <1>1, <1>3, <2>1, <3>1, SingleIsChain
  <2>2. CASE IsChainOf(Registered, node.path, node.version, goal[2])
    BY <1>1, <1>3, <2>2, AppendToChain
  <2> QED
    BY <1>1, <2>1, <2>2 DEF PathTo
<1>7. ASSUME NEW ch \in Seq(Pool), IsChainOf(Registered, ch, p.server_protocol, goal[2])
      PROVE  Len(path) <= Len(ch)
  <2>1. ~(Len(ch) <= Len(node.path))
    BY <1>0, <1>2, <1>3, <1>7 DEF Near
  <2>2. Len(ch) \in Nat
    OBVIOUS
  <2> QED
    BY <1>4, <1>5, <2>1, <2>2
<1>8. ASSUME NEW k \in 1 .. Len(path)
      PROVE  /\ path[k].server_protocol \in visited \cup {p.server_protocol}
             /\ path[k].server_protocol # goal[2]
  <2>1. CASE k \in 1 .. Len(node.path)
    BY <1>2, <1>5, <2>1 DEF ShortTo
  <2>2. CASE k = Len(node.path) + 1
    BY <1>0, <1>1, <1>5, <2>2
  <2> QED
    BY <1>4, <1>5, <2>1, <2>2
<1>9. ASSUME NEW k \in 1 .. Len(path), NEW l \in 1 .. Len(path),
             path[k].server_protocol = path[l].server_protocol
      PROVE  k = l
  <2>1. CASE k \in 1 .. Len(node.path) /\ l \in 1 .. Len(node.path)
    BY <1>2, <1>5, <1>9, <2>1 DEF ShortTo
  <2>2. ASSUME NEW m \in 1 .. Len(node.path)
        PROVE  path[m].server_protocol # p.server_protocol
    BY <1>0, <1>2, <1>5 DEF ShortTo
  <2>3. CASE k = Len(node.path) + 1 \/ l = Len(node.path) + 1
    BY <1>4, <1>5, <1>9, <2>2, <2>3
  <2> QED
    BY <1>4, <1>5, <2>1, <2>3
<1> QED
  BY <1>0, <1>1, <1>3, <1>5, <1>6, <1>7, <1>8, <1>9

\* The path that _bfs returns is a shortest one.
LEMMA FoundIsPromised ==
    ASSUME JInv, pc = "for", NEW i \in edges, Target(i) = goal[1]
    PROVE  Promised(goal[1], goal[2], Extension(i))
<1>1. /\ goal[1] \notin visited /\ goal[2] \in visited /\ goal[1] # goal[2] /\ goal[2] \in Versions
      /\ Registered \in SUBSET Pool
  BY RegisteredInPool DEF JInv, IInv, TypeOK, SearchInv
<1>2. Target(i) \notin visited
  BY <1>1
<1>3. /\ protocols[i] \in Registered /\ protocols[i].client_protocol = node.version
      /\ Extension(i) \in Seq(Pool)
      /\ IsChainOf(Registered, Extension(i), goal[1], goal[2])
      /\ \A ch \in Seq(Pool) :
             IsChainOf(Registered, ch, goal[1], goal[2]) => Len(Extension(i)) <= Len(ch)
      /\ \A k \in 1 .. Len(Extension(i)) : Extension(i)[k].server_protocol # goal[2]
      /\ \A k, l \in 1 .. Len(Extension(i)) :
             Extension(i)[k].server_protocol = Extension(i)[l].server_protocol => k = l
  BY <1>2, ExtendedPath, Zenon
<1>4. ~Unreachable(Registered, goal[1], goal[2])
  <2> SUFFICES ASSUME NEW V \in SUBSET Versions, goal[2] \in V, goal[1] \notin V, Closed(V)
               PROVE  FALSE
    BY DEF Unreachable, Closed
  <2>1. node.version \in V
    BY DEF JInv, SearchOrder, ShortTo
  <2> QED
    BY <1>3, <2>1 DEF Closed, Target
<1>5. Len(Extension(i)) <= MaxHops
  BY <1>1, <1>3, LoopFree
<1> QED
  BY <1>1, <1>3, <1>4, <1>5, ShortestIsPath DEF Promised

\* Caching what get_path promises keeps the cache fresh.
LEMMA RememberFresh ==
    ASSUME CacheFresh, NEW s, NEW c, NEW path, Promised(s, c, path),
           Remember(s, c, path), UNCHANGED protocols
    PROVE  CacheFresh'
<1>1. Registered' = Registered
  BY DEF Registered
<1>2. DOMAIN path_cache' = DOMAIN path_cache \cup {<<s, c>>}
  BY DEF Remember
<1>3. ASSUME NEW k \in DOMAIN path_cache'
      PROVE  path_cache'[k] \in Paths(Registered, k[1], k[2])
  <2>1. CASE k = <<s, c>>
    BY <1>2, <2>1 DEF Remember, Promised
  <2>2. CASE k # <<s, c>>
    BY <1>2, <2>2 DEF Remember, CacheFresh
  <2> QED
    BY <2>1, <2>2
<1> QED
  BY <1>1, <1>3 DEF CacheFresh

-----------------------------------------------------------------------------
(***************************************************************************)
(* Every action keeps the order of the search and the cache fresh.         *)
(***************************************************************************)

\* The end of a search, with what get_path promises.
LEMMA EndSearchOrder ==
    ASSUME JInv, NEW path, Promised(goal[1], goal[2], path), EndSearch(path)
    PROVE  CacheFresh' /\ SearchOrder'
<1>1. CacheFresh'
  BY RememberFresh DEF JInv, EndSearch
<1>2. SearchOrder'
  BY DEF EndSearch, SearchOrder
<1> QED
  BY <1>1, <1>2

\* A call of get_path, up to its answer or the start of its search.
LEMMA GetPathOrder ==
    ASSUME JInv, pc = "idle", NEW s \in Versions, NEW c \in Versions, get_path(s, c)
    PROVE  CacheFresh' /\ SearchOrder'
<1>1. UNCHANGED protocols /\ Registered' = Registered /\ CacheFresh /\ queue = <<>>
  BY DEF get_path, Registered, JInv, SearchOrder
<1>2. CASE ReturnSame(s, c) \/ ReturnCached(s, c)
  <2>1. UNCHANGED <<path_cache, pc, queue>>
    BY <1>2 DEF ReturnSame, ReturnCached, search
  <2> QED
    BY <1>1, <2>1 DEF CacheFresh, SearchOrder
<1>3. CASE ReturnDirect(s, c)
  <2>1. PICK i \in 1 .. Len(protocols) :
            Key(protocols[i]) = <<s, c>> /\ Remember(s, c, <<protocols[i]>>)
    BY <1>3 DEF ReturnDirect
  <2>2. Promised(s, c, <<protocols[i]>>)
    BY <1>3, <2>1, DirectIsPromised DEF ReturnDirect, JInv, IInv
  <2>3. CacheFresh'
    BY <1>1, <2>1, <2>2, RememberFresh
  <2>4. UNCHANGED <<pc, queue>>
    BY <1>3 DEF ReturnDirect, search
  <2> QED
    BY <1>1, <2>3, <2>4 DEF SearchOrder
<1>4. CASE StartSearch(s, c)
  <2>1. /\ pc' = "while" /\ goal' = <<s, c>> /\ visited' = {c} /\ path_cache' = path_cache
        /\ queue' = <<[version |-> c, path |-> <<>>]>>
    BY <1>4 DEF StartSearch
  <2>2. Len(queue') = 1 /\ queue'[1].version = c /\ queue'[1].path = <<>>
    BY <2>1
  <2>3. \A ch \in Seq(Pool) : Len(ch) \in Nat
    OBVIOUS
  <2>4. \A i \in 1 .. Len(queue') : ShortTo(queue[i])'
    BY <2>1, <2>2, <2>3 DEF ShortTo
  <2>5. QueueInOrder'
    BY <2>2 DEF QueueInOrder
  <2>6. Near(0)'
    BY <1>1, <2>1, RegisteredInPool, ChainsHaveChains DEF Near, JInv, IInv
  <2> QED
    BY <1>1, <2>1, <2>2, <2>4, <2>5, <2>6 DEF SearchOrder, CacheFresh
<1> QED
  BY <1>2, <1>3, <1>4 DEF get_path

\* queue.popleft(): the node taken is the nearest.
LEMMA PopLeftOrder ==
    ASSUME JInv, PopLeft
    PROVE  CacheFresh' /\ SearchOrder'
<1>1. /\ pc = "while" /\ pc' = "for" /\ queue # <<>>
      /\ node' = Head(queue) /\ queue' = Tail(queue)
      /\ UNCHANGED <<protocols, path_cache, goal, visited, Registered>>
  BY DEF PopLeft, Registered
<1>2. /\ queue \in Seq(Nodes) /\ Len(queue) \in Nat /\ 1 \in 1 .. Len(queue)
      /\ node' = queue[1] /\ Len(queue') = Len(queue) - 1
      /\ \A i \in 1 .. Len(queue') : i + 1 \in 1 .. Len(queue) /\ queue'[i] = queue[i + 1]
  BY <1>1 DEF JInv, IInv, TypeOK
<1>3. /\ QueueInOrder /\ Near(Len(queue[1].path))
      /\ \A i \in 1 .. Len(queue) : ShortTo(queue[i])
      /\ \A V \in SUBSET Versions : Closed(V) /\ goal[2] \in V => visited \subseteq V
  BY <1>1 DEF JInv, SearchOrder
<1>4. CacheFresh'
  BY <1>1 DEF JInv, CacheFresh
<1>5. ShortTo(node)' /\ Near(Len(node.path))'
  BY <1>1, <1>2, <1>3 DEF ShortTo, Near
<1>6. ASSUME NEW i \in 1 .. Len(queue') PROVE ShortTo(queue[i])'
  BY <1>1, <1>2, <1>3 DEF ShortTo
<1>7. NodeBeforeQueue'
  <2> SUFFICES ASSUME NEW i \in 1 .. Len(queue')
               PROVE  /\ Len(node'.path) <= Len(queue'[i].path)
                      /\ Len(queue'[i].path) <= Len(node'.path) + 1
                      /\ queue'[i].version # node'.version
    BY DEF NodeBeforeQueue
  <2>1. 1 < i + 1 /\ i + 1 \in 1 .. Len(queue) /\ queue'[i] = queue[i + 1]
    BY <1>2
  <2> QED
    BY <1>2, <1>3, <2>1 DEF QueueInOrder
<1>8. QueueInOrder'
  <2> SUFFICES ASSUME NEW i \in 1 .. Len(queue'), NEW j \in 1 .. Len(queue'), i < j
               PROVE  /\ Len(queue'[i].path) <= Len(queue'[j].path)
                      /\ Len(queue'[j].path) <= Len(queue'[1].path) + 1
                      /\ queue'[i].version # queue'[j].version
    BY DEF QueueInOrder
  <2>1. /\ i + 1 < j + 1 /\ i + 1 \in 1 .. Len(queue) /\ j + 1 \in 1 .. Len(queue) /\ 1 < 1 + 1
        /\ 1 \in 1 .. Len(queue') /\ 1 + 1 \in 1 .. Len(queue)
        /\ queue'[i] = queue[i + 1] /\ queue'[j] = queue[j + 1] /\ queue'[1] = queue[1 + 1]
    BY <1>2
  <2>2. /\ Len(queue[i + 1].path) <= Len(queue[j + 1].path)
        /\ queue[i + 1].version # queue[j + 1].version
        /\ Len(queue[j + 1].path) <= Len(queue[1].path) + 1
        /\ Len(queue[1].path) <= Len(queue[1 + 1].path)
    BY <1>3, <1>2, <2>1 DEF QueueInOrder
  <2>3. /\ Len(queue[j + 1].path) \in Nat /\ Len(queue[1].path) \in Nat
        /\ Len(queue[1 + 1].path) \in Nat
    <3>1. ASSUME NEW k \in 1 .. Len(queue) PROVE Len(queue[k].path) \in Nat
      <4>1. queue[k] \in Nodes
        BY <1>2
      <4> QED
        BY <4>1 DEF Nodes
    <3> QED
      BY <1>2, <2>1, <3>1
  <2>4. /\ Len(queue'[i].path) <= Len(queue'[j].path)
        /\ queue'[i].version # queue'[j].version
    BY <2>1, <2>2
  <2>5. Len(queue'[j].path) <= Len(queue'[1].path) + 1
    <3>1. /\ Len(queue'[j].path) = Len(queue[j + 1].path)
          /\ Len(queue'[1].path) = Len(queue[1 + 1].path)
      BY <2>1
    <3>2. \A a, b, c \in Nat : a <= b + 1 /\ b <= c => a <= c + 1
      OBVIOUS
    <3>3. Len(queue[j + 1].path) <= Len(queue[1 + 1].path) + 1
      BY <2>2, <2>3, <3>2, Zenon
    <3> QED
      BY <3>1, <3>3, Zenon
  <2> QED
    BY <2>4, <2>5
<1>9. \A V \in SUBSET Versions : Closed(V)' /\ goal'[2] \in V => visited' \subseteq V
  BY <1>1, <1>3 DEF Closed
<1> QED
  BY <1>1, <1>4, <1>5, <1>6, <1>7, <1>8, <1>9 DEF SearchOrder

\* Following a protocol: a version seen for the first time goes to the queue's end.
LEMMA FollowEdgeOrder ==
    ASSUME JInv, NEW i \in edges, FollowEdge(i)
    PROVE  CacheFresh' /\ SearchOrder'
<1>1. /\ pc = "for" /\ node \in Nodes /\ queue \in Seq(Nodes) /\ Len(queue) \in Nat
      /\ i \in 1 .. Len(protocols) /\ protocols[i].client_protocol = node.version
      /\ goal[2] \in visited
  BY DEF FollowEdge, IsNew, JInv, IInv, TypeOK, SearchInv
<1>2. /\ QueueInOrder /\ ShortTo(node) /\ Near(Len(node.path)) /\ NodeBeforeQueue
      /\ \A k \in 1 .. Len(queue) : ShortTo(queue[k])
      /\ \A V \in SUBSET Versions : Closed(V) /\ goal[2] \in V => visited \subseteq V
  BY <1>1 DEF JInv, SearchOrder
<1>3. CASE Target(i) = goal[1] /\ EndSearch(Extension(i))
  BY <1>1, <1>3, FoundIsPromised, EndSearchOrder
<1>4. CASE /\ Target(i) \notin visited
           /\ visited' = visited \cup {Target(i)}
           /\ queue' = Append(queue, [version |-> Target(i), path |-> Extension(i)])
           /\ UNCHANGED <<protocols, path_cache, pc, goal, node>>
  <2> DEFINE m == Len(queue) + 1
             new == [version |-> Target(i), path |-> Extension(i)]
  <2>1. /\ protocols[i] \in Registered /\ Target(i) \in Versions
        /\ Extension(i) \in Seq(Pool) /\ Len(Extension(i)) = Len(node.path) + 1
        /\ \A ch \in Seq(Pool) :
               IsChainOf(Registered, ch, Target(i), goal[2]) => Len(Extension(i)) <= Len(ch)
        /\ \A k \in 1 .. Len(Extension(i)) :
               /\ Extension(i)[k].server_protocol \in visited \cup {Target(i)}
               /\ Extension(i)[k].server_protocol # goal[2]
        /\ \A k, l \in 1 .. Len(Extension(i)) :
               Extension(i)[k].server_protocol = Extension(i)[l].server_protocol => k = l
    BY <1>1, <1>4, ExtendedPath, Zenon
  <2>2. new \in Nodes /\ new.version = Target(i) /\ new.path = Extension(i)
    BY <2>1 DEF Nodes
  <2> HIDE DEF new
  <2>3. Len(queue') = m /\ queue'[m] = new /\ \A k \in 1 .. Len(queue) : queue'[k] = queue[k]
    BY <1>1, <1>4, <2>2 DEF new
  <2>4. Registered' = Registered /\ CacheFresh'
    BY <1>4 DEF Registered, JInv, CacheFresh
  <2>5. ShortTo(node)' /\ Near(Len(node.path))'
    BY <1>2, <1>4, <2>4 DEF ShortTo, Near
  <2>6. ASSUME NEW k \in 1 .. Len(queue') PROVE ShortTo(queue[k])'
    <3>1. CASE k \in 1 .. Len(queue)
      BY <1>2, <1>4, <2>3, <2>4, <3>1 DEF ShortTo
    <3>2. CASE k = m
      <4>1. queue'[k].version = Target(i) /\ queue'[k].path = Extension(i)
        BY <2>2, <2>3, <3>2
      <4>2. Target(i) # goal'[2]
        BY <1>1, <1>4
      <4>3. visited' = visited \cup {Target(i)} /\ Registered' = Registered /\ goal' = goal
        BY <1>4, <2>4
      <4> QED
        BY <2>1, <4>1, <4>2, <4>3, SMTT(30) DEF ShortTo
    <3> QED
      BY <1>1, <2>3, <3>1, <3>2
  <2>7. \A k \in 1 .. Len(queue) :
            /\ Len(node.path) <= Len(queue[k].path)
            /\ Len(queue[k].path) <= Len(node.path) + 1
            /\ queue[k].version # node.version
            /\ queue[k].version # Target(i)
            /\ Len(queue[k].path) \in Nat
    <3>1. ASSUME NEW k \in 1 .. Len(queue)
          PROVE  queue[k].version # Target(i) /\ Len(queue[k].path) \in Nat
      <4>1. queue[k] \in Nodes /\ queue[k].version \in visited
        BY <1>1, <1>2 DEF ShortTo
      <4> QED
        BY <1>4, <4>1 DEF Nodes
    <3> QED
      BY <1>2, <3>1 DEF NodeBeforeQueue
  <2>8. /\ queue'[m].version = Target(i) /\ Len(queue'[m].path) = Len(node.path) + 1
        /\ Len(node.path) \in Nat /\ node.version # Target(i)
    <3>1. node.version \in visited
      BY <1>2 DEF ShortTo
    <3> QED
      BY <1>1, <1>4, <2>1, <2>2, <2>3, <3>1 DEF Nodes
  <2>9. NodeBeforeQueue'
    <3> SUFFICES ASSUME NEW k \in 1 .. Len(queue')
                 PROVE  /\ Len(node.path) <= Len(queue'[k].path)
                        /\ Len(queue'[k].path) <= Len(node.path) + 1
                        /\ queue'[k].version # node.version
      BY <1>4 DEF NodeBeforeQueue
    <3>1. CASE k \in 1 .. Len(queue)
      BY <2>3, <2>7, <3>1
    <3>2. CASE k = m
      BY <2>8, <3>2
    <3> QED
      BY <1>1, <2>3, <3>1, <3>2
  <2>10. QueueInOrder'
    <3> SUFFICES ASSUME NEW k \in 1 .. Len(queue'), NEW l \in 1 .. Len(queue'), k < l
                 PROVE  /\ Len(queue'[k].path) <= Len(queue'[l].path)
                        /\ Len(queue'[l].path) <= Len(queue'[1].path) + 1
                        /\ queue'[k].version # queue'[l].version
      BY DEF QueueInOrder
    <3>1. k \in 1 .. Len(queue) /\ queue'[k] = queue[k] /\ 1 \in 1 .. Len(queue) /\ queue'[1] = queue[1]
      BY <1>1, <2>3
    <3>2. CASE l \in 1 .. Len(queue)
      BY <1>2, <2>3, <3>1, <3>2 DEF QueueInOrder
    <3>3. CASE l = m
      BY <2>7, <2>8, <3>1, <3>3
    <3> QED
      BY <1>1, <2>3, <3>2, <3>3
  <2>11. ASSUME NEW V \in SUBSET Versions, Closed(V)', goal'[2] \in V PROVE visited' \subseteq V
    <3>1. visited \subseteq V /\ Closed(V)
      BY <1>2, <1>4, <2>4, <2>11 DEF Closed
    <3>2. node.version \in V
      BY <1>2, <3>1 DEF ShortTo
    <3>3. Target(i) \in V
      BY <1>1, <2>1, <3>1, <3>2 DEF Closed, Target
    <3> QED
      BY <1>4, <3>1, <3>3
  <2> QED
    BY <1>1, <1>4, <2>4, <2>5, <2>6, <2>9, <2>10, <2>11 DEF SearchOrder
<1>5. CASE UNCHANGED <<protocols, path_cache, pc, goal, visited, queue, node>>
  <2>1. Registered' = Registered
    BY <1>5 DEF Registered
  <2>2. CacheFresh'
    BY <1>5, <2>1 DEF JInv, CacheFresh
  <2>3. /\ ShortTo(node)' /\ Near(Len(node.path))' /\ NodeBeforeQueue' /\ QueueInOrder'
        /\ \A k \in 1 .. Len(queue') : ShortTo(queue[k])'
    BY <1>2, <1>5, <2>1 DEF ShortTo, Near, NodeBeforeQueue, QueueInOrder
  <2>4. \A V \in SUBSET Versions : Closed(V)' /\ goal'[2] \in V => visited' \subseteq V
    BY <1>2, <1>5, <2>1 DEF Closed
  <2> QED
    BY <1>1, <1>5, <2>2, <2>3, <2>4 DEF SearchOrder
<1> QED
  BY <1>3, <1>4, <1>5 DEF FollowEdge, IsNew, Target, Extension

\* The inner loop's end: every version one protocol further away has been visited.
LEMMA EdgesDoneOrder ==
    ASSUME JInv, EdgesDone
    PROVE  CacheFresh' /\ SearchOrder'
<1>1. /\ pc = "for" /\ pc' = "while" /\ edges = {} /\ node \in Nodes /\ queue \in Seq(Nodes)
      /\ Registered \in SUBSET Pool /\ Expanded /\ goal[2] \in visited
      /\ UNCHANGED <<protocols, path_cache, goal, visited, queue, Registered>>
  BY RegisteredInPool DEF EdgesDone, Registered, JInv, IInv, TypeOK, SearchInv
<1>2. /\ QueueInOrder /\ Near(Len(node.path)) /\ NodeBeforeQueue
      /\ \A k \in 1 .. Len(queue) : ShortTo(queue[k])
      /\ \A V \in SUBSET Versions : Closed(V) /\ goal[2] \in V => visited \subseteq V
  BY <1>1 DEF JInv, SearchOrder
<1>3. CacheFresh'
  BY <1>1 DEF JInv, CacheFresh
<1>4. ASSUME NEW v \in Versions, NEW ch \in Seq(Pool), IsChainOf(Registered, ch, v, goal[2]),
             queue # <<>>, Len(ch) <= Len(queue[1].path)
      PROVE  v \in visited
  <2> SUFFICES ASSUME v \notin visited PROVE FALSE
    OBVIOUS
  <2>1. /\ Len(node.path) \in Nat /\ Len(ch) \in Nat /\ Len(queue[1].path) \in Nat
        /\ 1 \in 1 .. Len(queue) /\ Len(queue[1].path) <= Len(node.path) + 1
    <3>1. 1 \in 1 .. Len(queue) /\ queue[1] \in Nodes
      BY <1>1, <1>4
    <3> QED
      BY <1>1, <1>2, <3>1 DEF Nodes, NodeBeforeQueue
  <2>2. Len(ch) = Len(node.path) + 1 /\ Len(queue[1].path) = Len(node.path) + 1
    <3>1. ~(Len(ch) <= Len(node.path))
      BY <1>2, <1>4 DEF Near
    <3> QED
      BY <1>4, <2>1, <3>1
  <2>3. PICK p \in Registered :
            /\ p.server_protocol = v
            /\ \/ Len(ch) = 1 /\ p.client_protocol = goal[2]
               \/ \E pre \in Seq(Pool) :
                    /\ IsChainOf(Registered, pre, p.client_protocol, goal[2])
                    /\ Len(pre) = Len(ch) - 1
    BY <1>1, <1>4, ChainWithoutLast, SMT
  <2>4. PICK j \in 1 .. Len(protocols) : p = protocols[j]
    BY DEF Registered
  <2>5. p.client_protocol \in visited
    <3>1. CASE p.client_protocol = goal[2]
      BY <1>1, <3>1
    <3>2. ASSUME NEW pre \in Seq(Pool), IsChainOf(Registered, pre, p.client_protocol, goal[2]),
                 Len(pre) = Len(ch) - 1
          PROVE  p.client_protocol \in visited
      <4>1. Len(pre) <= Len(node.path) /\ p.client_protocol \in Versions
        BY <1>1, <2>1, <2>2, <3>2, PoolAssumption
      <4> QED
        BY <1>2, <3>2, <4>1 DEF Near
    <3> QED
      BY <2>3, <3>1, <3>2
  <2>6. PICK k \in 1 .. Len(queue) : queue[k].version = p.client_protocol
    BY <1>1, <2>3, <2>4, <2>5 DEF Expanded
  <2>7. Len(queue[k].path) >= Len(node.path) + 1 /\ Len(queue[k].path) \in Nat
    <3>1. queue[k] \in Nodes /\ Len(queue) \in Nat
      BY <1>1
    <3>2. Len(queue[k].path) \in Nat
      BY <3>1 DEF Nodes
    <3>3. k = 1 \/ 1 < k
      BY <3>1
    <3> QED
      BY <1>2, <2>1, <2>2, <3>2, <3>3 DEF QueueInOrder
  <2>8. CASE p.client_protocol = goal[2]
    <3>1. queue[k].path = <<>>
      BY <1>2, <2>6, <2>8 DEF ShortTo
    <3> QED
      BY <2>1, <2>7, <3>1
  <2>9. ASSUME NEW pre \in Seq(Pool), IsChainOf(Registered, pre, p.client_protocol, goal[2]),
               Len(pre) = Len(ch) - 1
        PROVE  FALSE
    <3>1. Len(queue[k].path) <= Len(pre)
      BY <1>2, <2>6, <2>9 DEF ShortTo
    <3> QED
      BY <2>1, <2>2, <2>7, <2>9, <3>1
  <2> QED
    BY <2>3, <2>8, <2>9
<1>5. queue # <<>> => Near(Len(queue[1].path))
  BY <1>4 DEF Near
<1>6. queue' # <<>> => Near(Len(queue[1].path))'
  BY <1>1, <1>5 DEF Near
<1>7. /\ QueueInOrder' /\ \A k \in 1 .. Len(queue') : ShortTo(queue[k])'
      /\ \A V \in SUBSET Versions : Closed(V)' /\ goal'[2] \in V => visited' \subseteq V
  <2>1. QueueInOrder'
    BY <1>1, <1>2 DEF QueueInOrder
  <2>2. \A k \in 1 .. Len(queue') : ShortTo(queue[k])'
    BY <1>1, <1>2 DEF ShortTo
  <2>3. \A V \in SUBSET Versions : Closed(V)' /\ goal'[2] \in V => visited' \subseteq V
    BY <1>1, <1>2 DEF Closed
  <2> QED
    BY <2>1, <2>2, <2>3
<1> QED
  BY <1>1, <1>3, <1>6, <1>7 DEF SearchOrder

\* Registering a protocol leaves no answer in the cache, and no search is under way.
LEMMA RegisterOrder ==
    ASSUME JInv, NEW p \in Pool, register(p)
    PROVE  CacheFresh' /\ SearchOrder'
BY DEF register, Idle, search, JInv, CacheFresh, SearchOrder

\* An iteration of get_supported_versions asks get_path.
LEMMA SurveyNextOrder ==
    ASSUME JInv, SurveyNext
    PROVE  CacheFresh' /\ SearchOrder'
<1>1. PICK i \in survey.todo : get_path(survey.server, protocols[i].client_protocol)
  BY DEF SurveyNext
<1>2. survey \in Surveys /\ protocols \in Seq(Pool) /\ pc = "idle"
  BY DEF SurveyNext, JInv, IInv, TypeOK
<1>3. i \in 1 .. Len(protocols) /\ survey.server \in Versions
  BY <1>2 DEF Surveys
<1>4. protocols[i].client_protocol \in Versions
  BY <1>2, <1>3, PoolAssumption
<1> QED
  BY <1>1, <1>2, <1>3, <1>4, GetPathOrder

\* The remaining steps touch neither the cache nor a search.
LEMMA OtherOrder ==
    ASSUME JInv, UNCHANGED <<protocols, path_cache, search>>
    PROVE  CacheFresh' /\ SearchOrder'
<1>1. /\ UNCHANGED <<protocols, path_cache, pc, goal, visited, queue, node, edges>>
      /\ Registered' = Registered
  BY DEF search, Registered
<1>2. CacheFresh'
  BY <1>1 DEF JInv, CacheFresh
<1>3. SearchOrder'
  BY <1>1 DEF JInv, SearchOrder, QueueInOrder, ShortTo, Closed, Near, NodeBeforeQueue
<1> QED
  BY <1>2, <1>3

-----------------------------------------------------------------------------
(***************************************************************************)
(* The theorems.                                                           *)
(***************************************************************************)

\* The invariant is inductive.
LEMMA OrderInductive == JInv /\ [Next]_vars => JInv'
<1> SUFFICES ASSUME JInv, [Next]_vars PROVE CacheFresh' /\ SearchOrder'
  BY Inductive DEF JInv
<1>1. CASE \E p \in Pool : register(p)
  BY <1>1, RegisterOrder
<1>2. CASE \E s \in Servers, c \in Versions : Idle /\ get_path(s, c)
  BY <1>2, GetPathOrder, ServersAssumption DEF Idle
<1>3. CASE \E s \in Servers : get_supported_versions(s)
  BY <1>3, OtherOrder DEF get_supported_versions
<1>4. CASE PopLeft
  BY <1>4, PopLeftOrder
<1>5. CASE QueueEmpty
  <2>1. Promised(goal[1], goal[2], None)
    BY <1>5, NoneIsPromised DEF QueueEmpty, JInv
  <2> QED
    BY <1>5, <2>1, EndSearchOrder DEF QueueEmpty
<1>6. CASE \E i \in edges : FollowEdge(i)
  BY <1>6, FollowEdgeOrder
<1>7. CASE EdgesDone
  BY <1>7, EdgesDoneOrder
<1>8. CASE SurveyNext
  BY <1>8, SurveyNextOrder
<1>9. CASE SurveyDone
  BY <1>9, OtherOrder DEF SurveyDone
<1>10. CASE UNCHANGED vars
  BY <1>10, OtherOrder DEF vars
<1> QED
  BY <1>1, <1>2, <1>3, <1>4, <1>5, <1>6, <1>7, <1>8, <1>9, <1>10 DEF Next, Search, Survey

\* It holds initially.
LEMMA OrderInitial == Init => JInv
<1>1. Init => CacheFresh /\ SearchOrder
  BY DEF Init, CacheFresh, SearchOrder
<1> QED
  BY <1>1, Initial DEF JInv

\* The invariant holds in every state of the manager.
LEMMA OrderInvariant == Spec => []JInv
BY OrderInitial, OrderInductive, PTL DEF Spec

(***************************************************************************)
(* A cached path is a shortest chain of the protocols registered now, and  *)
(* a cached None is right: whatever is registered, replaced and asked for, *)
(* _path_cache answers as a fresh search would.                            *)
(***************************************************************************)
THEOREM CacheIsFresh == Spec => []CacheFresh
<1>1. JInv => CacheFresh
  BY DEF JInv
<1> QED
  BY <1>1, OrderInvariant, PTL

(***************************************************************************)
(* _bfs visits versions by their distance from the client version: its     *)
(* frontier is ordered, spans two levels at most, and holds no version     *)
(* twice, for every pool of protocols.                                     *)
(***************************************************************************)
THEOREM VisitsInOrder == Spec => []BreadthFirst
<1>1. JInv => BreadthFirst
  <2> SUFFICES ASSUME JInv PROVE BreadthFirst
    OBVIOUS
  <2>0. queue \in Seq(Nodes) /\ Len(queue) \in Nat /\ pc \in {"idle", "while", "for"}
    BY DEF JInv, IInv, TypeOK
  <2>1. CASE pc = "idle"
    <3>1. queue = <<>> /\ <<>> \o queue = <<>>
      BY <2>1 DEF JInv, SearchOrder
    <3> QED
      BY <2>1, <3>1 DEF BreadthFirst
  <2>2. CASE pc = "while"
    <3>1. <<>> \o queue = queue /\ QueueInOrder
      BY <2>0, <2>2 DEF JInv, SearchOrder
    <3> QED
      BY <2>2, <3>1 DEF BreadthFirst, QueueInOrder
  <2>3. CASE pc = "for"
    <3> DEFINE frontier == <<node>> \o queue
    <3>1. QueueInOrder /\ NodeBeforeQueue /\ node \in Nodes
      BY <2>3 DEF JInv, IInv, TypeOK, SearchOrder
    <3>2. /\ Len(frontier) = Len(queue) + 1 /\ frontier[1] = node
          /\ \A i \in 1 .. Len(queue) : frontier[i + 1] = queue[i]
      BY <2>0, <3>1
    <3> HIDE DEF frontier
    <3>3. ASSUME NEW i \in 1 .. Len(frontier), NEW j \in 1 .. Len(frontier), i < j
          PROVE  /\ Len(frontier[i].path) <= Len(frontier[j].path)
                 /\ Len(frontier[j].path) <= Len(frontier[1].path) + 1
                 /\ frontier[i].version # frontier[j].version
      <4>1. PICK l \in 1 .. Len(queue) : j = l + 1 /\ frontier[j] = queue[l]
        <5>1. j - 1 \in 1 .. Len(queue) /\ j = (j - 1) + 1
          BY <2>0, <3>2, <3>3
        <5> QED
          BY <3>2, <5>1
      <4>2. CASE i = 1
        BY <3>1, <3>2, <4>1, <4>2 DEF NodeBeforeQueue
      <4>3. CASE i # 1
        <5>1. i - 1 \in 1 .. Len(queue) /\ i = (i - 1) + 1 /\ i - 1 < l
          BY <2>0, <3>2, <3>3, <4>1, <4>3
        <5>2. frontier[i] = queue[i - 1]
          BY <3>2, <5>1
        <5>3. /\ Len(queue[i - 1].path) <= Len(queue[l].path)
              /\ queue[i - 1].version # queue[l].version
          BY <3>1, <5>1 DEF QueueInOrder
        <5>4. Len(queue[l].path) <= Len(node.path) + 1
          BY <3>1 DEF NodeBeforeQueue
        <5> QED
          BY <3>2, <4>1, <5>2, <5>3, <5>4
      <4> QED
        BY <4>2, <4>3
    <3> QED
      BY <2>3, <3>3 DEF BreadthFirst, frontier
  <2> QED
    BY <2>0, <2>1, <2>2, <2>3
<1> QED
  BY <1>1, OrderInvariant, PTL
=============================================================================
