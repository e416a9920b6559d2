---------------------- MODULE ChainResolution_proofs ------------------------
(***************************************************************************)
(* For every set of versions and every pool of protocols: the manager,     *)
(* with its cache, its search and its loop over the clients, implements    *)
(* ChainResolution, which has none of them; and ChainResolution always has *)
(* an answer to give.                                                      *)
(***************************************************************************)
EXTENDS ProtocolManager_proofs, WellFoundedInduction

\* _protocols is a dictionary: no key occurs twice.
KeysUnique ==
    \A i, j \in 1 .. Len(protocols) : Key(protocols[i]) = Key(protocols[j]) => i = j

\* What get_supported_versions has established so far, for the keys it has passed.
Passed == {i \in (1 .. Len(protocols)) \ survey.todo :
              Paths(Registered, survey.server, protocols[i].client_protocol) # {None}}

SurveyInv ==
    survey # None =>
        /\ survey.supported = {survey.server} \cup {protocols[i].client_protocol : i \in Passed}
        /\ pc # "idle" =>
               \E i \in survey.todo :
                   /\ IsNext(i, survey.todo)
                   /\ goal = <<survey.server, protocols[i].client_protocol>>

RInv == JInv /\ KeysUnique /\ SurveyInv

-----------------------------------------------------------------------------
(***************************************************************************)
(* Lemmas.                                                                 *)
(***************************************************************************)

\* None is promised only when nothing else is.
LEMMA NoneAlone ==
    ASSUME TypeOK, NEW s, NEW c, NEW path, Promised(s, c, path)
    PROVE  path = None <=> Paths(Registered, s, c) = {None}
<1>1. Registered \in SUBSET Pool /\ path \in Paths(Registered, s, c)
  BY RegisteredInPool DEF Promised
<1>2. CASE s = c
  <2>1. Paths(Registered, s, c) = {<<>>} /\ <<>> \in Seq(Pool)
    BY <1>2 DEF Paths
  <2> QED
    BY <1>1, <2>1, NoneAssumption
<1>3. CASE s # c /\ Unreachable(Registered, s, c)
  BY <1>1, <1>3 DEF Paths
<1>4. CASE s # c /\ ~Unreachable(Registered, s, c)
  <2>1. path \in ShortestChains(Registered, s, c)
    BY <1>1, <1>4 DEF Paths
  <2>2. MaxHops \in Int
    BY VersionsAssumption, FS_CardinalityType DEF MaxHops
  <2>3. PICK n \in 1 .. MaxHops : path \in Chains(Registered, s, c, n)
    BY <2>1 DEF ShortestChains
  <2>4. path \in Seq(Pool)
    BY <1>1, <2>2, <2>3, ChainsAreChains
  <2> QED
    BY <1>1, <2>4, NoneAssumption
<1> QED
  BY <1>2, <1>3, <1>4

\* get_path either starts a search or returns what it promises.
LEMMA GetPathAnswers ==
    ASSUME JInv, NEW s \in Versions, NEW c \in Versions, get_path(s, c)
    PROVE  \/ UNCHANGED <<survey, answer>> /\ goal' = <<s, c>>
           \/ \E path : Promised(s, c, path) /\ Return(s, c, path) /\ UNCHANGED search
<1>1. CASE ReturnSame(s, c)
  BY <1>1 DEF ReturnSame, Promised, Paths
<1>2. CASE ReturnCached(s, c)
  <2>1. Promised(s, c, path_cache[<<s, c>>])
    BY <1>2 DEF ReturnCached, Promised, JInv, CacheFresh
  <2> QED
    BY <1>2, <2>1 DEF ReturnCached
<1>3. CASE ReturnDirect(s, c)
  <2>1. PICK i \in 1 .. Len(protocols) :
            Key(protocols[i]) = <<s, c>> /\ Return(s, c, <<protocols[i]>>)
    BY <1>3 DEF ReturnDirect
  <2>2. Promised(s, c, <<protocols[i]>>)
    BY <1>3, <2>1, DirectIsPromised DEF ReturnDirect, JInv, IInv
  <2> QED
    BY <1>3, <2>1, <2>2 DEF ReturnDirect
<1>4. CASE StartSearch(s, c)
  BY <1>4 DEF StartSearch
<1> QED
  BY <1>1, <1>2, <1>3, <1>4 DEF get_path

\* A step of _bfs either goes on searching or returns what get_path promises.
LEMMA SearchAnswers ==
    ASSUME JInv, Search
    PROVE  /\ pc # "idle"
           /\ \/ UNCHANGED <<goal, survey, answer>>
              \/ /\ pc' = "idle"
                 /\ \E path : /\ Promised(goal[1], goal[2], path)
                              /\ Return(goal[1], goal[2], path)
<1>1. CASE PopLeft \/ EdgesDone
  BY <1>1 DEF PopLeft, EdgesDone
<1>2. CASE QueueEmpty
  <2>1. Promised(goal[1], goal[2], None)
    BY <1>2, NoneIsPromised DEF QueueEmpty, JInv
  <2> QED
    BY <1>2, <2>1 DEF QueueEmpty, EndSearch
<1>3. ASSUME NEW i \in edges, FollowEdge(i)
      PROVE  /\ pc # "idle"
             /\ \/ UNCHANGED <<goal, survey, answer>>
                \/ /\ pc' = "idle"
                   /\ \E path : /\ Promised(goal[1], goal[2], path)
                                /\ Return(goal[1], goal[2], path)
  <2>1. pc = "for"
    BY <1>3 DEF FollowEdge
  <2>2. CASE Target(i) = goal[1] /\ EndSearch(Extension(i))
    <3>1. Promised(goal[1], goal[2], Extension(i))
      BY <2>1, <2>2, FoundIsPromised
    <3> QED
      BY <2>1, <2>2, <3>1 DEF EndSearch
  <2>3. CASE UNCHANGED <<goal, survey, answer>>
    BY <2>1, <2>3
  <2> QED
    BY <1>3, <2>2, <2>3 DEF FollowEdge, Target, Extension
<1> QED
  BY <1>1, <1>2, <1>3 DEF Search

\* The survey takes the promised answer for its next client as its own.
LEMMA SurveyCollects ==
    ASSUME RInv, survey # None, NEW i \in survey.todo, IsNext(i, survey.todo),
           NEW path, Promised(survey.server, protocols[i].client_protocol, path),
           Return(survey.server, protocols[i].client_protocol, path),
           UNCHANGED protocols, pc' = "idle"
    PROVE  SurveyInv' /\ answer' = answer
<1> DEFINE c == protocols[i].client_protocol
<1>1. survey \in Surveys /\ Registered' = Registered
  BY DEF RInv, JInv, IInv, TypeOK, Registered
<1>2. ReturnToSurvey(c, path)
  BY DEF Return, ReturnToCaller
<1>3. PICK j \in survey.todo :
          /\ IsNext(j, survey.todo)
          /\ survey' = [server |-> survey.server, todo |-> survey.todo \ {j},
                        supported |-> survey.supported \cup Supported(c, path)]
  BY <1>2 DEF ReturnToSurvey
<1>4. i = j /\ i \in 1 .. Len(protocols)
  <2>1. i <= j /\ j <= i /\ survey.todo \in SUBSET (1 .. Len(protocols))
    BY <1>1, <1>3 DEF IsNext, Surveys
  <2> QED
    BY <2>1
<1>5. /\ survey'.server = survey.server /\ survey'.todo = survey.todo \ {i}
      /\ survey'.supported = survey.supported \cup Supported(c, path)
  BY <1>3, <1>4
<1>6. path = None <=> Paths(Registered, survey.server, c) = {None}
  BY NoneAlone DEF RInv, JInv, IInv
<1>7. CASE path = None
  <2>1. Passed' = Passed
    BY <1>1, <1>4, <1>5, <1>6, <1>7 DEF Passed
  <2> QED
    BY <1>2, <1>5, <1>7, <2>1 DEF RInv, SurveyInv, Supported, ReturnToSurvey
<1>8. CASE path # None
  <2>1. Passed' = Passed \cup {i}
    BY <1>1, <1>4, <1>5, <1>6, <1>8 DEF Passed
  <2> QED
    BY <1>2, <1>5, <1>8, <2>1 DEF RInv, SurveyInv, Supported, ReturnToSurvey
<1> QED
  BY <1>2, <1>7, <1>8 DEF ReturnToSurvey

-----------------------------------------------------------------------------
(***************************************************************************)
(* The keys of the dictionary and the survey, action by action.            *)
(***************************************************************************)

\* Only register changes the dictionary, and it looks the key up first.
LEMMA RegisterUnique ==
    ASSUME RInv, NEW p \in Pool, register(p)
    PROVE  /\ KeysUnique'
           /\ Registered' = {q \in Registered : Key(q) # Key(p)} \cup {p}
<1>1. protocols \in Seq(Pool) /\ Len(protocols) \in Nat /\ KeysUnique
  BY DEF RInv, JInv, IInv, TypeOK
<1>2. ASSUME NEW i \in 1 .. Len(protocols), Key(protocols[i]) = Key(p),
             protocols' = [protocols EXCEPT ![i] = p]
      PROVE  /\ KeysUnique'
             /\ Registered' = {q \in Registered : Key(q) # Key(p)} \cup {p}
  <2>1. /\ Len(protocols') = Len(protocols) /\ protocols'[i] = p
        /\ \A j \in 1 .. Len(protocols) : j # i => protocols'[j] = protocols[j]
    BY <1>1, <1>2
  <2>2. \A j \in 1 .. Len(protocols) : j # i => Key(protocols[j]) # Key(p)
    BY <1>1, <1>2 DEF KeysUnique
  <2>3. KeysUnique'
    BY <1>1, <2>1, <2>2 DEF KeysUnique, Key
  <2>4. Registered' = {q \in Registered : Key(q) # Key(p)} \cup {p}
    BY <1>2, <2>1, <2>2 DEF Registered
  <2> QED
    BY <2>3, <2>4
<1>3. CASE /\ \A i \in 1 .. Len(protocols) : Key(protocols[i]) # Key(p)
           /\ protocols' = Append(protocols, p)
  <2>1. /\ Len(protocols') = Len(protocols) + 1 /\ protocols'[Len(protocols) + 1] = p
        /\ \A j \in 1 .. Len(protocols) : protocols'[j] = protocols[j]
    BY <1>1, <1>3
  <2>2. KeysUnique'
    <3> SUFFICES ASSUME NEW j \in 1 .. Len(protocols'), NEW k \in 1 .. Len(protocols'),
                        Key(protocols'[j]) = Key(protocols'[k])
                 PROVE  j = k
      BY DEF KeysUnique, Key
    <3>1. CASE j \in 1 .. Len(protocols) /\ k \in 1 .. Len(protocols)
      BY <1>1, <2>1, <3>1 DEF KeysUnique
    <3>2. CASE j = Len(protocols) + 1 \/ k = Len(protocols) + 1
      BY <1>1, <1>3, <2>1, <3>2
    <3> QED
      BY <1>1, <2>1, <3>1, <3>2
  <2>3. Registered' = Registered \cup {p}
    BY <1>1, <2>1 DEF Registered
  <2>4. \A q \in Registered : Key(q) # Key(p)
    BY <1>3 DEF Registered
  <2> QED
    BY <2>2, <2>3, <2>4
<1> QED
  BY <1>2, <1>3 DEF register, Insert

\* A step that leaves the dictionary, and a survey and its search, as they are.
LEMMA SurveyUntouched ==
    ASSUME RInv, UNCHANGED <<protocols, survey, goal>>, pc' # "idle" => pc # "idle"
    PROVE  SurveyInv'
<1>1. Registered' = Registered /\ Passed' = Passed
  BY DEF Registered, Passed
<1> QED
  BY <1>1 DEF RInv, SurveyInv

\* ChainResolution speaks of the same keys and promises the same paths.
LEMMA SameVocabulary ==
    /\ \A p : Abstract!Key(p) = Key(p)
    /\ \A P, s, c : Abstract!Paths(P, s, c) = Paths(P, s, c)
<1>1. ASSUME NEW p PROVE Abstract!Key(p) = Key(p)
  BY DEF Abstract!Key, Key
<1>2. ASSUME NEW P, NEW s, NEW c, NEW n PROVE Abstract!Chains(P, s, c, n) = Chains(P, s, c, n)
  BY DEF Abstract!Chains, Chains, Abstract!IsChain, IsChain
<1>3. ASSUME NEW P, NEW s, NEW c PROVE Abstract!Paths(P, s, c) = Paths(P, s, c)
  <2>0. Abstract!MaxHops = MaxHops
    BY DEF Abstract!MaxHops, MaxHops, Abstract!Cardinality, Cardinality
  <2>1. Abstract!ShortestChains(P, s, c) = ShortestChains(P, s, c)
    BY <1>2, <2>0 DEF Abstract!ShortestChains, ShortestChains
  <2>2. Abstract!Unreachable(P, s, c) <=> Unreachable(P, s, c)
    BY DEF Abstract!Unreachable, Unreachable
  <2> QED
    BY <2>1, <2>2 DEF Abstract!Paths, Paths
<1> QED
  BY <1>1, <1>3

\* The refinement, and what it rests on, for every step.
StepRefines == KeysUnique' /\ SurveyInv' /\ [Abstract!Next]_(Abstract!vars)

\* An answer to a caller is an answer of ChainResolution.
LEMMA AnswerRefines ==
    ASSUME RInv, survey = None, NEW s \in Versions, NEW c \in Versions, NEW path,
           Promised(s, c, path), Return(s, c, path), UNCHANGED protocols
    PROVE  SurveyInv' /\ Abstract!Next
<1>1. answer' = [server |-> s, client |-> c, path |-> path] /\ survey' = None
  BY DEF Return, ReturnToCaller, ReturnToSurvey
<1>2. Registered' = Registered
  BY DEF Registered
<1>3. Abstract!GetPath(s, c)
  BY <1>1, <1>2, SameVocabulary DEF Abstract!GetPath, Promised
<1> QED
  BY <1>1, <1>3 DEF SurveyInv, Abstract!Next

\* register is Register.
LEMMA RegisterRefines ==
    ASSUME RInv, NEW p \in Pool, register(p)
    PROVE  StepRefines
<1>1. survey' = None /\ answer' = answer
  BY DEF register, Idle
<1>2. Abstract!Register(p)
  BY <1>1, RegisterUnique, SameVocabulary DEF Abstract!Register
<1> QED
  BY <1>1, <1>2, RegisterUnique DEF StepRefines, SurveyInv, Abstract!Next

\* A caller's get_path is GetPath, or a stutter at the start of a search.
LEMMA GetPathRefines ==
    ASSUME RInv, Idle, NEW s \in Versions, NEW c \in Versions, get_path(s, c)
    PROVE  StepRefines
<1>1. UNCHANGED protocols /\ Registered' = Registered /\ survey = None
  BY DEF get_path, Idle, Registered
<1>2. KeysUnique'
  BY <1>1 DEF RInv, KeysUnique
<1>3. CASE UNCHANGED <<survey, answer>>
  BY <1>1, <1>2, <1>3 DEF StepRefines, SurveyInv, Abstract!vars
<1>4. CASE \E path : Promised(s, c, path) /\ Return(s, c, path) /\ UNCHANGED search
  BY <1>1, <1>2, <1>4, AnswerRefines DEF StepRefines
<1> QED
  BY <1>3, <1>4, GetPathAnswers DEF RInv

\* A step of the search is GetPath when it ends a caller's search, a stutter otherwise.
LEMMA SearchRefines ==
    ASSUME RInv, Search
    PROVE  StepRefines
<1>1. UNCHANGED protocols
  BY DEF Search, PopLeft, QueueEmpty, FollowEdge, EdgesDone, EndSearch
<1>2. Registered' = Registered /\ KeysUnique'
  BY <1>1 DEF Registered, RInv, KeysUnique
<1>3. pc # "idle" /\ goal[1] \in Versions /\ goal[2] \in Versions
  BY SearchAnswers DEF RInv, JInv, IInv, TypeOK
<1>4. CASE UNCHANGED <<goal, survey, answer>>
  BY <1>1, <1>2, <1>3, <1>4, SurveyUntouched DEF StepRefines, Abstract!vars
<1>5. ASSUME NEW path, Promised(goal[1], goal[2], path), Return(goal[1], goal[2], path), pc' = "idle"
      PROVE  StepRefines
  <2>1. CASE survey = None
    BY <1>1, <1>2, <1>3, <1>5, <2>1, AnswerRefines DEF StepRefines
  <2>2. CASE survey # None
    <3>1. PICK i \in survey.todo :
              IsNext(i, survey.todo) /\ goal = <<survey.server, protocols[i].client_protocol>>
      BY <1>3, <2>2 DEF RInv, SurveyInv
    <3>2. goal[1] = survey.server /\ goal[2] = protocols[i].client_protocol
      BY <3>1
    <3>3. /\ Promised(survey.server, protocols[i].client_protocol, path)
          /\ Return(survey.server, protocols[i].client_protocol, path)
      BY <1>5, <3>2
    <3>4. SurveyInv' /\ answer' = answer
      BY <1>1, <1>5, <2>2, <3>1, <3>3, SurveyCollects
    <3> QED
      BY <1>2, <3>4 DEF StepRefines, Abstract!vars
  <2> QED
    BY <2>1, <2>2
<1> QED
  BY <1>4, <1>5, SearchAnswers DEF RInv

\* A survey's start is a stutter.
LEMMA SurveyStartRefines ==
    ASSUME RInv, NEW s \in Servers, get_supported_versions(s)
    PROVE  StepRefines
<1>1. /\ UNCHANGED <<protocols, answer>> /\ pc' = "idle" /\ Registered' = Registered
      /\ survey' = [server |-> s, todo |-> 1 .. Len(protocols), supported |-> {s}]
  BY DEF get_supported_versions, Idle, search, Registered
<1>2. Passed' = {}
  BY <1>1 DEF Passed
<1>3. SurveyInv'
  BY <1>1, <1>2 DEF SurveyInv
<1>4. KeysUnique'
  BY <1>1 DEF RInv, KeysUnique
<1> QED
  BY <1>1, <1>3, <1>4 DEF StepRefines, Abstract!vars

\* So is each of its iterations.
LEMMA SurveyNextRefines ==
    ASSUME RInv, SurveyNext
    PROVE  StepRefines
<1>1. /\ pc = "idle" /\ survey # None /\ survey \in Surveys /\ protocols \in Seq(Pool)
      /\ UNCHANGED protocols
  BY DEF SurveyNext, get_path, RInv, JInv, IInv, TypeOK
<1>2. Registered' = Registered /\ KeysUnique'
  BY <1>1 DEF Registered, RInv, KeysUnique
<1>3. PICK i \in survey.todo :
          IsNext(i, survey.todo) /\ get_path(survey.server, protocols[i].client_protocol)
  BY DEF SurveyNext
<1>4. survey.server \in Versions /\ protocols[i].client_protocol \in Versions
  <2>1. i \in 1 .. Len(protocols) /\ survey.server \in Versions
    BY <1>1 DEF Surveys
  <2> QED
    BY <1>1, <2>1, PoolAssumption
<1>5. CASE /\ UNCHANGED <<survey, answer>>
           /\ goal' = <<survey.server, protocols[i].client_protocol>>
  <2>1. Passed' = Passed
    BY <1>1, <1>2, <1>5 DEF Passed
  <2>2. SurveyInv'
    BY <1>1, <1>2, <1>3, <1>5, <2>1 DEF RInv, SurveyInv
  <2> QED
    BY <1>2, <1>5, <2>2 DEF StepRefines, Abstract!vars
<1>6. ASSUME NEW path, Promised(survey.server, protocols[i].client_protocol, path),
             Return(survey.server, protocols[i].client_protocol, path), UNCHANGED search
      PROVE  StepRefines
  <2>1. pc' = "idle"
    BY <1>1, <1>6 DEF search
  <2>2. SurveyInv' /\ answer' = answer
    BY <1>1, <1>3, <1>6, <2>1, SurveyCollects
  <2> QED
    BY <1>2, <2>2 DEF StepRefines, Abstract!vars
<1> QED
  BY <1>3, <1>4, <1>5, <1>6, GetPathAnswers DEF RInv

\* The end of a survey is GetSupportedVersions.
LEMMA SurveyDoneRefines ==
    ASSUME RInv, SurveyDone
    PROVE  StepRefines
<1>1. /\ survey # None /\ survey.todo = {} /\ survey' = None /\ UNCHANGED protocols
      /\ answer' = [server |-> survey.server, supported |-> survey.supported]
  BY DEF SurveyDone
<1>2. Registered' = Registered /\ KeysUnique'
  BY <1>1 DEF Registered, RInv, KeysUnique
<1>3. survey.server \in Versions
  BY <1>1 DEF RInv, JInv, IInv, TypeOK, Surveys
<1>4. survey.supported = {survey.server} \cup
          {c \in {Key(p)[2] : p \in Registered} :
               Paths(Registered, survey.server, c) # {None}}
  <2>1. Passed = {i \in 1 .. Len(protocols) :
                      Paths(Registered, survey.server, protocols[i].client_protocol) # {None}}
    BY <1>1 DEF Passed
  <2>2. survey.supported = {survey.server} \cup {protocols[i].client_protocol : i \in Passed}
    BY <1>1 DEF RInv, SurveyInv
  <2>3. {protocols[i].client_protocol : i \in Passed} =
            {c \in {Key(p)[2] : p \in Registered} :
                 Paths(Registered, survey.server, c) # {None}}
    BY <2>1 DEF Registered, Key
  <2> QED
    BY <2>2, <2>3
<1>5. Abstract!GetSupportedVersions(survey.server)
  BY <1>1, <1>2, <1>4, SameVocabulary DEF Abstract!GetSupportedVersions
<1> QED
  BY <1>1, <1>2, <1>3, <1>5 DEF StepRefines, SurveyInv, Abstract!Next

-----------------------------------------------------------------------------
(***************************************************************************)
(* The theorem.                                                            *)
(***************************************************************************)

\* Every step refines, and keeps the invariant.
LEMMA EveryStepRefines == RInv /\ [Next]_vars => StepRefines
<1> SUFFICES ASSUME RInv, [Next]_vars PROVE StepRefines
  OBVIOUS
<1>1. CASE \E p \in Pool : register(p)
  BY <1>1, RegisterRefines
<1>2. CASE \E s \in Servers, c \in Versions : Idle /\ get_path(s, c)
  BY <1>2, GetPathRefines, ServersAssumption
<1>3. CASE \E s \in Servers : get_supported_versions(s)
  BY <1>3, SurveyStartRefines
<1>4. CASE Search
  BY <1>4, SearchRefines
<1>5. CASE Survey
  BY <1>5, SurveyNextRefines, SurveyDoneRefines DEF Survey
<1>6. CASE UNCHANGED vars
  <2>1. UNCHANGED <<protocols, survey, goal, pc, answer, Registered>>
    BY <1>6 DEF vars, search, Registered
  <2>2. SurveyInv' /\ KeysUnique'
    BY <2>1, SurveyUntouched DEF RInv, KeysUnique
  <2> QED
    BY <2>1, <2>2 DEF StepRefines, Abstract!vars
<1> QED
  BY <1>1, <1>2, <1>3, <1>4, <1>5, <1>6 DEF Next

(***************************************************************************)
(* ProtocolManager implements ChainResolution: every answer it gives a     *)
(* caller, from its cache, by the direct lookup, by its search or by its   *)
(* loop over the clients, is one that the protocols registered at that     *)
(* moment justify, and register replaces exactly the protocol of its key.  *)
(***************************************************************************)
THEOREM ManagerResolvesChains == Spec => ResolvesChains
<1>1. Init => RInv /\ Abstract!Init
  <2>1. ASSUME Init PROVE RInv /\ Abstract!Init
    <3>1. Len(protocols) = 0 /\ survey = None /\ answer = None
      BY <2>1 DEF Init
    <3>2. KeysUnique /\ SurveyInv /\ Registered = {}
      BY <3>1 DEF KeysUnique, SurveyInv, Registered
    <3> QED
      BY <2>1, <3>1, <3>2, OrderInitial DEF RInv, Abstract!Init
  <2> QED
    BY <2>1
<1>2. RInv /\ [Next]_vars => RInv'
  BY EveryStepRefines, OrderInductive DEF RInv, StepRefines
<1>3. RInv /\ [Next]_vars => [Abstract!Next]_(Abstract!vars)
  BY EveryStepRefines DEF StepRefines
<1> QED
  BY <1>1, <1>2, <1>3, PTL DEF Spec, ResolvesChains, Abstract!Spec

-----------------------------------------------------------------------------
(***************************************************************************)
(* The contract of get_path by itself: Paths.                              *)
(***************************************************************************)

\* A set of natural numbers has a least element.
LEMMA LeastNumber ==
    ASSUME NEW T \in SUBSET Nat, T # {}
    PROVE  \E n \in T : \A m \in T : n <= m
<1>1. PICK n \in T : \A m \in T : ~(<<m, n>> \in OpToRel(<, Nat))
  BY WFMin, NatLessThanWellFounded, Zenon
<1>2. ASSUME NEW m \in T, m < n PROVE FALSE
  <2>1. <<m, n>> \in Nat \X Nat /\ <<m, n>>[1] < <<m, n>>[2]
    BY <1>2
  <2>2. <<m, n>> \in OpToRel(<, Nat)
    BY <2>1, Zenon DEF OpToRel
  <2> QED
    BY <1>1, <2>2, Zenon
<1> QED
  BY <1>2

\* A set of versions that is closed under the protocols of P holds all that a chain leads to.
LEMMA ChainStaysInside ==
    ASSUME NEW P \in SUBSET Pool, NEW s, NEW c, NEW ch, IsChainOf(P, ch, s, c),
           NEW V, c \in V, \A p \in P : p.client_protocol \in V => p.server_protocol \in V
    PROVE  s \in V
<1> SUFFICES ASSUME s \notin V PROVE FALSE
  OBVIOUS
<1> DEFINE Outside == {i \in 1 .. Len(ch) : ch[i].server_protocol \notin V}
<1>1. /\ ch \in Seq(Pool) /\ Len(ch) \in Nat \ {0}
      /\ ch[1].client_protocol = c /\ ch[Len(ch)].server_protocol = s
      /\ \A i \in 1 .. Len(ch) - 1 : ch[i].server_protocol = ch[i + 1].client_protocol
      /\ \A i \in 1 .. Len(ch) : ch[i] \in P
  BY DEF IsChainOf, IsChain
<1>2. Len(ch) \in Outside /\ Outside \in SUBSET Nat
  BY <1>1
<1>3. PICK i \in Outside : \A j \in Outside : i <= j
  BY <1>2, LeastNumber
<1>4. ch[i].client_protocol \in V
  <2>1. CASE i = 1
    BY <1>1, <2>1
  <2>2. CASE i # 1
    <3>1. i - 1 \in 1 .. Len(ch) - 1 /\ (i - 1) + 1 = i
      BY <1>1, <2>2
    <3>2. i - 1 \in 1 .. Len(ch) /\ i - 1 \notin Outside
      BY <1>1, <1>3, <3>1
    <3>3. ch[i - 1].server_protocol \in V
      BY <3>2
    <3> QED
      BY <1>1, <3>1, <3>3
  <2> QED
    BY <2>1, <2>2
<1> QED
  BY <1>1, <1>4

\* Unreachable means that there is no chain.
LEMMA UnreachableIsChainless ==
    ASSUME NEW P \in SUBSET Pool, NEW s, NEW c \in Versions, s # c
    PROVE  Unreachable(P, s, c) <=> ~\E ch : IsChainOf(P, ch, s, c)
<1>1. ASSUME Unreachable(P, s, c), NEW ch, IsChainOf(P, ch, s, c) PROVE FALSE
  BY <1>1, ChainStaysInside DEF Unreachable
<1>2. ASSUME \A ch : ~IsChainOf(P, ch, s, c) PROVE Unreachable(P, s, c)
  <2> DEFINE V == {c} \cup {v \in Versions : \E ch : IsChainOf(P, ch, v, c)}
  <2>1. V \in SUBSET Versions /\ c \in V /\ s \notin V
    BY <1>2
  <2>2. ASSUME NEW p \in P, p.client_protocol \in V PROVE p.server_protocol \in V
    <3>1. p.server_protocol \in Versions
      BY PoolAssumption
    <3>2. CASE p.client_protocol = c
      BY <3>1, <3>2, SingleIsChain
    <3>3. CASE \E ch : IsChainOf(P, ch, p.client_protocol, c)
      BY <3>1, <3>3, AppendToChain
    <3> QED
      BY <2>2, <3>2, <3>3
  <2> HIDE DEF V
  <2> QED
    BY <2>1, <2>2 DEF Unreachable
<1> QED
  BY <1>1, <1>2

\* A chain that passes a version twice, or comes back to where it starts, can be cut short.
LEMMA LoopsAreCut ==
    ASSUME NEW P \in SUBSET Pool, NEW s, NEW c, NEW ch, IsChainOf(P, ch, s, c),
           NEW i \in 0 .. Len(ch), NEW j \in 1 .. Len(ch), i < j, i # 0 \/ j # Len(ch),
           ch[j].server_protocol = IF i = 0 THEN c ELSE ch[i].server_protocol
    PROVE  \E new \in Seq(Pool) : IsChainOf(P, new, s, c) /\ Len(new) < Len(ch)
<1>1. /\ ch \in Seq(Pool) /\ Len(ch) \in Nat \ {0}
      /\ ch[1].client_protocol = c /\ ch[Len(ch)].server_protocol = s
      /\ \A k \in 1 .. Len(ch) - 1 : ch[k].server_protocol = ch[k + 1].client_protocol
      /\ \A k \in 1 .. Len(ch) : ch[k] \in P
  BY DEF IsChainOf, IsChain
<1> DEFINE n == Len(ch) - (j - i)
           From(k) == IF k <= i THEN k ELSE k + (j - i)
           new == [k \in 1 .. n |-> ch[From(k)]]
<1>2. n \in Nat \ {0} /\ n < Len(ch)
  BY <1>1
<1>3. \A k \in 1 .. n : From(k) \in 1 .. Len(ch)
  BY <1>1
<1>4. new \in Seq(Pool) /\ Len(new) = n /\ \A k \in 1 .. n : new[k] = ch[From(k)]
  BY <1>1, <1>2, <1>3
<1> HIDE DEF new
<1>5. new[1].client_protocol = c
  <2>1. CASE i = 0
    <3>1. From(1) = j + 1 /\ j \in 1 .. Len(ch) - 1
      BY <1>1, <1>2, <2>1
    <3> QED
      BY <1>1, <1>2, <1>4, <2>1, <3>1
  <2>2. CASE i # 0
    BY <1>1, <1>2, <1>4, <2>2
  <2> QED
    BY <2>1, <2>2
<1>6. new[n].server_protocol = s
  <2>1. CASE n = i
    <3>1. j = Len(ch) /\ From(n) = i /\ i # 0 /\ n \in 1 .. n
      BY <1>1, <1>2, <2>1
    <3>2. new[n] = ch[i]
      BY <1>4, <3>1
    <3> QED
      BY <1>1, <3>1, <3>2
  <2>2. CASE n # i
    <3> DEFINE L == Len(ch)
    <3>0. L \in Nat /\ i \in Nat /\ j \in Nat /\ n = L - (j - i) /\ j <= L
      BY <1>1
    <3> HIDE DEF n, L
    <3>1. n > i /\ n + (j - i) = L /\ n \in 1 .. n
      BY <1>2, <2>2, <3>0
    <3>3. From(n) = L
      BY <3>0, <3>1
    <3> USE DEF L
    <3>2. new[n] = ch[Len(ch)]
      BY <1>4, <3>1, <3>3
    <3> QED
      BY <1>1, <3>2
  <2> QED
    BY <2>1, <2>2
<1>7. ASSUME NEW k \in 1 .. n - 1 PROVE new[k].server_protocol = new[k + 1].client_protocol
  <2>0. k \in 1 .. n /\ k + 1 \in 1 .. n
    BY <1>2
  <2>1. CASE k = i
    <3>1. From(k) = i /\ From(k + 1) = j + 1 /\ i # 0 /\ j \in 1 .. Len(ch) - 1
      BY <1>1, <1>2, <2>1
    <3>2. new[k] = ch[i] /\ new[k + 1] = ch[j + 1]
      BY <1>4, <2>0, <3>1
    <3> QED
      BY <1>1, <3>1, <3>2
  <2>2. CASE k # i
    <3>1. From(k + 1) = From(k) + 1 /\ From(k) \in 1 .. Len(ch) - 1
      BY <1>1, <1>2, <2>2
    <3> QED
      BY <1>1, <1>4, <2>0, <3>1
  <2> QED
    BY <2>1, <2>2
<1>8. \A k \in 1 .. n : new[k] \in P
  BY <1>1, <1>3, <1>4
<1> HIDE DEF n, From
<1>9. IsChainOf(P, new, s, c)
  <2>1. new # <<>>
    BY <1>2, <1>4
  <2> QED
    BY <1>4, <1>5, <1>6, <1>7, <1>8, <2>1 DEF IsChainOf, IsChain
<1> QED
  BY <1>2, <1>4, <1>9

\* Where there is a chain there is a shortest one, and it has no loop.
LEMMA ShortestExists ==
    ASSUME NEW P \in SUBSET Pool, NEW s, NEW c \in Versions, s # c, ~Unreachable(P, s, c)
    PROVE  \E path \in Seq(Pool) : path \in Paths(P, s, c)
<1> DEFINE Lengths == {n \in Nat : \E ch \in Seq(Pool) : IsChainOf(P, ch, s, c) /\ Len(ch) = n}
<1>1. Lengths # {}
  <2>1. PICK ch : IsChainOf(P, ch, s, c)
    BY UnreachableIsChainless
  <2>2. ch \in Seq(Pool) /\ Len(ch) \in Nat
    BY <2>1, ChainsHaveChains
  <2> QED
    BY <2>1, <2>2
<1>2. PICK n \in Lengths : \A m \in Lengths : n <= m
  BY <1>1, LeastNumber
<1>3. PICK path \in Seq(Pool) : IsChainOf(P, path, s, c) /\ Len(path) = n
  BY <1>2
<1>4. \A ch \in Seq(Pool) : IsChainOf(P, ch, s, c) => Len(path) <= Len(ch)
  <2> TAKE ch \in Seq(Pool)
  <2> HAVE IsChainOf(P, ch, s, c)
  <2>1. Len(ch) \in Lengths
    OBVIOUS
  <2> QED
    BY <1>2, <1>3, <2>1
<1>5. \A ch \in Seq(Pool) : IsChainOf(P, ch, s, c) => ~(Len(ch) < Len(path))
  BY <1>4
<1>6. Len(path) \in Nat \ {0} /\ path[Len(path)].server_protocol = s
  BY <1>3 DEF IsChainOf, IsChain
<1>7. ASSUME NEW i \in 1 .. Len(path), path[i].server_protocol = c PROVE FALSE
  <2>1. 0 \in 0 .. Len(path) /\ 0 < i /\ i # Len(path)
    BY <1>6, <1>7
  <2>2. path[i].server_protocol = IF 0 = 0 THEN c ELSE path[0].server_protocol
    BY <1>7
  <2> QED
    BY <1>3, <1>5, <2>1, <2>2, LoopsAreCut
<1>8. ASSUME NEW i \in 1 .. Len(path), NEW j \in 1 .. Len(path), i < j,
             path[i].server_protocol = path[j].server_protocol
      PROVE  FALSE
  <2>1. i \in 0 .. Len(path) /\ i # 0
    BY <1>6
  <2>2. path[j].server_protocol = IF i = 0 THEN c ELSE path[i].server_protocol
    BY <1>8, <2>1
  <2> QED
    BY <1>3, <1>5, <1>8, <2>1, <2>2, LoopsAreCut
<1>9. \A i, j \in 1 .. Len(path) : path[i].server_protocol = path[j].server_protocol => i = j
  <2> TAKE i, j \in 1 .. Len(path)
  <2> HAVE path[i].server_protocol = path[j].server_protocol
  <2>1. ~(i < j) /\ ~(j < i)
    BY <1>8
  <2> QED
    BY <1>6, <2>1
<1> HIDE DEF Lengths
<1>10. Len(path) <= MaxHops
  BY <1>7, <1>9, LoopFree
<1> QED
  BY <1>3, <1>4, <1>10, ShortestIsPath

(***************************************************************************)
(* The contract of get_path can always be met, never ambiguously: for any  *)
(* protocols and any two versions it allows an answer; the answer is None  *)
(* if and only if no chain exists, and a list of protocols otherwise,      *)
(* empty only for equal versions.  Pipeline assumes no more of get_path.   *)
(***************************************************************************)
THEOREM ContractIsMet ==
    ASSUME NEW P \in SUBSET Pool, NEW s \in Versions, NEW c \in Versions
    PROVE  /\ Paths(P, s, c) # {}
           /\ Paths(P, s, c) \subseteq Seq(Pool) \cup {None}
           /\ Paths(P, s, s) = {<<>>}
           /\ None \in Paths(P, s, c) <=> s # c /\ ~\E ch : IsChainOf(P, ch, s, c)
           /\ <<>> \in Paths(P, s, c) <=> s = c
<1>1. Paths(P, s, s) = {<<>>} /\ <<>> \in Seq(Pool)
  BY DEF Paths
<1>2. CASE s = c
  BY <1>1, <1>2, NoneAssumption
<1>3. CASE s # c /\ Unreachable(P, s, c)
  <2>1. Paths(P, s, c) = {None}
    BY <1>3 DEF Paths
  <2>2. ~\E ch : IsChainOf(P, ch, s, c)
    BY <1>3, UnreachableIsChainless
  <2> QED
    BY <1>1, <1>3, <2>1, <2>2, NoneAssumption
<1>4. CASE s # c /\ ~Unreachable(P, s, c)
  <2>1. Paths(P, s, c) # {}
    BY <1>4, ShortestExists
  <2>2. ASSUME NEW path \in Paths(P, s, c) PROVE path \in Seq(Pool) /\ path # <<>>
    <3>1. path \in ShortestChains(P, s, c)
      BY <1>4, <2>2 DEF Paths
    <3>2. PICK n \in 1 .. MaxHops : path \in Chains(P, s, c, n)
      BY <3>1 DEF ShortestChains
    <3>3. n \in Nat
      BY VersionsAssumption, FS_CardinalityType DEF MaxHops
    <3>4. path \in Seq(Pool) /\ IsChainOf(P, path, s, c)
      BY <3>2, <3>3, ChainsAreChains
    <3> QED
      BY <3>4 DEF IsChainOf, IsChain
  <2>3. \E ch : IsChainOf(P, ch, s, c)
    BY <1>4, UnreachableIsChainless
  <2> QED
    BY <1>1, <1>4, <2>1, <2>2, <2>3, NoneAssumption
<1> QED
  BY <1>2, <1>3, <1>4
=============================================================================
