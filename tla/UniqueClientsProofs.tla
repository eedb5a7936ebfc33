------------------------ MODULE UniqueClientsProofs ------------------------
(***************************************************************************)
(* Proofs of the safety properties of UniqueClients for every number of    *)
(* streams, roles, pods and label sets.                                    *)
(***************************************************************************)
EXTENDS UniqueClients, FiniteSetTheorems, SequenceTheorems, TLAPS

-----------------------------------------------------------------------------
(* The inductive invariant *)

\* Where the goroutine of a stream is, against what the maps hold for the stream.
StreamInv ==
  \A s \in Streams :
    /\ pc[s] \in {"new", "closeNotify", "done"} => clients[s] = Nil
    /\ pc[s] \in {"add", "notify"} => node[s] # Nil
    /\ pc[s] = "add" => IsKubeGatewayCacheKey(GetRole(node[s]))
    /\ pc[s] = "notify" => clients[s] # Nil /\ node[s].role = clients[s]
    /\ clients[s] = Nil /\ node[s] # Nil => node[s].role \in Roles \cup {Nil}
    /\ ~collection => clients[s] = Nil /\ pc[s] \notin {"add", "notify", "closeNotify"}
    /\ watch[s] # Nil => pc[s] \in {"recv", "add", "notify"}
    /\ watch[s] # Nil /\ IsKubeGatewayCacheKey(watch[s]) => clients[s] = watch[s]

\* The counters and the map of clients, against the map of streams.
CountInv ==
  \A n \in Names :
    /\ uniqClientCount[n] = Cardinality(Holders(n))
    /\ uniqClients[n] # Nil <=> uniqClientCount[n] # 0
    /\ uniqClients[n] # Nil => uniqClients[n].ResourceName = n

Stale(view) == view # uniqClients /\ queue = 0 /\ ~TriggerPending

\* What the krt collection has read or published may be out of date only while
\* another recomputation is on its way.
KrtInv ==
  /\ ~collection => krtPc = "off"
  /\ krtPc \in {"read", "publish", "idle"} => dependant
  /\ krtPc = "publish" => ~Stale(snapshot)
  /\ krtPc = "idle" => ~Stale(published)

IInv == TypeOK /\ StreamInv /\ CountInv /\ KrtInv

-----------------------------------------------------------------------------
(* Types *)

\* A client built from a raw role and what is known of a pod is one of Clients.
LEMMA NewClientType ==
  ASSUME NEW r \in Roles, NEW p \in PodInfos
  PROVE  LET ucc == NewUniqlyConnectedClient(r, p.Namespace, p.AugmentedLabels, p.Locality)
         IN ucc \in Clients /\ ucc.ResourceName \in Names
BY DEF Clients, Names

\* What add looks up is what it needs to know of a pod.
LEMMA FoundType ==
  ASSUME TypeOK, NEW s \in Streams, UsePods => found[s] # Nil
  PROVE  (IF UsePods THEN found[s] ELSE NoPod) \in PodInfos
BY UsePodsAssumption DEF TypeOK, PodInfos

\* The role of a stream that add registers is one that the proxy sent.
LEMMA AddRole ==
  ASSUME TypeOK, StreamInv, NEW s \in Streams, pc[s] = "add", clients[s] = Nil
  PROVE  GetRole(node[s]) \in Roles
<1>1. node[s] # Nil /\ node[s].role \in Roles \cup {Nil}
  BY DEF StreamInv
<1>2. GetRole(node[s]) # <<>>
  BY DEF StreamInv, IsKubeGatewayCacheKey
<1> QED
  BY <1>1, <1>2 DEF GetRole

\* The actions of a stream keep the types and StreamInv.
LEMMA StreamTypes ==
  ASSUME TypeOK, StreamInv, NEW s \in Streams,
         \/ OpenStream(s)
         \/ Disconnect(s)
         \/ \E r \in Requests : OnStreamRequest(s, r)
         \/ NotifyNew(s)
         \/ OnStreamClosed(s)
         \/ NotifyGone(s)
  PROVE  TypeOK' /\ StreamInv'
<1> USE DEF vars, streamVars, stateVars, krtVars
<1>1. CASE OpenStream(s)
  <2>1. TypeOK'
    BY <1>1 DEF OpenStream, TypeOK
  <2>2. StreamInv'
    BY <1>1 DEF OpenStream, TypeOK, StreamInv
  <2> QED
    BY <2>1, <2>2
<1>2. CASE Disconnect(s)
  <2>1. TypeOK'
    BY <1>2 DEF Disconnect, TypeOK
  <2>2. StreamInv'
    BY <1>2 DEF Disconnect, TypeOK, StreamInv
  <2> QED
    BY <2>1, <2>2
<1>3. ASSUME NEW r \in Requests, OnStreamRequest(s, r)
      PROVE  TypeOK' /\ StreamInv'
  <2> DEFINE n == IF r = Nil THEN node[s] ELSE r
  <2>1. n \in NodeState \cup {Nil}
    BY DEF Requests, Nodes, NodeState, TypeOK
  <2>2. r # Nil => r.role \in Roles \cup {Nil}
    BY DEF Requests, Nodes
  <2>3. ID(n) \in Roles \cup Names \cup {FallbackNodeCacheKey}
    BY <2>1 DEF ID, NodeState
  <2>4. IsKubeGatewayCacheKey(GetRole(n)) => n # Nil /\ n.role # Nil
    BY DEF IsKubeGatewayCacheKey, GetRole
  <2>5. ~IsKubeGatewayCacheKey(GetRole(n)) => ~IsKubeGatewayCacheKey(ID(n))
    <3>1. CASE n = Nil \/ n.role = Nil
      BY <3>1, KeysAssumption DEF ID, FallbackNodeCacheKey, IsKubeGatewayCacheKey
    <3>2. CASE n # Nil /\ n.role # Nil
      BY <3>2 DEF ID, GetRole
    <3> QED
      BY <3>1, <3>2
  <2>6. GetKey(getRef(n.id)) \in LocalityPod \cup {Nil}
    BY DEF GetKey, TypeOK
  <2>7. TypeOK'
    BY <1>3, <2>1, <2>3, <2>6 DEF OnStreamRequest, TypeOK
  <2>8. node'[s] = n
    BY <1>3 DEF OnStreamRequest, TypeOK
  <2>9. clients[s] = Nil /\ n # Nil => n.role \in Roles \cup {Nil}
    BY <2>2 DEF StreamInv
  <2>10. StreamInv'
    <3>1. ASSUME NEW t \in Streams, t # s
          PROVE  /\ pc'[t] = pc[t] /\ node'[t] = node[t]
                 /\ clients'[t] = clients[t] /\ watch'[t] = watch[t]
      BY <1>3, <3>1 DEF OnStreamRequest, TypeOK
    <3>2. clients' = clients /\ collection' = collection
      BY <1>3 DEF OnStreamRequest
    <3>3. \/ pc'[s] = "recv" /\ watch'[s] = ID(n) /\ ~IsKubeGatewayCacheKey(GetRole(n))
          \/ pc'[s] = "close" /\ watch'[s] = Nil
          \/ pc'[s] = "add" /\ watch'[s] = watch[s] /\ IsKubeGatewayCacheKey(GetRole(n))
             /\ collection
      BY <1>3 DEF OnStreamRequest, TypeOK
    <3>4. GetRole(node[s])' = GetRole(n)
      BY <2>8 DEF GetRole
    <3> QED
      BY <3>1, <3>2, <3>3, <3>4, <2>4, <2>5, <2>8, <2>9 DEF StreamInv, GetRole
  <2> QED
    BY <2>7, <2>10
<1>4. CASE NotifyNew(s)
  <2>1. ID(node[s]) = clients[s] /\ clients[s] \in Names
    BY <1>4, NilAssumption DEF NotifyNew, StreamInv, TypeOK, ID
  <2>2. TypeOK'
    BY <1>4, <2>1 DEF NotifyNew, TriggerRecomputation, TypeOK
  <2>3. StreamInv'
    BY <1>4, <2>1 DEF NotifyNew, TypeOK, StreamInv
  <2> QED
    BY <2>2, <2>3
<1>5. CASE OnStreamClosed(s)
  <2>1. TypeOK'
    <3>1. CASE ~collection \/ clients[s] = Nil
      BY <1>5, <3>1 DEF OnStreamClosed, TypeOK
    <3>2. CASE cleanup(s) /\ clients[s] # Nil
      <4>1. clients[s] \in Names /\ uniqClientCount[clients[s]] \in 0..MaxUint64
        BY <3>2 DEF TypeOK
      <4>2. Dec(uniqClientCount[clients[s]]) \in 0..MaxUint64 /\ 0 \in 0..MaxUint64
        BY <4>1, StreamsAssumption DEF Dec
      <4> QED
        BY <1>5, <3>2, <4>1, <4>2 DEF OnStreamClosed, cleanup, TypeOK
    <3> QED
      BY <1>5, <3>1, <3>2 DEF OnStreamClosed
  <2>2. clients'[s] = Nil /\ pc'[s] \in {"done", "closeNotify"}
        /\ (~collection => pc'[s] = "done")
    BY <1>5 DEF OnStreamClosed, cleanup, TypeOK, StreamInv
  <2>3. ASSUME NEW t \in Streams, t # s
        PROVE  /\ pc'[t] = pc[t] /\ node'[t] = node[t]
               /\ clients'[t] = clients[t] /\ watch'[t] = watch[t]
    BY <1>5, <2>3 DEF OnStreamClosed, cleanup, TypeOK
  <2>4. node'[s] = Nil /\ watch'[s] = Nil /\ collection' = collection
    BY <1>5 DEF OnStreamClosed, TypeOK, StreamInv
  <2>5. StreamInv'
    BY <2>2, <2>3, <2>4 DEF StreamInv, GetRole
  <2> QED
    BY <2>1, <2>5
<1>6. CASE NotifyGone(s)
  <2>1. TypeOK'
    BY <1>6 DEF NotifyGone, TriggerRecomputation, TypeOK
  <2>2. StreamInv'
    BY <1>6 DEF NotifyGone, TypeOK, StreamInv
  <2> QED
    BY <2>1, <2>2
<1> QED
  BY <1>1, <1>2, <1>3, <1>4, <1>5, <1>6

\* What the disjunct of add that registers a stream does to the maps.
Registers(s, ucc) ==
  LET name == ucc.ResourceName
      addedNew == uniqClientCount[name] = 0
  IN /\ clients[s] = Nil
     /\ ucc \in Clients
     /\ name \in Names
     /\ clients' = [clients EXCEPT ![s] = name]
     /\ uniqClients' = IF addedNew THEN [uniqClients EXCEPT ![name] = ucc] ELSE uniqClients
     /\ uniqClientCount' = [uniqClientCount EXCEPT ![name] = Inc(@)]
     /\ Augment(s, name, addedNew)

\* The client that add builds for the stream.
NewClient(s) ==
  LET pod == IF UsePods THEN found[s] ELSE NoPod
  IN NewUniqlyConnectedClient(GetRole(node[s]), pod.Namespace, pod.AugmentedLabels, pod.Locality)

\* add finds the stream registered, gives up for want of a pod, or registers it.
LEMMA AddCases ==
  ASSUME TypeOK, StreamInv, NEW s \in Streams, add(s)
  PROVE  /\ pc[s] = "add"
         /\ \/ clients[s] # Nil /\ Augment(s, clients[s], FALSE) /\ UNCHANGED stateVars
            \/ /\ clients[s] = Nil
               /\ pc' = [pc EXCEPT ![s] = "close"]
               /\ watch' = [watch EXCEPT ![s] = Nil]
               /\ UNCHANGED <<node, found, stateVars>>
            \/ Registers(s, NewClient(s)) /\ (UsePods => found[s] # Nil)
         /\ UNCHANGED <<collection, pods, krtVars, up>>
<1>1. ASSUME clients[s] = Nil, UsePods => found[s] # Nil
      PROVE  NewClient(s) \in Clients /\ NewClient(s).ResourceName \in Names
  <2>1. pc[s] = "add"
    BY DEF add
  <2> QED
    BY <1>1, <2>1, AddRole, FoundType, NewClientType DEF NewClient
<1> QED
  BY <1>1 DEF add, Registers, NewClient

\* add keeps the types and StreamInv.
LEMMA AddTypes ==
  ASSUME TypeOK, StreamInv, NEW s \in Streams, add(s)
  PROVE  TypeOK' /\ StreamInv'
<1> USE DEF stateVars, krtVars
<1>1. ASSUME NEW name \in Names, NEW b \in BOOLEAN, Augment(s, name, b), pc[s] = "add",
             clients[s] \in {Nil, name}, clients'[s] = name, UNCHANGED collection,
             \A t \in Streams : t # s => clients'[t] = clients[t]
      PROVE  /\ pc' \in [Streams -> {"new", "recv", "add", "notify", "close", "closeNotify", "done"}]
             /\ node' \in [Streams -> NodeState \cup {Nil}]
             /\ found' \in [Streams -> LocalityPod \cup {Nil}]
             /\ watch' \in [Streams -> Roles \cup Names \cup {FallbackNodeCacheKey, Nil}]
             /\ StreamInv'
  <2>1. node[s] \in NodeState
    BY <1>1 DEF StreamInv, TypeOK
  <2>2. node' \in [Streams -> NodeState \cup {Nil}] /\ node'[s].role = name /\ node'[s] # Nil
    <3>1. node' = [node EXCEPT ![s] = [node[s] EXCEPT !.role = name]]
      BY <1>1, <2>1 DEF Augment, TypeOK
    <3>2. [node[s] EXCEPT !.role = name] \in NodeState
      BY <2>1 DEF NodeState
    <3>3. [node[s] EXCEPT !.role = name].role = name
      BY <2>1 DEF NodeState
    <3> QED
      BY <3>1, <3>2, <3>3, NilAssumption DEF TypeOK
  <2>3. \A t \in Streams : t # s =>
          node'[t] = node[t] /\ pc'[t] = pc[t] /\ watch'[t] = watch[t]
    BY <1>1 DEF Augment, TypeOK
  <2>4. pc'[s] \in {"recv", "notify"} /\ watch'[s] \in {watch[s], name}
    BY <1>1 DEF Augment, TypeOK
  <2>5. watch[s] = Nil \/ ~IsKubeGatewayCacheKey(watch[s]) \/ watch[s] = clients[s]
    BY DEF StreamInv
  <2>6. name # Nil /\ collection
    BY <1>1, NilAssumption DEF StreamInv
  <2>7. clients[s] # Nil => clients[s] = name
    BY <1>1
  <2>8. StreamInv'
    BY <1>1, <2>2, <2>3, <2>4, <2>5, <2>6, <2>7 DEF StreamInv, GetRole
  <2> QED
    BY <1>1, <2>2, <2>8 DEF Augment, TypeOK
<1>2. CASE clients[s] # Nil /\ Augment(s, clients[s], FALSE) /\ UNCHANGED stateVars
  BY <1>1, <1>2, AddCases DEF TypeOK
<1>3. CASE /\ clients[s] = Nil
           /\ pc' = [pc EXCEPT ![s] = "close"]
           /\ watch' = [watch EXCEPT ![s] = Nil]
           /\ UNCHANGED <<node, found, stateVars>>
  <2>1. TypeOK'
    BY <1>3, AddCases DEF TypeOK
  <2>2. StreamInv'
    BY <1>3, AddCases DEF TypeOK, StreamInv, GetRole
  <2> QED
    BY <2>1, <2>2
<1>4. CASE Registers(s, NewClient(s))
  <2> DEFINE name == NewClient(s).ResourceName
  <2>1. name \in Names /\ NewClient(s) \in Clients
    BY <1>4 DEF Registers
  <2>2. Inc(uniqClientCount[name]) \in 0..MaxUint64
    BY <2>1, StreamsAssumption DEF Inc, TypeOK
  <2>3. Augment(s, name, uniqClientCount[name] = 0)
        /\ clients'[s] = name /\ \A t \in Streams : t # s => clients'[t] = clients[t]
    BY <1>4, <2>1 DEF Registers, TypeOK
  <2>4. clients' \in [Streams -> Names \cup {Nil}]
        /\ uniqClientCount' \in [Names -> 0..MaxUint64]
        /\ uniqClients' \in [Names -> Clients \cup {Nil}]
    BY <1>4, <2>1, <2>2 DEF Registers, TypeOK
  <2> QED
    BY <1>1, <1>4, <2>1, <2>3, <2>4, AddCases DEF TypeOK, Registers
<1> QED
  BY <1>2, <1>3, <1>4, AddCases

\* The other actions touch no map of the streams.
OtherAction ==
  \/ \E r \in FetchRequests : OnFetchRequests(r)
  \/ buildCollection
  \/ KrtStep
  \/ \E ref \in PodRefs :
       \/ \E l \in LabelSets, z \in Localities :
            PodChange(ref, [Namespace |-> ref.Namespace,
                            AugmentedLabels |-> l, Locality |-> z])
       \/ PodChange(ref, Nil)
  \/ UNCHANGED vars

\* They keep the types and StreamInv.
LEMMA OtherTypes ==
  ASSUME TypeOK, StreamInv, OtherAction
  PROVE  TypeOK' /\ StreamInv'
<1> USE DEF vars, streamVars, stateVars, krtVars
<1>1. StreamInv'
  <2>1. /\ UNCHANGED <<pc, node, found, watch, clients, uniqClientCount, uniqClients>>
        /\ collection' \in {TRUE, collection}
    BY DEF OtherAction, OnFetchRequests, buildCollection, KrtStep, MarkDependant,
           getClients, Publish, Recompute, PodChange
  <2>2. collection' = FALSE => collection = FALSE
    BY <2>1
  <2>3. collection \in BOOLEAN /\ collection' \in BOOLEAN
    BY <2>1 DEF TypeOK
  <2> QED
    BY <2>1, <2>2, <2>3 DEF StreamInv, GetRole
<1>2. TypeOK'
  <2>1. CASE \E r \in FetchRequests : OnFetchRequests(r)
    BY <2>1 DEF OnFetchRequests, TypeOK
  <2>2. CASE buildCollection
    BY <2>2 DEF buildCollection, TypeOK
  <2>3. CASE MarkDependant
    BY <2>3 DEF MarkDependant, TypeOK
  <2>4. CASE getClients
    BY <2>4 DEF getClients, TypeOK
  <2>5. CASE Publish
    BY <2>5 DEF Publish, TypeOK
  <2>6. CASE Recompute
    BY <2>6 DEF Recompute, TypeOK
  <2>7. ASSUME NEW ref \in PodRefs, NEW pod \in LocalityPod \cup {Nil}, PodChange(ref, pod)
        PROVE  TypeOK'
    BY <2>7 DEF PodChange, TypeOK
  <2>8. ASSUME NEW ref \in PodRefs, NEW l \in LabelSets, NEW z \in Localities
        PROVE  [Namespace |-> ref.Namespace, AugmentedLabels |-> l, Locality |-> z]
                 \in LocalityPod
    BY DEF LocalityPod
  <2>9. CASE UNCHANGED vars
    BY <2>9 DEF TypeOK
  <2> QED
    BY <2>1, <2>2, <2>3, <2>4, <2>5, <2>6, <2>7, <2>8, <2>9 DEF OtherAction, KrtStep
<1> QED
  BY <1>1, <1>2

\* A step is one of an open stream, or leaves the streams alone.
LEMMA StepCases ==
  ASSUME [Next]_vars
  PROVE  \/ \E s \in Streams :
              \/ OpenStream(s)
              \/ Disconnect(s)
              \/ \E r \in Requests : OnStreamRequest(s, r)
              \/ add(s)
              \/ NotifyNew(s)
              \/ OnStreamClosed(s)
              \/ NotifyGone(s)
         \/ OtherAction
BY DEF Next, StreamStep, OtherAction

-----------------------------------------------------------------------------
(* Reference counts *)

\* The streams of a client are finitely many, at most as many as there are ids.
LEMMA HoldersFinite ==
  ASSUME NEW n
  PROVE  /\ IsFiniteSet(Holders(n))
         /\ Cardinality(Holders(n)) \in Nat
         /\ Cardinality(Holders(n)) = 0 <=> Holders(n) = {}
<1>1. Holders(n) \subseteq Streams
  BY DEF Holders
<1> QED
  BY <1>1, StreamsAssumption, FS_Subset, FS_CardinalityType, FS_EmptySet

\* A stream that registers adds one to the streams of its client; the counter has
\* room for it.
LEMMA Join ==
  ASSUME TypeOK, NEW s \in Streams, NEW name \in Names, clients[s] = Nil,
         clients' = [clients EXCEPT ![s] = name]
  PROVE  /\ Cardinality(Holders(name))' = Cardinality(Holders(name)) + 1
         /\ Cardinality(Holders(name)) < MaxUint64
         /\ \A n \in Names \ {name} : Holders(n)' = Holders(n)
<1>1. Holders(name)' = Holders(name) \cup {s} /\ s \notin Holders(name)
  BY NilAssumption DEF Holders, TypeOK
<1>2. Cardinality(Holders(name))' = Cardinality(Holders(name)) + 1
  BY <1>1, HoldersFinite, FS_AddElement
<1>3. Cardinality(Holders(name) \cup {s}) <= Cardinality(Streams)
  <2>1. Holders(name) \cup {s} \subseteq Streams
    BY DEF Holders
  <2> QED
    BY <2>1, StreamsAssumption, FS_Subset
<1>4. Cardinality(Holders(name)) < MaxUint64
  BY <1>1, <1>2, <1>3, HoldersFinite, StreamsAssumption, FS_CardinalityType
<1>5. \A n \in Names \ {name} : Holders(n)' = Holders(n)
  BY NilAssumption DEF Holders, TypeOK
<1> QED
  BY <1>2, <1>4, <1>5

\* A stream that is forgotten takes one from the streams of its client.
LEMMA Part ==
  ASSUME TypeOK, NEW s \in Streams, clients[s] # Nil,
         clients' = [clients EXCEPT ![s] = Nil]
  PROVE  /\ Cardinality(Holders(clients[s])) >= 1
         /\ Cardinality({t \in Streams : clients'[t] = clients[s]})
              = Cardinality(Holders(clients[s])) - 1
         /\ \A n \in Names \ {clients[s]} : Holders(n)' = Holders(n)
<1> DEFINE name == clients[s]
           rest == {t \in Streams : clients'[t] = name}
<1>1. rest = Holders(name) \ {s} /\ s \in Holders(name)
  BY DEF Holders, TypeOK
<1>2. Cardinality(rest) = Cardinality(Holders(name)) - 1
  BY <1>1, HoldersFinite, FS_RemoveElement
<1>3. Cardinality(Holders(name)) # 0
  BY <1>1, HoldersFinite
<1>4. \A n \in Names \ {name} : Holders(n)' = Holders(n)
  BY NilAssumption DEF Holders, TypeOK
<1> QED
  BY <1>2, <1>3, <1>4, HoldersFinite

\* Every step keeps the counters exact.
LEMMA CountStep ==
  ASSUME TypeOK, StreamInv, CountInv, [Next]_vars
  PROVE  CountInv'
<1> USE DEF vars, streamVars, stateVars, krtVars
<1>1. ASSUME UNCHANGED stateVars
      PROVE  CountInv'
  BY <1>1 DEF CountInv, Holders
<1>2. ASSUME NEW s \in Streams, NEW ucc, Registers(s, ucc)
      PROVE  CountInv'
  <2> DEFINE name == ucc.ResourceName
  <2>1. name \in Names /\ ucc \in Clients /\ ucc # Nil
    BY <1>2, NilAssumption DEF Registers
  <2>2. /\ Cardinality(Holders(name))' = Cardinality(Holders(name)) + 1
        /\ Cardinality(Holders(name)) < MaxUint64
        /\ \A n \in Names \ {name} : Holders(n)' = Holders(n)
    BY <1>2, <2>1, Join DEF Registers
  <2>3. uniqClientCount[name] = Cardinality(Holders(name))
    BY <2>1 DEF CountInv
  <2>4. Inc(uniqClientCount[name]) = Cardinality(Holders(name)) + 1
    BY <2>2, <2>3, HoldersFinite, StreamsAssumption DEF Inc
  <2>5. uniqClientCount'[name] = Cardinality(Holders(name))' /\ uniqClientCount'[name] # 0
    BY <1>2, <2>1, <2>2, <2>4, HoldersFinite DEF Registers, TypeOK
  <2>6. uniqClients'[name] # Nil /\ uniqClients'[name].ResourceName = name
    BY <1>2, <2>1 DEF Registers, TypeOK, CountInv
  <2>7. \A n \in Names \ {name} : uniqClientCount'[n] = uniqClientCount[n]
                                /\ uniqClients'[n] = uniqClients[n]
    BY <1>2, <2>1 DEF Registers, TypeOK
  <2>8. ASSUME NEW n \in Names
        PROVE  /\ uniqClientCount'[n] = Cardinality(Holders(n))'
               /\ uniqClients'[n] # Nil <=> uniqClientCount'[n] # 0
               /\ uniqClients'[n] # Nil => uniqClients'[n].ResourceName = n
    <3>1. CASE n = name
      BY <3>1, <2>5, <2>6
    <3>2. CASE n # name
      BY <3>2, <2>2, <2>7 DEF CountInv
    <3> QED
      BY <3>1, <3>2
  <2> QED
    BY <2>8 DEF CountInv
<1>3. ASSUME NEW s \in Streams, cleanup(s), clients[s] # Nil
      PROVE  CountInv'
  <2> DEFINE name == clients[s]
  <2>1. name \in Names
    BY <1>3 DEF TypeOK
  <2>2. clients' = [clients EXCEPT ![s] = Nil]
    BY <1>3 DEF cleanup
  <2>3. /\ Cardinality(Holders(name)) >= 1
        /\ Cardinality({t \in Streams : clients'[t] = name}) = Cardinality(Holders(name)) - 1
        /\ \A n \in Names \ {name} : Holders(n)' = Holders(n)
    BY <1>3, <2>2, Part
  <2>4. uniqClientCount[name] = Cardinality(Holders(name)) /\ uniqClientCount[name] \in Nat
    BY <2>1, HoldersFinite DEF CountInv
  <2>5. uniqClientCount'[name] = uniqClientCount[name] - 1
    BY <1>3, <2>1, <2>3, <2>4 DEF cleanup, Dec, TypeOK
  <2>6. /\ uniqClients'[name] # Nil <=> uniqClientCount'[name] # 0
        /\ uniqClients'[name] # Nil => uniqClients'[name].ResourceName = name
    BY <1>3, <2>1, <2>3, <2>4, <2>5 DEF cleanup, TypeOK, CountInv
  <2>7. \A n \in Names \ {name} : uniqClientCount'[n] = uniqClientCount[n]
                                /\ uniqClients'[n] = uniqClients[n]
    BY <1>3, <2>1 DEF cleanup, TypeOK
  <2>8. ASSUME NEW n \in Names
        PROVE  /\ uniqClientCount'[n] = Cardinality({t \in Streams : clients'[t] = n})
               /\ uniqClients'[n] # Nil <=> uniqClientCount'[n] # 0
               /\ uniqClients'[n] # Nil => uniqClients'[n].ResourceName = n
    <3>1. CASE n = name
      BY <3>1, <2>3, <2>4, <2>5, <2>6
    <3>2. CASE n # name
      BY <3>2, <2>3, <2>7 DEF CountInv, Holders
    <3> QED
      BY <3>1, <3>2
  <2> QED
    BY <2>8 DEF CountInv, Holders
<1>4. ASSUME NEW s \in Streams, add(s)
      PROVE  CountInv'
  BY <1>1, <1>2, <1>4, AddCases
<1>5. ASSUME NEW s \in Streams, OnStreamClosed(s)
      PROVE  CountInv'
  BY <1>1, <1>3, <1>5 DEF OnStreamClosed
<1>6. ASSUME NEW s \in Streams,
             \/ OpenStream(s)
             \/ Disconnect(s)
             \/ \E r \in Requests : OnStreamRequest(s, r)
             \/ NotifyNew(s)
             \/ NotifyGone(s)
      PROVE  UNCHANGED stateVars
  BY <1>6 DEF OpenStream, Disconnect, OnStreamRequest, NotifyNew, NotifyGone
<1>7. OtherAction => UNCHANGED stateVars
  BY DEF OtherAction, OnFetchRequests, buildCollection, KrtStep, MarkDependant,
         getClients, Publish, Recompute, PodChange
<1> QED
  BY <1>1, <1>4, <1>5, <1>6, <1>7, StepCases

-----------------------------------------------------------------------------
(* The published collection *)

\* A trigger that reaches a registered collection leaves it a recomputation.
LEMMA TriggerQueues ==
  ASSUME TypeOK, TriggerRecomputation, krtPc \in {"publish", "idle"} => dependant
  PROVE  /\ UNCHANGED <<krtPc, dependant, snapshot, published>>
         /\ krtPc \in {"publish", "idle"} => queue' # 0
BY DEF TriggerRecomputation, TypeOK

\* Every step keeps KrtInv: a change of the clients is followed by a trigger, and
\* the collection is registered whenever it holds something it has read.
LEMMA KrtStepInv ==
  ASSUME TypeOK, StreamInv, KrtInv, [Next]_vars
  PROVE  KrtInv'
<1> USE DEF vars, streamVars, stateVars, krtVars
<1>1. ASSUME UNCHANGED <<collection, krtVars, uniqClients>>,
             TriggerPending => TriggerPending'
      PROVE  KrtInv'
  BY <1>1 DEF KrtInv, Stale
<1>2. ASSUME UNCHANGED <<collection, krtVars>>, TriggerPending'
      PROVE  KrtInv'
  BY <1>2 DEF KrtInv, Stale
<1>3. ASSUME NEW s \in Streams, pc[s] \notin {"notify", "closeNotify"},
             \A t \in Streams : t # s => pc'[t] = pc[t]
      PROVE  TriggerPending => TriggerPending'
  BY <1>3 DEF TriggerPending
<1>4. ASSUME NEW s \in Streams, add(s)
      PROVE  KrtInv'
  <2>1. pc[s] = "add" /\ UNCHANGED <<collection, krtVars>>
    BY <1>4, AddCases
  <2>2. \A t \in Streams : t # s => pc'[t] = pc[t]
    BY <1>4 DEF add, Augment, TypeOK
  <2>3. CASE UNCHANGED uniqClients
    BY <2>1, <2>2, <2>3, <1>1, <1>3
  <2>4. ASSUME NEW ucc, Registers(s, ucc), uniqClients' # uniqClients
        PROVE  KrtInv'
    <3>1. pc'[s] = "notify"
      BY <2>4 DEF Registers, Augment, TypeOK
    <3> QED
      BY <3>1, <2>1, <1>2 DEF TriggerPending
  <2> QED
    BY <1>4, <2>3, <2>4, AddCases
<1>5. ASSUME NEW s \in Streams, OnStreamClosed(s)
      PROVE  KrtInv'
  <2>1. pc[s] = "close" /\ UNCHANGED <<collection, krtVars>>
    BY <1>5 DEF OnStreamClosed
  <2>2. \A t \in Streams : t # s => pc'[t] = pc[t]
    BY <1>5 DEF OnStreamClosed, cleanup, TypeOK
  <2>3. CASE UNCHANGED uniqClients
    BY <2>1, <2>2, <2>3, <1>1, <1>3
  <2>4. CASE uniqClients' # uniqClients
    <3>1. pc'[s] = "closeNotify"
      BY <1>5, <2>4 DEF OnStreamClosed, cleanup, TypeOK
    <3> QED
      BY <3>1, <2>1, <1>2 DEF TriggerPending
  <2> QED
    BY <2>3, <2>4
<1>6. ASSUME NEW s \in Streams, NotifyNew(s) \/ NotifyGone(s)
      PROVE  KrtInv'
  <2>1. TriggerRecomputation /\ UNCHANGED <<collection, uniqClients>>
    BY <1>6 DEF NotifyNew, NotifyGone
  <2>2. /\ UNCHANGED <<krtPc, dependant, snapshot, published>>
        /\ krtPc \in {"publish", "idle"} => queue' # 0
    BY <2>1, TriggerQueues DEF KrtInv
  <2> QED
    BY <2>1, <2>2 DEF KrtInv, Stale
<1>7. ASSUME NEW s \in Streams,
             \/ OpenStream(s)
             \/ Disconnect(s)
             \/ \E r \in Requests : OnStreamRequest(s, r)
      PROVE  KrtInv'
  <2>1. UNCHANGED <<collection, krtVars, uniqClients>> /\ pc[s] \in {"new", "recv"}
    BY <1>7 DEF OpenStream, Disconnect, OnStreamRequest
  <2>2. \A t \in Streams : t # s => pc'[t] = pc[t]
    BY <1>7 DEF OpenStream, Disconnect, OnStreamRequest, TypeOK
  <2> QED
    BY <2>1, <2>2, <1>1, <1>3
<1>8. ASSUME OtherAction
      PROVE  KrtInv'
  <2>1. UNCHANGED <<pc, uniqClients>>
    BY <1>8 DEF OtherAction, OnFetchRequests, buildCollection, KrtStep, MarkDependant,
                getClients, Publish, Recompute, PodChange
  <2>2. TriggerPending' = TriggerPending
    BY <2>1 DEF TriggerPending
  <2>3. CASE buildCollection
    BY <2>3 DEF buildCollection, KrtInv
  <2>4. CASE MarkDependant
    BY <2>4 DEF MarkDependant, KrtInv
  <2>5. CASE getClients
    BY <2>1, <2>5 DEF getClients, KrtInv, Stale
  <2>6. CASE Publish
    BY <2>1, <2>2, <2>6 DEF Publish, KrtInv, Stale
  <2>7. CASE Recompute
    BY <2>7 DEF Recompute, KrtInv
  <2>8. CASE UNCHANGED <<collection, krtVars>>
    BY <2>1, <2>2, <2>8 DEF KrtInv, Stale
  <2>9. OtherAction => buildCollection \/ KrtStep \/ UNCHANGED <<collection, krtVars>>
    BY DEF OtherAction, OnFetchRequests, PodChange
  <2> QED
    BY <1>8, <2>3, <2>4, <2>5, <2>6, <2>7, <2>8, <2>9 DEF KrtStep
<1> QED
  BY <1>4, <1>5, <1>6, <1>7, <1>8, StepCases

-----------------------------------------------------------------------------
(* The invariants *)

\* The initial state satisfies the inductive invariant.
LEMMA InitIInv == Init => IInv
<1> SUFFICES ASSUME Init PROVE IInv
  OBVIOUS
<1>1. TypeOK
  <2>1. 0 \in 0..MaxUint64 /\ 0 \in Nat
    BY StreamsAssumption
  <2>2. snapshot \in [Names -> Clients \cup {Nil}] /\ published \in [Names -> Clients \cup {Nil}]
    BY DEF Init
  <2>3. uniqClientCount \in [Names -> 0..MaxUint64]
    BY <2>1 DEF Init
  <2> QED
    BY <2>1, <2>2, <2>3 DEF Init, TypeOK
<1>2. StreamInv
  BY DEF Init, StreamInv
<1>3. ASSUME NEW n \in Names
      PROVE  Holders(n) = {}
  BY NilAssumption DEF Init, Holders
<1>4. CountInv
  BY <1>3, FS_EmptySet DEF Init, CountInv
<1>5. KrtInv
  BY DEF Init, KrtInv
<1> QED
  BY <1>1, <1>2, <1>4, <1>5 DEF IInv

\* Every step preserves it.
LEMMA NextIInv == IInv /\ [Next]_vars => IInv'
<1> SUFFICES ASSUME IInv, [Next]_vars PROVE IInv'
  OBVIOUS
<1> USE DEF IInv
<1>1. TypeOK' /\ StreamInv'
  <2>1. CASE OtherAction
    BY <2>1, OtherTypes
  <2>2. ASSUME NEW s \in Streams, add(s)
        PROVE  TypeOK' /\ StreamInv'
    BY <2>2, AddTypes
  <2>3. ASSUME NEW s \in Streams,
               \/ OpenStream(s)
               \/ Disconnect(s)
               \/ \E r \in Requests : OnStreamRequest(s, r)
               \/ NotifyNew(s)
               \/ OnStreamClosed(s)
               \/ NotifyGone(s)
        PROVE  TypeOK' /\ StreamInv'
    BY <2>3, StreamTypes
  <2> QED
    BY <2>1, <2>2, <2>3, StepCases
<1>2. CountInv'
  BY CountStep
<1>3. KrtInv'
  BY KrtStepInv
<1> QED
  BY <1>1, <1>2, <1>3

\* The inductive invariant holds of every behaviour of the callbacks.
THEOREM Invariance == Spec => []IInv
BY InitIInv, NextIInv, PTL DEF Spec

\* Every variable keeps its type.
THEOREM TypeCorrect == Spec => []TypeOK
<1>1. IInv => TypeOK
  BY DEF IInv
<1> QED
  BY <1>1, Invariance, PTL

\* The counters of add and cleanup are exact, for any number of streams.
THEOREM RefCounts == Spec => []RefCountsExact
<1>1. IInv => RefCountsExact
  BY HoldersFinite DEF IInv, CountInv, RefCountsExact
<1> QED
  BY <1>1, Invariance, PTL

\* Gateway requests are only served under the live client of their own stream.
THEOREM WatchKeys == Spec => []WatchKeyIsLive
<1>1. IInv => WatchKeyIsLive
  <2> SUFFICES ASSUME IInv, NEW s \in Streams, watch[s] # Nil,
                      IsKubeGatewayCacheKey(watch[s])
               PROVE  clients[s] = watch[s] /\ uniqClients[watch[s]] # Nil
    BY DEF WatchKeyIsLive
  <2>1. clients[s] = watch[s] /\ clients[s] \in Names
    BY DEF IInv, StreamInv, TypeOK
  <2>2. s \in Holders(clients[s])
    BY DEF Holders
  <2> QED
    BY <2>1, <2>2, HoldersFinite DEF IInv, CountInv
<1> QED
  BY <1>1, Invariance, PTL

\* No closed stream leaves a client behind.
THEOREM NoGhosts == Spec => []NoGhostClients
<1>1. IInv => NoGhostClients
  <2> SUFFICES ASSUME IInv, NEW n \in Names, uniqClients[n] # Nil
               PROVE  \E s \in Streams : clients[s] = n
                        /\ pc[s] \in {"recv", "add", "notify", "close"}
    BY DEF NoGhostClients
  <2>1. Holders(n) # {}
    BY HoldersFinite DEF IInv, CountInv
  <2>2. PICK s \in Streams : clients[s] = n
    BY <2>1 DEF Holders
  <2>3. clients[s] # Nil
    BY <2>2, NilAssumption
  <2> QED
    BY <2>2, <2>3 DEF IInv, StreamInv, TypeOK
<1> QED
  BY <1>1, Invariance, PTL

\* A change of the clients is never lost on the way to the published collection.
THEOREM NoLostUpdates == Spec => []NoLostUpdate
<1>1. IInv => NoLostUpdate
  BY DEF IInv, KrtInv, Stale, NoLostUpdate
<1> QED
  BY <1>1, Invariance, PTL

-----------------------------------------------------------------------------
(* Action properties and refinement *)

\* The maps change only when a stream registers or is forgotten.
LEMMA MapSteps ==
  ASSUME TypeOK, StreamInv, [Next]_vars
  PROVE  \/ UNCHANGED stateVars
         \/ \E s \in Streams :
              /\ pc[s] = "add"
              /\ Registers(s, NewClient(s))
              /\ UsePods => found[s] # Nil
         \/ \E s \in Streams : clients[s] # Nil /\ cleanup(s)
<1> USE DEF vars, streamVars, stateVars, krtVars
<1>1. ASSUME NEW s \in Streams, add(s)
      PROVE  \/ UNCHANGED stateVars
             \/ /\ pc[s] = "add"
                /\ Registers(s, NewClient(s))
                /\ UsePods => found[s] # Nil
  BY <1>1, AddCases
<1>2. ASSUME NEW s \in Streams, OnStreamClosed(s)
      PROVE  UNCHANGED stateVars \/ (clients[s] # Nil /\ cleanup(s))
  BY <1>2 DEF OnStreamClosed
<1>3. ASSUME NEW s \in Streams,
             \/ OpenStream(s)
             \/ Disconnect(s)
             \/ \E r \in Requests : OnStreamRequest(s, r)
             \/ NotifyNew(s)
             \/ NotifyGone(s)
      PROVE  UNCHANGED stateVars
  BY <1>3 DEF OpenStream, Disconnect, OnStreamRequest, NotifyNew, NotifyGone
<1>4. OtherAction => UNCHANGED stateVars
  BY DEF OtherAction, OnFetchRequests, buildCollection, KrtStep, MarkDependant,
         getClients, Publish, Recompute, PodChange
<1> QED
  BY <1>1, <1>2, <1>3, <1>4, StepCases

\* What is published for a name changes only through its removal.
THEOREM Frozen == Spec => ClientIsFrozen
<1>1. ASSUME IInv, [Next]_vars, NEW n \in Names, uniqClients[n] # Nil, uniqClients'[n] # Nil
      PROVE  uniqClients'[n] = uniqClients[n]
  <2>1. ASSUME NEW s \in Streams, NEW ucc, Registers(s, ucc)
        PROVE  uniqClients'[n] = uniqClients[n]
    <3>1. uniqClientCount[n] # 0
      BY <1>1 DEF IInv, CountInv
    <3> QED
      BY <3>1, <2>1, <1>1 DEF Registers, IInv, TypeOK
  <2>2. ASSUME NEW s \in Streams, clients[s] # Nil, cleanup(s)
        PROVE  uniqClients'[n] = uniqClients[n]
    BY <2>2, <1>1 DEF cleanup, IInv, TypeOK
  <2> QED
    BY <1>1, <2>1, <2>2, MapSteps DEF IInv, stateVars
<1>2. IInv /\ [Next]_vars =>
        [\A n \in Names :
           uniqClients[n] # Nil /\ uniqClients'[n] # Nil => uniqClients'[n] = uniqClients[n]]_vars
  BY <1>1
<1> QED
  BY <1>2, Invariance, PTL DEF Spec, ClientIsFrozen

HashInjective == \A l, m \in LabelSets : HashLables[l] = HashLables[m] => l = m

\* Role, labels and namespace can be read off the name of a unique client.
LEMMA NameInjective ==
  ASSUME HashInjective, NEW c \in Clients, NEW d \in Clients,
         c.ResourceName = d.ResourceName
  PROVE  c.Role = d.Role /\ (UsePods => c.Labels = d.Labels /\ c.Namespace = d.Namespace)
<1> DEFINE U == STRING \cup {HashLables[l] : l \in LabelSets} \cup {ref.Namespace : ref \in PodRefs}
<1>1. PICK r1 \in Roles, p1 \in PodInfos :
        c = NewUniqlyConnectedClient(r1, p1.Namespace, p1.AugmentedLabels, p1.Locality)
  BY DEF Clients
<1>2. PICK r2 \in Roles, p2 \in PodInfos :
        d = NewUniqlyConnectedClient(r2, p2.Namespace, p2.AugmentedLabels, p2.Locality)
  BY DEF Clients
<1>3. /\ c.Role = r1 /\ c.Labels = p1.AugmentedLabels /\ c.Namespace = p1.Namespace
      /\ d.Role = r2 /\ d.Labels = p2.AugmentedLabels /\ d.Namespace = p2.Namespace
  BY <1>1, <1>2 DEF NewUniqlyConnectedClient
<1>4. CASE ~UsePods
  <2>1. p1.Namespace = <<>> /\ p2.Namespace = <<>>
    BY <1>4 DEF PodInfos, NoPod
  <2>2. c.ResourceName = r1 /\ d.ResourceName = r2
    BY <1>1, <1>2, <2>1 DEF NewUniqlyConnectedClient
  <2> QED
    BY <1>3, <1>4, <2>2
<1>5. CASE UsePods
  <2>1. p1 \in LocalityPod /\ p2 \in LocalityPod
    BY <1>5 DEF PodInfos
  <2>2. p1.Namespace # <<>> /\ p2.Namespace # <<>>
    BY <2>1, KeysAssumption DEF LocalityPod
  <2> DEFINE h1 == HashLables[p1.AugmentedLabels]
             h2 == HashLables[p2.AugmentedLabels]
  <2>3. /\ c.ResourceName = Append(Append(r1, h1), p1.Namespace)
        /\ d.ResourceName = Append(Append(r2, h2), p2.Namespace)
    BY <1>1, <1>2, <2>2 DEF NewUniqlyConnectedClient, labeledRole
  <2>4. /\ p1.AugmentedLabels \in LabelSets /\ p2.AugmentedLabels \in LabelSets
        /\ p1.Namespace \in {ref.Namespace : ref \in PodRefs}
        /\ p2.Namespace \in {ref.Namespace : ref \in PodRefs}
    BY <2>1 DEF LocalityPod
  <2>5. h1 \in U /\ h2 \in U /\ p1.Namespace \in U /\ p2.Namespace \in U
    BY <2>4
  <2>6. r1 \in Seq(U) /\ r2 \in Seq(U)
    <3>1. r1 \in Seq(STRING) /\ r2 \in Seq(STRING)
      BY KeysAssumption
    <3>2. STRING \subseteq U
      OBVIOUS
    <3> HIDE DEF U
    <3> QED
      BY <3>1, <3>2, SeqMonotonic
  <2> HIDE DEF U, h1, h2
  <2>7. Append(r1, h1) \in Seq(U) /\ Append(r2, h2) \in Seq(U)
    BY <2>5, <2>6
  <2>8. Append(r1, h1) = Append(r2, h2) /\ p1.Namespace = p2.Namespace
    <3> DEFINE q1 == Append(r1, h1)
               q2 == Append(r2, h2)
    <3>1. q1 \in Seq(U) /\ q2 \in Seq(U) /\ Append(q1, p1.Namespace) = Append(q2, p2.Namespace)
      BY <2>3, <2>7
    <3> HIDE DEF q1, q2
    <3>2. q1 = q2 /\ p1.Namespace = p2.Namespace
      BY <3>1, <2>5, AppendInjective
    <3> QED
      BY <3>2 DEF q1, q2
  <2>9. r1 = r2 /\ h1 = h2
    BY <2>5, <2>6, <2>8, AppendInjective
  <2> QED
    BY <1>3, <2>4, <2>8, <2>9 DEF HashInjective, h1, h2
<1> QED
  BY <1>4, <1>5

\* Streams that share a unique client agree on role, namespace and labels.
THEOREM SharedIdentity == Spec => SharedClientSameIdentity
<1>1. ASSUME IInv, [Next]_vars, HashInjective, NEW s \in Streams,
             clients[s] = Nil, clients'[s] # Nil
      PROVE  LET ucc == uniqClients'[clients'[s]] IN
             /\ ucc.Role = GetRole(node[s])
             /\ UsePods => /\ ucc.Labels = found[s].AugmentedLabels
                           /\ ucc.Namespace = found[s].Namespace
  <2>1. Registers(s, NewClient(s))
    <3>1. ASSUME NEW t \in Streams, Registers(t, NewClient(t)), t # s
          PROVE  clients'[s] = clients[s]
      BY <3>1, <1>1 DEF Registers, IInv, TypeOK
    <3>2. ASSUME NEW t \in Streams, cleanup(t)
          PROVE  clients'[s] \in {clients[s], Nil}
      BY <3>2, <1>1 DEF cleanup, IInv, TypeOK
    <3> QED
      BY <3>1, <3>2, <1>1, MapSteps DEF IInv, stateVars
  <2> DEFINE new == NewClient(s)
             name == new.ResourceName
             ucc == uniqClients'[clients'[s]]
  <2>2. new \in Clients /\ name \in Names /\ clients'[s] = name
    BY <2>1, <1>1 DEF Registers, IInv, TypeOK
  <2>3. ucc \in Clients /\ ucc.ResourceName = name
    <3>1. CASE uniqClientCount[name] = 0
      BY <3>1, <2>1, <2>2, <1>1 DEF Registers, IInv, TypeOK
    <3>2. CASE uniqClientCount[name] # 0
      BY <3>2, <2>1, <2>2, <1>1, NilAssumption DEF Registers, IInv, TypeOK, CountInv
    <3> QED
      BY <3>1, <3>2
  <2>4. ucc.Role = new.Role /\ (UsePods => ucc.Labels = new.Labels /\ ucc.Namespace = new.Namespace)
    <3> HIDE DEF ucc, new
    <3> QED
      BY <1>1, <2>2, <2>3, NameInjective
  <2>5. /\ new.Role = GetRole(node[s])
        /\ UsePods => /\ new.Labels = found[s].AugmentedLabels
                      /\ new.Namespace = found[s].Namespace
    BY DEF NewClient, NewUniqlyConnectedClient
  <2> QED
    BY <2>4, <2>5
<1>2. IInv /\ [Next]_vars =>
        [(\A l, m \in LabelSets : HashLables[l] = HashLables[m] => l = m) =>
           \A s \in Streams : clients[s] = Nil /\ clients'[s] # Nil =>
             LET ucc == uniqClients'[clients'[s]] IN
             /\ ucc.Role = GetRole(node[s])
             /\ UsePods => /\ ucc.Labels = found[s].AugmentedLabels
                           /\ ucc.Namespace = found[s].Namespace]_vars
  BY <1>1 DEF HashInjective
<1> QED
  BY <1>2, Invariance, PTL DEF Spec, SharedClientSameIdentity

Live == {n \in Names : uniqClients[n] # Nil}

\* The bookkeeping implements the abstract set of connected clients.
THEOREM Refinement == Spec => ImplementsConnectedClients
<1>1. Init => Abstract!Init
  BY DEF Init, Abstract!Init
<1>2. IInv /\ [Next]_vars => [Abstract!Next]_<<clients, Live>>
  <2> SUFFICES ASSUME IInv, [Next]_vars
               PROVE  [Abstract!Next]_<<clients, Live>>
    OBVIOUS
  <2>1. CASE UNCHANGED stateVars
    BY <2>1 DEF stateVars, Live
  <2>2. ASSUME NEW s \in Streams, NEW ucc, Registers(s, ucc)
        PROVE  Abstract!Connect(s, ucc.ResourceName) /\ ucc.ResourceName \in Names
    <3> DEFINE name == ucc.ResourceName
    <3>1. name \in Names /\ ucc # Nil /\ clients[s] = Nil
      BY <2>2, NilAssumption DEF Registers
    <3>2. clients' = [clients EXCEPT ![s] = name]
      BY <2>2 DEF Registers
    <3>3. Live' = Live \cup {name}
      <4>1. CASE uniqClientCount[name] = 0
        BY <4>1, <2>2, <3>1 DEF Registers, IInv, TypeOK, Live
      <4>2. CASE uniqClientCount[name] # 0
        BY <4>2, <2>2, <3>1 DEF Registers, IInv, CountInv, Live
      <4> QED
        BY <4>1, <4>2
    <3> QED
      BY <3>1, <3>2, <3>3 DEF Abstract!Connect, Live
  <2>3. ASSUME NEW s \in Streams, clients[s] # Nil, cleanup(s)
        PROVE  Abstract!Leave(s)
    <3> DEFINE name == clients[s]
    <3>1. name \in Names /\ clients' = [clients EXCEPT ![s] = Nil]
      BY <2>3 DEF IInv, TypeOK, cleanup
    <3>2. uniqClientCount[name] = Cardinality(Holders(name))
      BY <3>1 DEF IInv, CountInv
    <3>3. uniqClientCount[name] = 1 <=> ~\E t \in Streams \ {s} : clients[t] = name
      <4>1. Cardinality(Holders(name) \ {s}) = Cardinality(Holders(name)) - 1
        <5>1. s \in Holders(name)
          BY DEF Holders
        <5> QED
          BY <5>1, HoldersFinite, FS_RemoveElement
      <4>2. IsFiniteSet(Holders(name) \ {s})
        BY HoldersFinite, FS_RemoveElement
      <4>3. Cardinality(Holders(name) \ {s}) = 0 <=> Holders(name) \ {s} = {}
        BY <4>2, FS_EmptySet
      <4>4. Holders(name) \ {s} = {} <=> ~\E t \in Streams \ {s} : clients[t] = name
        BY DEF Holders
      <4> QED
        BY <4>1, <4>3, <4>4, <3>2, HoldersFinite
    <3>4. Live' = IF uniqClientCount[name] = 1 THEN Live \ {name} ELSE Live
      BY <2>3, <3>1 DEF cleanup, IInv, TypeOK, Live
    <3> QED
      BY <2>3, <3>1, <3>3, <3>4 DEF Abstract!Leave, Live
  <2> QED
    BY <2>1, <2>2, <2>3, MapSteps DEF IInv, Abstract!Next
<1> QED
  BY <1>1, <1>2, Invariance, PTL DEF Spec, ImplementsConnectedClients, Abstract!Spec, Live

=============================================================================
