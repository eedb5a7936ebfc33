----------------------- MODULE LocalityClientsProofs -----------------------
(***************************************************************************)
(* Safety of the join of pods with their nodes and of the clients that are *)
(* named by its result, for any number of pods, nodes, streams and changes *)
(* of the cluster.                                                         *)
(***************************************************************************)
EXTENDS LocalityClients, SequenceTheorems, TLAPS

-----------------------------------------------------------------------------
(* The inductive invariant *)

Events == [kind : {"pod"}, name : Pods] \cup [kind : {"node"}, name : Nodes]

PodEventOf(p)  == [kind |-> "pod", name |-> p]
NodeEventOf(n) == [kind |-> "node", name |-> n]

Pending(event) == \E i \in DOMAIN queue : queue[i] = event

Localities == {localityFromLabels(labels) : labels \in NodeLabels} \cup {NoLocality}

TypeInv ==
  /\ apiPods \in [Pods -> PodSpecs \cup {None}]
  /\ apiNodes \in [Nodes -> NodeLabels \cup {None}]
  /\ podCollection \in [Pods -> PodSpecs \cup {None}]
  /\ DOMAIN nodeMetadataCollection = Nodes
  /\ \A n \in Nodes : \E labels \in NodeLabels \cup {None} :
       nodeMetadataCollection[n] = NodeMetadata(n, labels)
  /\ queue \in Seq(Events)
  /\ DOMAIN augmented = Pods
  /\ DOMAIN fetched = Pods

\* The pod as augmentPodLabels makes it for a given locality.
AugmentedWith(pod, locality) ==
  [Locality        |-> locality,
   AugmentedLabels |-> AugmentLabels(locality, pod.labels),
   Addresses       |-> extractPodIPs(pod)]

\* A pod without a pending event of its own is remembered under its node, and is as
\* augmentPodLabels would make it now unless an event of that node is pending.
JoinInv ==
  \A p \in Pods :
    \/ Pending(PodEventOf(p))
    \/ /\ fetched[p] = FetchOne(podCollection[p])
       /\ \/ augmented[p] = augmentPodLabels(podCollection[p])
          \/ fetched[p] # None /\ Pending(NodeEventOf(fetched[p]))

\* Also then it is as augmentPodLabels would make it for some locality.
LocalityInv ==
  \A p \in Pods :
    \/ Pending(PodEventOf(p))
    \/ podCollection[p] = None
    \/ \E locality \in Localities : augmented[p] = AugmentedWith(podCollection[p], locality)

PodInv == TypeInv /\ JoinInv /\ LocalityInv

-----------------------------------------------------------------------------
(* The queue *)

\* An event that is appended is pending, and so is what was.
LEMMA PendingAppend ==
  ASSUME queue \in Seq(Events), NEW e \in Events, queue' = Append(queue, e)
  PROVE  /\ queue' \in Seq(Events)
         /\ Pending(e)'
         /\ \A f : Pending(f) => Pending(f)'
<1>1. queue' \in Seq(Events) /\ Len(queue') = Len(queue) + 1
      /\ \A i \in 1 .. Len(queue) : queue'[i] = queue[i]
      /\ queue'[Len(queue) + 1] = e
  BY AppendProperties
<1>2. DOMAIN queue = 1 .. Len(queue) /\ DOMAIN queue' = 1 .. Len(queue')
      /\ Len(queue) \in Nat
  BY <1>1, LenProperties
<1> QED
  BY <1>1, <1>2 DEF Pending

\* Only the first event is gone when it is taken.
LEMMA PendingTail ==
  ASSUME queue \in Seq(Events), queue # <<>>, queue' = Tail(queue)
  PROVE  /\ queue' \in Seq(Events)
         /\ Head(queue) \in Events
         /\ \A f : Pending(f) /\ f # Head(queue) => Pending(f)'
<1>1. /\ queue' \in Seq(Events) /\ Len(queue') = Len(queue) - 1
      /\ \A i \in 1 .. Len(queue') : queue'[i] = queue[i + 1]
      /\ Head(queue) = queue[1] /\ Head(queue) \in Events
  BY HeadTailProperties
<1>2. DOMAIN queue = 1 .. Len(queue) /\ DOMAIN queue' = 1 .. Len(queue')
      /\ Len(queue) \in Nat
  BY <1>1, LenProperties
<1>3. ASSUME NEW f, Pending(f), f # Head(queue) PROVE Pending(f)'
  <2>1. PICK i \in 1 .. Len(queue) : queue[i] = f
    BY <1>2, <1>3 DEF Pending
  <2>2. i # 1 /\ i - 1 \in 1 .. Len(queue')
    BY <1>1, <1>2, <1>3, <2>1
  <2>3. queue'[i - 1] = f
    BY <1>1, <2>1, <2>2
  <2> QED
    BY <1>2, <2>2, <2>3 DEF Pending
<1> QED
  BY <1>1, <1>3
-----------------------------------------------------------------------------
(* The join *)

\* The locality of a pod is one that a node has, or none.
LEMMA LocalityType ==
  ASSUME TypeInv, NEW pod \in PodSpecs
  PROVE  PodLocality(pod) \in Localities
<1>1. CASE pod.nodeName = None
  BY <1>1 DEF PodLocality, Localities
<1>2. CASE pod.nodeName # None
  <2>1. pod.nodeName \in Nodes
    BY <1>2, NodesAssumption
  <2>2. PICK labels \in NodeLabels \cup {None} :
          nodeMetadataCollection[pod.nodeName] = NodeMetadata(pod.nodeName, labels)
    BY <2>1 DEF TypeInv
  <2>3. CASE labels = None
    BY <2>2, <2>3 DEF NodeMetadata, PodLocality, Localities
  <2>4. CASE labels # None
    BY <1>2, <2>2, <2>4 DEF NodeMetadata, PodLocality, Localities
  <2> QED
    BY <2>3, <2>4
<1> QED
  BY <1>1, <1>2

\* The informer of pods: the event that it appends covers the pod.
LEMMA PodEventStep ==
  ASSUME PodInv, NEW q \in Pods, PodEvent(q)
  PROVE  PodInv'
<1> USE DEF PodInv, PodEvent, apiVars
<1>1. PodEventOf(q) \in Events /\ queue' = Append(queue, PodEventOf(q))
  BY DEF Events, PodEventOf
<1>2. /\ queue' \in Seq(Events) /\ Pending(PodEventOf(q))'
      /\ \A f : Pending(f) => Pending(f)'
  BY <1>1, PendingAppend DEF TypeInv
<1>3. TypeInv'
  BY <1>2 DEF TypeInv
<1>4. ASSUME NEW p \in Pods, p # q
      PROVE  podCollection'[p] = podCollection[p]
             /\ augmentPodLabels(podCollection[p])' = augmentPodLabels(podCollection[p])
  BY <1>4 DEF TypeInv, augmentPodLabels, PodLocality
<1>5. JoinInv'
  <2> SUFFICES ASSUME NEW p \in Pods, p # q, ~Pending(PodEventOf(p))'
               PROVE  /\ fetched'[p] = FetchOne(podCollection'[p])
                      /\ \/ augmented'[p] = augmentPodLabels(podCollection[p])'
                         \/ fetched'[p] # None /\ Pending(NodeEventOf(fetched[p]))'
    BY <1>2 DEF JoinInv
  <2> QED
    BY <1>2, <1>4 DEF JoinInv
<1>6. LocalityInv'
  BY <1>2, <1>4 DEF LocalityInv
<1> QED
  BY <1>3, <1>5, <1>6

\* The informer of nodes: the event that it appends covers the pods that name the node.
LEMMA NodeEventStep ==
  ASSUME PodInv, NEW n \in Nodes, NodeEvent(n)
  PROVE  PodInv'
<1> USE DEF PodInv, NodeEvent, apiVars
<1>1. NodeEventOf(n) \in Events /\ queue' = Append(queue, NodeEventOf(n))
  BY DEF Events, NodeEventOf
<1>2. /\ queue' \in Seq(Events) /\ Pending(NodeEventOf(n))'
      /\ \A f : Pending(f) => Pending(f)'
  BY <1>1, PendingAppend DEF TypeInv
<1>3. TypeInv'
  BY <1>2 DEF TypeInv
<1>4. ASSUME NEW p \in Pods, FetchOne(podCollection[p]) # n
      PROVE  augmentPodLabels(podCollection[p])' = augmentPodLabels(podCollection[p])
  BY <1>4 DEF TypeInv, augmentPodLabels, PodLocality, FetchOne
<1>5. JoinInv'
  <2> SUFFICES ASSUME NEW p \in Pods, ~Pending(PodEventOf(p))'
               PROVE  /\ fetched'[p] = FetchOne(podCollection'[p])
                      /\ \/ augmented'[p] = augmentPodLabels(podCollection[p])'
                         \/ fetched'[p] # None /\ Pending(NodeEventOf(fetched[p]))'
    BY DEF JoinInv
  <2>1. fetched[p] = FetchOne(podCollection[p])
    BY <1>2 DEF JoinInv
  <2>2. CASE fetched[p] = n /\ n # None
    BY <1>2, <2>1, <2>2
  <2>3. CASE fetched[p] # n
    BY <1>2, <1>4, <2>1, <2>3 DEF JoinInv
  <2>4. CASE fetched[p] = None
    <3>1. augmentPodLabels(podCollection[p])' = augmentPodLabels(podCollection[p])
      BY <2>1, <2>4 DEF augmentPodLabels, PodLocality, FetchOne
    <3> QED
      BY <1>2, <2>1, <2>4, <3>1 DEF JoinInv
  <2> QED
    BY <2>2, <2>3, <2>4
<1>6. LocalityInv'
  BY <1>2 DEF LocalityInv
<1> QED
  BY <1>3, <1>5, <1>6

\* The goroutine of the collection takes an event: what the event covered is recomputed.
LEMMA ProcessStep ==
  ASSUME PodInv, Process
  PROVE  PodInv'
<1> DEFINE event == Head(queue)
           affected == IF event.kind = "pod" THEN {event.name}
                       ELSE {p \in Pods : fetched[p] = event.name}
<1>1. /\ queue # <<>> /\ queue' = Tail(queue)
      /\ augmented' = [p \in Pods |-> IF p \in affected THEN augmentPodLabels(podCollection[p])
                                      ELSE augmented[p]]
      /\ fetched' = [p \in Pods |-> IF p \in affected THEN FetchOne(podCollection[p])
                                    ELSE fetched[p]]
      /\ UNCHANGED <<apiVars, podCollection, nodeMetadataCollection>>
  BY DEF Process
<1>2. /\ queue' \in Seq(Events) /\ event \in Events
      /\ \A f : Pending(f) /\ f # event => Pending(f)'
  BY <1>1, PendingTail DEF PodInv, TypeInv
<1> HIDE DEF event
<1>3. TypeInv'
  BY <1>1, <1>2 DEF PodInv, TypeInv, apiVars
<1>4. \A p \in Pods : augmentPodLabels(podCollection[p])' = augmentPodLabels(podCollection[p])
  BY <1>1 DEF augmentPodLabels, PodLocality
<1>5. ASSUME NEW p \in Pods, p \notin affected
      PROVE  /\ event # PodEventOf(p)
             /\ event = NodeEventOf(event.name) => fetched[p] # event.name
             /\ augmented'[p] = augmented[p] /\ fetched'[p] = fetched[p]
  BY <1>1, <1>5 DEF PodEventOf, NodeEventOf
<1>6. ASSUME NEW p \in Pods, p \in affected
      PROVE  /\ augmented'[p] = augmentPodLabels(podCollection[p])'
             /\ fetched'[p] = FetchOne(podCollection'[p])
  BY <1>1, <1>4, <1>6
<1>7. JoinInv'
  <2> SUFFICES ASSUME NEW p \in Pods, ~Pending(PodEventOf(p))', p \notin affected
               PROVE  /\ fetched'[p] = FetchOne(podCollection'[p])
                      /\ \/ augmented'[p] = augmentPodLabels(podCollection[p])'
                         \/ fetched'[p] # None /\ Pending(NodeEventOf(fetched[p]))'
    BY <1>6 DEF JoinInv
  <2>1. ~Pending(PodEventOf(p))
    BY <1>2, <1>5
  <2>2. event # NodeEventOf(fetched[p])
    BY <1>5 DEF NodeEventOf
  <2> QED
    BY <1>1, <1>2, <1>4, <1>5, <2>1, <2>2 DEF PodInv, JoinInv
<1>8. LocalityInv'
  <2> SUFFICES ASSUME NEW p \in Pods, ~Pending(PodEventOf(p))', podCollection'[p] # None
               PROVE  \E locality \in Localities :
                        augmented'[p] = AugmentedWith(podCollection'[p], locality)
    BY DEF LocalityInv
  <2>1. CASE p \in affected
    <3>1. PodLocality(podCollection[p])' \in Localities
      BY <1>1, LocalityType DEF PodInv, TypeInv, PodLocality
    <3>2. augmented'[p] = AugmentedWith(podCollection'[p], PodLocality(podCollection[p])')
      BY <1>6, <2>1 DEF augmentPodLabels, AugmentedWith
    <3> QED
      BY <3>1, <3>2
  <2>2. CASE p \notin affected
    BY <1>1, <1>2, <1>5, <2>2 DEF PodInv, LocalityInv
  <2> QED
    BY <2>1, <2>2
<1> QED
  BY <1>3, <1>7, <1>8 DEF PodInv

\* A change of the cluster is not seen before its event.
LEMMA EditStep ==
  ASSUME PodInv,
         \/ \E p \in Pods, pod \in PodSpecs \cup {None} : EditPod(p, pod)
         \/ \E n \in Nodes, labels \in NodeLabels \cup {None} : EditNode(n, labels)
         \/ UNCHANGED vars
  PROVE  PodInv'
<1>1. /\ apiPods' \in [Pods -> PodSpecs \cup {None}]
      /\ apiNodes' \in [Nodes -> NodeLabels \cup {None}]
      /\ UNCHANGED <<podCollection, nodeMetadataCollection, queue, fetched, augmented>>
  BY DEF PodInv, TypeInv, EditPod, EditNode, vars, apiVars
<1>2. TypeInv'
  BY <1>1 DEF PodInv, TypeInv
<1>3. JoinInv'
  BY <1>1 DEF PodInv, JoinInv, Pending, augmentPodLabels, PodLocality
<1>4. LocalityInv'
  BY <1>1 DEF PodInv, LocalityInv, Pending
<1> QED
  BY <1>2, <1>3, <1>4 DEF PodInv

\* The collections start empty, with no event pending.
LEMMA PodInit == Init => PodInv
<1> SUFFICES ASSUME Init PROVE PodInv
  OBVIOUS
<1>1. TypeInv
  BY NodesAssumption, EmptySeq DEF Init, TypeInv, NodeMetadata
<1>2. JoinInv /\ LocalityInv
  BY DEF Init, JoinInv, LocalityInv, FetchOne, augmentPodLabels
<1> QED
  BY <1>1, <1>2 DEF PodInv

\* No step of the cluster, the informers or the collection breaks the invariant.
LEMMA PodStep == PodInv /\ [Next]_vars => PodInv'
BY PodEventStep, NodeEventStep, ProcessStep, EditStep DEF Next, Deliver

-----------------------------------------------------------------------------
(* What the collection holds *)

\* The locality of the pod can be read off its labels.
Coherent(pod) == pod.Locality = localityFromLabels(pod.AugmentedLabels)

\* With both informers up to date, augmentPodLabels gives what the cluster asks for.
LEMMA AugmentsAsWanted ==
  ASSUME TypeInv, InformersIdle, NEW p \in Pods
  PROVE  augmentPodLabels(podCollection[p]) = Wanted(apiPods[p])
<1> DEFINE pod == apiPods[p]
           nodeLabels == IF pod.nodeName = None \/ apiNodes[pod.nodeName] = None
                         THEN << >> ELSE apiNodes[pod.nodeName]
           given == {t \in Topology \cap DOMAIN nodeLabels : nodeLabels[t] # None}
           topology == [t \in given |-> nodeLabels[t]]
           locality == PodLocality(pod)
<1>1. podCollection[p] = pod /\ (pod # None => pod \in PodSpecs)
  BY DEF InformersIdle, TypeInv
<1>2. CASE pod = None
  BY <1>1, <1>2 DEF augmentPodLabels, Wanted
<1>3. CASE pod # None
  <2>1. locality = [t \in Topology |-> LabelOf(topology, t)]
    <3>1. CASE pod.nodeName = None \/ apiNodes[pod.nodeName] = None
      <4>1. locality = NoLocality
        BY <1>1, <1>3, <3>1, NodesAssumption DEF InformersIdle, PodLocality, NodeMetadata
      <4>2. given = {}
        BY <3>1
      <4> QED
        BY <4>1, <4>2 DEF NoLocality, LabelOf
    <3>2. CASE pod.nodeName # None /\ apiNodes[pod.nodeName] # None
      <4>1. pod.nodeName \in Nodes /\ apiNodes[pod.nodeName] \in NodeLabels
        BY <1>1, <1>3, <3>2, NodesAssumption DEF TypeInv
      <4>2. nodeMetadataCollection[pod.nodeName]
              = [name |-> pod.nodeName, labels |-> apiNodes[pod.nodeName]]
        BY <3>2, <4>1 DEF InformersIdle, NodeMetadata
      <4>3. nodeMetadataCollection[pod.nodeName] # None
        BY <4>1, <4>2, NodesAssumption
      <4>4. locality = localityFromLabels(apiNodes[pod.nodeName])
        BY <3>2, <4>2, <4>3 DEF PodLocality
      <4>5. nodeLabels = apiNodes[pod.nodeName]
        BY <3>2
      <4> HIDE DEF locality, nodeLabels
      <4> QED
        BY <4>4, <4>5 DEF localityFromLabels, LabelOf
    <3> QED
      BY <3>1, <3>2
  <2>2. {t \in Topology : locality[t] # None} = given
        /\ \A t \in given : locality[t] = topology[t]
    <3> HIDE DEF locality, nodeLabels
    <3> QED BY <2>1 DEF LabelOf
  <2>3. AugmentLabels(locality, pod.labels)
          = [l \in DOMAIN pod.labels \cup DOMAIN topology |->
               IF l \in DOMAIN topology THEN topology[l] ELSE pod.labels[l]]
    <3> HIDE DEF locality, nodeLabels
    <3> QED BY <2>2 DEF AugmentLabels
  <2> QED
    BY <1>1, <1>3, <2>1, <2>3 DEF augmentPodLabels, Wanted, extractPodIPs
<1> QED
  BY <1>2, <1>3

\* The invariant implies the property of the collection at rest.
LEMMA CurrentAtRest == PodInv => AugmentedIsCurrent
<1> SUFFICES ASSUME PodInv, InformersIdle, queue = <<>>, NEW p \in Pods
             PROVE  augmented[p] = Wanted(apiPods[p])
  BY DEF AugmentedIsCurrent
<1>1. \A event : ~Pending(event)
  BY DEF Pending
<1>2. augmented[p] = augmentPodLabels(podCollection[p])
  BY <1>1 DEF PodInv, JoinInv
<1> QED
  BY <1>2, AugmentsAsWanted DEF PodInv

\* A pod without topology labels of its own carries its locality in its labels, whether
\* or not events of its node are pending.
LEMMA PlainIsCoherent ==
  ASSUME PodInv, NEW p \in Pods, Plain(p)
  PROVE  Coherent(augmented[p])
<1>1. ~Pending(PodEventOf(p))
  BY DEF Plain, Pending, PodEventOf
<1>2. PICK locality \in Localities : augmented[p] = AugmentedWith(podCollection[p], locality)
  BY <1>1 DEF PodInv, LocalityInv, Plain
<1>3. locality = [t \in Topology |-> locality[t]]
  BY <1>2 DEF Localities, localityFromLabels, NoLocality
<1> DEFINE labels == podCollection[p].labels
           given == {t \in Topology : locality[t] # None}
<1>4. Topology \cap DOMAIN labels = {}
  BY DEF Plain
<1>5. AugmentLabels(locality, labels)
        = [l \in given \cup DOMAIN labels |-> IF l \in given THEN locality[l] ELSE labels[l]]
  BY DEF AugmentLabels
<1> HIDE DEF labels
<1>6. \A t \in Topology : LabelOf(AugmentLabels(locality, labels), t) = locality[t]
  BY <1>4, <1>5 DEF LabelOf
<1>7. localityFromLabels(AugmentLabels(locality, labels)) = locality
  BY <1>3, <1>6 DEF localityFromLabels
<1> USE DEF labels
<1> QED
  BY <1>2, <1>7 DEF AugmentedWith, Coherent

\* So equal labels mean equal localities.
LEMMA LabelsNameLocality == PodInv => SameLabelsSameLocality
BY PlainIsCoherent DEF SameLabelsSameLocality, Plain, Coherent

-----------------------------------------------------------------------------
(* The clients *)

\* The pod that a stream has looked up may be stale when add uses it, and the client it
\* joins may be older still, but each of them carries its locality in its labels, and a
\* client is named by its labels.
ClientInv ==
  /\ DOMAIN clients = Streams /\ DOMAIN found = Streams
  /\ \A s \in Streams : clients[s] # None => clients[s] \in DOMAIN uniqClients
  /\ \A s \in Streams : found[s] # None /\ found[s].plain => Coherent(found[s].pod)
  /\ \A n \in DOMAIN uniqClients :
       /\ uniqClients[n].pod.AugmentedLabels = n
       /\ uniqClients[n].plain => Coherent(uniqClients[n].pod)

\* A stream finds its pod: the pod is coherent if it is plain.
LEMMA GetKeyStep ==
  ASSUME PodInv, ClientInv, NEW s \in Streams, NEW p \in Pods, GetKey(s, p)
  PROVE  ClientInv'
<1>1. found' = [found EXCEPT ![s] = [pod |-> augmented[p], plain |-> Plain(p)]]
      /\ UNCHANGED <<clients, uniqClients>>
  BY DEF GetKey
<1>2. found'[s].pod = augmented[p] /\ found'[s].plain = Plain(p)
  BY <1>1 DEF ClientInv
<1>3. found'[s].plain => Coherent(found'[s].pod)
  BY <1>2, PlainIsCoherent
<1>4. \A t \in Streams : t # s => found'[t] = found[t]
  BY <1>1 DEF ClientInv
<1> QED
  BY <1>1, <1>3, <1>4 DEF ClientInv

\* A stream gets its client: an old one keeps its pod, a new one has that of the stream.
LEMMA AddStep ==
  ASSUME ClientInv, NEW s \in Streams, add(s)
  PROVE  ClientInv'
<1> DEFINE name == found[s].pod.AugmentedLabels
<1>1. /\ found[s] # None
      /\ uniqClients' = [n \in DOMAIN uniqClients \cup {name} |->
                           IF n \in DOMAIN uniqClients THEN uniqClients[n] ELSE found[s]]
      /\ clients' = [clients EXCEPT ![s] = name]
      /\ found' = [found EXCEPT ![s] = None]
  BY DEF add, Connected!Connect
<1> QED
  BY <1>1 DEF ClientInv

\* A stream leaves: the clients of the others stay as they are.
LEMMA CleanupStep ==
  ASSUME ClientInv, NEW s \in Streams, cleanup(s)
  PROVE  ClientInv'
<1> DEFINE names == {clients[t] : t \in Streams \ {s}} \ {None}
<1>1. /\ uniqClients' = [n \in names |-> uniqClients[n]]
      /\ clients' = [clients EXCEPT ![s] = None]
      /\ UNCHANGED found
  BY DEF cleanup, Connected!Leave
<1>2. \A n \in names : n \in DOMAIN uniqClients
  BY DEF ClientInv
<1>3. \A t \in Streams : clients'[t] # None => clients'[t] \in names
  BY <1>1 DEF ClientInv
<1> QED
  BY <1>1, <1>2, <1>3 DEF ClientInv

\* No step of the composition breaks either invariant.
LEMMA ClientStep == PodInv /\ ClientInv /\ [NextClients]_allVars => PodInv' /\ ClientInv'
<1> SUFFICES ASSUME PodInv, ClientInv, [NextClients]_allVars PROVE PodInv' /\ ClientInv'
  OBVIOUS
<1>1. CASE Next /\ UNCHANGED clientVars
  BY <1>1, PodStep DEF ClientInv, clientVars
<1>2. ASSUME NEW s \in Streams, add(s) \/ cleanup(s) \/ \E p \in Pods : GetKey(s, p)
      PROVE  PodInv' /\ ClientInv'
  <2>1. UNCHANGED vars
    BY <1>2 DEF add, cleanup, GetKey, podVars, vars
  <2>2. PodInv'
    BY <2>1, PodStep
  <2> QED
    BY <1>2, <2>2, AddStep, CleanupStep, GetKeyStep
<1>3. CASE UNCHANGED allVars
  <2>1. UNCHANGED vars /\ UNCHANGED clientVars
    BY <1>3 DEF allVars, podVars, vars
  <2> QED
    BY <2>1, PodStep DEF ClientInv, clientVars
<1> QED
  BY <1>1, <1>2, <1>3 DEF NextClients

\* Both invariants hold in every state of the composition.
LEMMA ClientsInvariant == SpecClients => [](PodInv /\ ClientInv)
<1>1. InitClients => PodInv /\ ClientInv
  BY PodInit DEF InitClients, ClientInv
<1> QED
  BY <1>1, ClientStep, PTL DEF SpecClients

\* pods.go loses no event of either informer: once both have caught up and the queue is
\* empty, every pod of the collection is as the cluster asks for, whatever order nodes
\* and pods came, changed and went in.
THEOREM PodsAreCurrent == SpecClients => []AugmentedIsCurrent
BY ClientsInvariant, CurrentAtRest, PTL

\* Pods of the collection with equal augmented labels have equal localities at any time,
\* so that add may name a client by the labels alone.
THEOREM LabelsDecideLocality == SpecClients => []SameLabelsSameLocality
BY ClientsInvariant, LabelsNameLocality, PTL

\* A stream that add gives a client has the locality that is published with the client,
\* although its pod was read before the lock and the client was made for another stream.
THEOREM ClientsHaveOneLocality == SpecClients => ClientHasLocalityOfPod
<1> DEFINE Joins(s) ==
      clients[s] = None /\ clients'[s] # None =>
        LET client == uniqClients'[clients'[s]] IN
        found[s].plain /\ client.plain => client.pod.Locality = found[s].pod.Locality
<1>1. ASSUME ClientInv, [NextClients]_allVars, NEW s \in Streams,
             clients[s] = None, clients'[s] # None
      PROVE  add(s)
  <2>1. ASSUME NEW t \in Streams, add(t) PROVE t = s
    BY <1>1, <2>1 DEF add, Connected!Connect, ClientInv
  <2>2. ASSUME NEW t \in Streams, cleanup(t) PROVE FALSE
    BY <1>1, <2>2 DEF cleanup, Connected!Leave, ClientInv
  <2> QED
    BY <1>1, <2>1, <2>2 DEF NextClients, GetKey, clientVars, allVars
<1>2. ASSUME ClientInv, [NextClients]_allVars, NEW s \in Streams PROVE Joins(s)
  <2> SUFFICES ASSUME clients[s] = None, clients'[s] # None,
                      found[s].plain, uniqClients'[clients'[s]].plain
               PROVE  uniqClients'[clients'[s]].pod.Locality = found[s].pod.Locality
    OBVIOUS
  <2> DEFINE name == found[s].pod.AugmentedLabels
  <2>1. add(s)
    BY <1>1, <1>2
  <2>2. /\ found[s] # None
        /\ uniqClients' = [n \in DOMAIN uniqClients \cup {name} |->
                             IF n \in DOMAIN uniqClients THEN uniqClients[n] ELSE found[s]]
        /\ clients'[s] = name
    BY <1>2, <2>1 DEF add, Connected!Connect, ClientInv
  <2>3. CASE name \in DOMAIN uniqClients
    BY <1>2, <2>2, <2>3 DEF ClientInv, Coherent
  <2>4. CASE name \notin DOMAIN uniqClients
    BY <2>2, <2>4
  <2> QED
    BY <2>3, <2>4
<1>3. ClientInv /\ [NextClients]_allVars => [\A s \in Streams : Joins(s)]_allVars
  BY <1>2
<1> QED
  BY <1>3, ClientsInvariant, PTL DEF SpecClients, ClientHasLocalityOfPod
=============================================================================
