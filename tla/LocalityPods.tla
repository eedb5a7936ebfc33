---------------------------- MODULE LocalityPods ----------------------------
(***************************************************************************)
(* krtcollections/pods.go and nodes.go: the collection of pods augmented   *)
(* with the locality of the node they run on.  It joins two informers,     *)
(* which follow the cluster independently: a node may be seen before or    *)
(* after the pods that name it.                                            *)
(***************************************************************************)
EXTENDS Naturals, Sequences

CONSTANTS
  Pods,       \* names of pods
  Nodes,      \* names of nodes
  PodSpecs,   \* states of a pod: [labels, nodeName, PodIPs, PodIP]
  NodeLabels, \* label sets of a node
  FirstNodes, \* the nodes there are at the start: Nodes -> label set, or None
  MaxEdits,   \* bound on the changes of the cluster
  None        \* an object that does not exist, or an empty string

ASSUME NodesAssumption ==
  /\ \A pod \in PodSpecs : pod.nodeName \in Nodes \cup {None}
  /\ FirstNodes \in [Nodes -> NodeLabels \cup {None}]
  /\ None \notin [name : Nodes, labels : NodeLabels]

VARIABLES
  apiPods, apiNodes,      \* the cluster
  edits,                  \* number of its changes
  podCollection,          \* pods, as their informer has seen them
  nodeMetadataCollection, \* node -> NodeMetadata
  queue,                  \* events the augmented collection has to process
  fetched,                \* pod -> node its last computation asked for
  augmented               \* pod -> LocalityPod: the contents of the collection

apiVars == <<apiPods, apiNodes, edits>>
vars == <<apiVars, podCollection, nodeMetadataCollection, queue, fetched, augmented>>

-----------------------------------------------------------------------------
(* Labels and localities *)

Topology == {"region", "zone", "subzone"}

LabelOf(labels, key) == IF key \in DOMAIN labels THEN labels[key] ELSE None

localityFromLabels(labels) == [t \in Topology |-> LabelOf(labels, t)]

\* Mutant: the zone is forgotten.
AugmentLabelsWithoutZone(locality, labels) ==
  LET given == {t \in Topology : locality[t] # None /\ t # "zone"}
  IN [l \in given \cup DOMAIN labels |-> IF l \in given THEN locality[l] ELSE labels[l]]

\* The components of the locality that are not empty replace the labels.
AugmentLabels(locality, labels) ==
  LET given == {t \in Topology : locality[t] # None}
  IN [l \in given \cup DOMAIN labels |-> IF l \in given THEN locality[l] ELSE labels[l]]

extractPodIPs(pod) ==
  IF pod.PodIPs # <<>> THEN pod.PodIPs
  ELSE IF pod.PodIP # None THEN <<pod.PodIP>> ELSE <<>>

NodeMetadata(name, labels) ==
  IF labels = None THEN None ELSE [name |-> name, labels |-> labels]

NoLocality == [t \in Topology |-> None]

\* The locality that augmentPodLabels finds for a pod.
PodLocality(pod) ==
  LET node == IF pod.nodeName = None THEN None ELSE nodeMetadataCollection[pod.nodeName]
  IN IF node = None THEN NoLocality ELSE localityFromLabels(node.labels)

augmentPodLabels(pod) ==
  IF pod = None THEN None
  ELSE [Locality        |-> PodLocality(pod),
        AugmentedLabels |-> AugmentLabels(PodLocality(pod), pod.labels),
        Addresses       |-> extractPodIPs(pod)]

\* Mutant: only a node that is there is remembered.
FetchOneIfPresent(pod) ==
  IF pod = None \/ pod.nodeName = None THEN None
  ELSE IF nodeMetadataCollection[pod.nodeName] = None THEN None ELSE pod.nodeName

\* The node on which the result depends: krt remembers it even if it is missing.
FetchOne(pod) == IF pod = None THEN None ELSE pod.nodeName

-----------------------------------------------------------------------------
Init ==
  /\ apiPods = [p \in Pods |-> None]
  /\ apiNodes = FirstNodes
  /\ edits = 0
  /\ podCollection = [p \in Pods |-> None]
  /\ nodeMetadataCollection = [n \in Nodes |-> None]
  /\ queue = <<>>
  /\ fetched = [p \in Pods |-> None]
  /\ augmented = [p \in Pods |-> None]

(* External: the cluster changes. *)

EditPod(p, pod) ==
  /\ edits < MaxEdits
  /\ apiPods[p] # pod
  /\ apiPods' = [apiPods EXCEPT ![p] = pod]
  /\ edits' = edits + 1
  /\ UNCHANGED <<apiNodes, podCollection, nodeMetadataCollection, queue, fetched, augmented>>

EditNode(n, labels) ==
  /\ edits < MaxEdits
  /\ apiNodes[n] # labels
  /\ apiNodes' = [apiNodes EXCEPT ![n] = labels]
  /\ edits' = edits + 1
  /\ UNCHANGED <<apiPods, podCollection, nodeMetadataCollection, queue, fetched, augmented>>

(* The informers deliver what they have not yet seen, in any order. *)

PodEvent(p) ==
  /\ podCollection[p] # apiPods[p]
  /\ podCollection' = [podCollection EXCEPT ![p] = apiPods[p]]
  /\ queue' = Append(queue, [kind |-> "pod", name |-> p])
  /\ UNCHANGED <<apiVars, nodeMetadataCollection, fetched, augmented>>

\* NodeMetadata.Equals: krt drops an event that changes neither name nor labels.
NodeEvent(n) ==
  LET new == NodeMetadata(n, apiNodes[n]) IN
  /\ nodeMetadataCollection[n] # new
  /\ nodeMetadataCollection' = [nodeMetadataCollection EXCEPT ![n] = new]
  /\ queue' = Append(queue, [kind |-> "node", name |-> n])
  /\ UNCHANGED <<apiVars, podCollection, fetched, augmented>>

\* The augmented collection takes an event: that of a pod recomputes the pod, that of
\* a node the pods whose last computation asked for the node.
Process ==
  LET event == Head(queue)
      affected == IF event.kind = "pod" THEN {event.name}
                  ELSE {p \in Pods : fetched[p] = event.name}
  IN /\ queue # <<>>
     /\ queue' = Tail(queue)
     /\ augmented' = [p \in Pods |-> IF p \in affected
                                     THEN augmentPodLabels(podCollection[p])
                                     ELSE augmented[p]]
     /\ fetched' = [p \in Pods |-> IF p \in affected THEN FetchOne(podCollection[p])
                                                     ELSE fetched[p]]
     /\ UNCHANGED <<apiVars, podCollection, nodeMetadataCollection>>

Deliver == \/ \E p \in Pods : PodEvent(p)
           \/ \E n \in Nodes : NodeEvent(n)

Next ==
  \/ \E p \in Pods, pod \in PodSpecs \cup {None} : EditPod(p, pod)
  \/ \E n \in Nodes, labels \in NodeLabels \cup {None} : EditNode(n, labels)
  \/ Deliver
  \/ Process

Spec == Init /\ [][Next]_vars

-----------------------------------------------------------------------------
(* Properties *)

\* What a pod should look like, from the cluster alone: where its node has a topology
\* label that is not empty, that is the locality and the label, elsewhere the pod's own
\* labels stand.
Wanted(pod) ==
  IF pod = None THEN None
  ELSE LET nodeLabels == IF pod.nodeName = None \/ apiNodes[pod.nodeName] = None
                         THEN << >> ELSE apiNodes[pod.nodeName]
           given == {t \in Topology \cap DOMAIN nodeLabels : nodeLabels[t] # None}
           topology == [t \in given |-> nodeLabels[t]]
       IN [Locality |-> [t \in Topology |-> LabelOf(topology, t)],
           AugmentedLabels |->
             [l \in DOMAIN pod.labels \cup DOMAIN topology |->
                IF l \in DOMAIN topology THEN topology[l] ELSE pod.labels[l]],
           Addresses |-> IF pod.PodIPs # <<>> THEN pod.PodIPs
                         ELSE IF pod.PodIP # None THEN <<pod.PodIP>> ELSE <<>>]

InformersIdle ==
  /\ podCollection = apiPods
  /\ \A n \in Nodes : nodeMetadataCollection[n] = NodeMetadata(n, apiNodes[n])

\* No event is lost: once the informers have caught up and the queue is empty, every
\* pod is augmented from the cluster as it is, also when its node came after it,
\* changed its labels or was deleted and made again.
AugmentedIsCurrent ==
  InformersIdle /\ queue = <<>> => \A p \in Pods : augmented[p] = Wanted(apiPods[p])

\* Unique clients are named by their labels and keep one locality: pods with equal
\* augmented labels have equal localities, even while events of their nodes are pending.
\* Pods that carry topology labels of their own are excepted.
SameLabelsSameLocality ==
  LET Plain == {p \in Pods : /\ podCollection[p] # None
                            /\ Topology \cap DOMAIN podCollection[p].labels = {}
                            /\ \A i \in DOMAIN queue : queue[i] # [kind |-> "pod", name |-> p]}
  IN \A p, q \in Plain :
       augmented[p].AugmentedLabels = augmented[q].AugmentedLabels
         => augmented[p].Locality = augmented[q].Locality

\* Once the cluster stops changing, the augmented pods settle on what it asks for.
AugmentedConverges == <>[](\A p \in Pods : augmented[p] = Wanted(apiPods[p]))
=============================================================================
