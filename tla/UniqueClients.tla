--------------------------- MODULE UniqueClients ---------------------------
(***************************************************************************)
(* The xDS callbacks of fgateway and the collection of uniquely connected  *)
(* clients they maintain (internal/fgateway/krtcollections).               *)
(*                                                                         *)
(* Every Envoy proxy holds one gRPC stream.  The go-control-plane server   *)
(* runs each stream in a goroutine of its own and calls OnStreamRequest    *)
(* and OnStreamClosed from it.  The callbacks map every stream to a unique *)
(* client (role, labels, namespace), count how many streams share it, and  *)
(* trigger a krt collection that publishes the set of unique clients.      *)
(*                                                                         *)
(* One action is one stretch of code between two points where another      *)
(* goroutine may run: the pod lookup before the lock, the critical section *)
(* under stateLock, the trigger after the unlock.                          *)
(***************************************************************************)
EXTENDS Naturals, Sequences, FiniteSets

CONSTANTS
  Streams,        \* stream ids: an int64 counter of the server, never reused
  Roles,          \* raw values of node.metadata.role: their "~"-separated parts
  GatewayPrefix,  \* first parts that start with wellknown.GatewayApiProxyValue
  NodeIds,        \* values of node.id: their "."-separated segments
  PodRefs,        \* pods of the cluster: [Name |-> segments, Namespace |-> <<label>>]
  LabelSets,      \* augmented label sets of pods
  Localities,     \* region/zone/subzone triples of pods
  HashLables,     \* hashutil.HashLables: LabelSets -> uint64, not assumed injective
  UsePods,        \* FALSE iff DISABLE_POD_LOCALITY_XDS: augmentedPods is nil
  FetchRequests,  \* requests that arrive through the unary Fetch methods
  MaxUint64,      \* largest value of a counter
  Nil

ASSUME StreamsAssumption ==
  /\ IsFiniteSet(Streams)
  /\ MaxUint64 \in Nat
  /\ Cardinality(Streams) <= MaxUint64

ASSUME UsePodsAssumption == UsePods \in BOOLEAN

\* Keys are sequences of strings, a namespace is not empty, and the fallback key
\* does not look like the key of a gateway.
ASSUME KeysAssumption ==
  /\ Roles \subseteq Seq(STRING)
  /\ \A ref \in PodRefs : ref.Namespace # <<>>
  /\ "misconfigured-node" \notin GatewayPrefix

VARIABLES
  collection,      \* callbacks.collection holds a *callbacksCollection
  pods,            \* contents of the augmentedPods collection
  pc,              \* where the goroutine of each stream is
  node,            \* node of each stream, remembered by the server
  found,           \* local variable pod of add
  watch,           \* cache key of the last request of the stream that was accepted
  clients,         \* map streamId -> unique client name
  uniqClientCount, \* map name -> number of streams (a missing entry reads as 0)
  uniqClients,     \* map name -> UniqlyConnectedClient
  krtPc,           \* where the goroutine of the published collection is
  dependant,       \* that collection is registered with the trigger
  queue,           \* recomputations it has been asked for and not started
  snapshot,        \* what its last getClients returned
  published,       \* its contents
  up               \* no goroutine has panicked

streamVars == <<pc, node, found, watch>>
stateVars  == <<clients, uniqClientCount, uniqClients>>
krtVars    == <<krtPc, dependant, queue, snapshot, published>>
vars       == <<collection, pods, streamVars, stateVars, krtVars, up>>

-----------------------------------------------------------------------------
(* Keys, nodes and clients *)

\* Mutant: the labels do not enter the name.
unlabeledRole(role, labels) == Append(role, 0)

\* A cache key is the sequence of its parts; Sprintf("%s~%d~%s") appends parts.
labeledRole(role, labels) == Append(role, HashLables[labels])

NewUniqlyConnectedClient(roleFromEnvoy, ns, labels, locality) ==
  [Role         |-> roleFromEnvoy,
   Labels       |-> labels,
   Locality     |-> locality,
   Namespace    |-> ns,
   ResourceName |-> IF ns # <<>>
                    THEN Append(labeledRole(roleFromEnvoy, labels), ns)
                    ELSE roleFromEnvoy]

IsKubeGatewayCacheKey(key) == key # <<>> /\ key[1] \in GatewayPrefix

\* A node without metadata or without a role reads as the empty role.
GetRole(n) == IF n = Nil \/ n.role = Nil THEN <<>> ELSE n.role

\* SplitN(id, ".", 2): everything after the first dot is the namespace.
getRef(id) ==
  IF Len(id) < 2 THEN [Name |-> <<>>, Namespace |-> <<>>]
                 ELSE [Name |-> <<id[1]>>, Namespace |-> Tail(id)]

GetKey(ref) == IF ref \in PodRefs THEN pods[ref] ELSE Nil

FallbackNodeCacheKey == <<"misconfigured-node">>

\* Mutant: a node without a role has no key of its own.
IDWithoutFallback(n) == GetRole(n)

\* nodeRoleHasher.ID: the key under which the snapshot cache serves a node.
ID(n) == IF n = Nil \/ n.role = Nil THEN FallbackNodeCacheKey ELSE n.role

LocalityPod ==
  [Namespace : {r.Namespace : r \in PodRefs},
   AugmentedLabels : LabelSets, Locality : Localities]

\* What add uses when the pod collection is disabled.
NoPod == [Namespace |-> <<>>, AugmentedLabels |-> Nil, Locality |-> Nil]

\* What add knows of the pod of a stream it registers.
PodInfos == IF UsePods THEN LocalityPod ELSE {NoPod}

\* The unique clients there can be, and their names.
Clients ==
  {NewUniqlyConnectedClient(r, p.Namespace, p.AugmentedLabels, p.Locality) :
     r \in Roles, p \in PodInfos}

Names == {c.ResourceName : c \in Clients}

\* A request carries a node, or relies on the one the server remembers.
Nodes    == [id : NodeIds, role : Roles \cup {Nil}]
Requests == Nodes \cup {Nil}

\* The node the server remembers may carry the name of a unique client as its role.
NodeState == [id : NodeIds, role : Roles \cup Names \cup {Nil}]

\* Nil stands for Go's nil and for a missing map entry.
ASSUME NilAssumption ==
  /\ Nil \notin Roles
  /\ Nil \notin Names
  /\ Nil \notin Clients
  /\ Nil \notin NodeState
  /\ Nil \notin LocalityPod
  /\ Nil # FallbackNodeCacheKey

\* uint64 arithmetic
Inc(x) == IF x = MaxUint64 THEN 0 ELSE x + 1
Dec(x) == IF x = 0 THEN MaxUint64 ELSE x - 1

-----------------------------------------------------------------------------
Init ==
  /\ collection = FALSE
  /\ pods = [r \in PodRefs |-> Nil]
  /\ pc = [s \in Streams |-> "new"]
  /\ node = [s \in Streams |-> Nil]
  /\ found = [s \in Streams |-> Nil]
  /\ watch = [s \in Streams |-> Nil]
  /\ clients = [s \in Streams |-> Nil]
  /\ uniqClientCount = [n \in Names |-> 0]
  /\ uniqClients = [n \in Names |-> Nil]
  /\ krtPc = "off"
  /\ dependant = FALSE
  /\ queue = 0
  /\ snapshot = uniqClients
  /\ published = uniqClients
  /\ up = TRUE

(***************************************************************************)
(* External: krt.RecomputeTrigger.  An event reaches the collections that  *)
(* have registered with MarkDependant; each of them queues one recompute.  *)
(***************************************************************************)
TriggerRecomputation ==
  /\ queue' = IF dependant THEN queue + 1 ELSE queue
  /\ UNCHANGED <<krtPc, dependant, snapshot, published>>

(***************************************************************************)
(* External: the streams of the go-control-plane server.                   *)
(***************************************************************************)
OpenStream(s) ==
  /\ pc[s] = "new"
  /\ pc' = [pc EXCEPT ![s] = "recv"]
  /\ UNCHANGED <<collection, pods, node, found, watch, stateVars, krtVars, up>>

\* The proxy goes away; the server cancels the watch and runs OnStreamClosed.
Disconnect(s) ==
  /\ pc[s] = "recv"
  /\ pc' = [pc EXCEPT ![s] = "close"]
  /\ watch' = [watch EXCEPT ![s] = Nil]
  /\ UNCHANGED <<collection, pods, node, found, stateVars, krtVars, up>>

\* Mutant: a gateway that comes before buildCollection is let through.
OnStreamRequestUnchecked(s, r) ==
  LET n == IF r = Nil THEN node[s] ELSE r
      augmented == IsKubeGatewayCacheKey(GetRole(n)) /\ collection
  IN
  /\ pc[s] = "recv"
  /\ node' = [node EXCEPT ![s] = n]
  /\ \/ /\ ~augmented
        /\ watch' = [watch EXCEPT ![s] = ID(n)]
        /\ UNCHANGED <<pc, found>>
     \/ /\ augmented
        /\ pc' = [pc EXCEPT ![s] = "add"]
        /\ found' = [found EXCEPT ![s] = IF UsePods THEN GetKey(getRef(n.id)) ELSE Nil]
        /\ UNCHANGED watch
  /\ UNCHANGED <<collection, pods, stateVars, krtVars, up>>

(***************************************************************************)
(* callbacks.OnStreamRequest up to the lock of add.  The server completes  *)
(* a request without a node with the node of the stream, whose metadata    *)
(* earlier requests have rewritten.  An error makes the server drop the    *)
(* stream.                                                                 *)
(***************************************************************************)
OnStreamRequest(s, r) ==
  LET n == IF r = Nil THEN node[s] ELSE r IN
  /\ pc[s] = "recv"
  /\ node' = [node EXCEPT ![s] = n]
  /\ \/ /\ ~IsKubeGatewayCacheKey(GetRole(n))
        /\ watch' = [watch EXCEPT ![s] = ID(n)]
        /\ UNCHANGED <<pc, found>>
     \/ /\ IsKubeGatewayCacheKey(GetRole(n))
        /\ ~collection
        /\ pc' = [pc EXCEPT ![s] = "close"]
        /\ watch' = [watch EXCEPT ![s] = Nil]
        /\ UNCHANGED found
     \/ /\ IsKubeGatewayCacheKey(GetRole(n))
        /\ collection
        /\ pc' = [pc EXCEPT ![s] = "add"]
        /\ found' = [found EXCEPT ![s] = IF UsePods THEN GetKey(getRef(n.id)) ELSE Nil]
        /\ UNCHANGED watch
  /\ UNCHANGED <<collection, pods, stateVars, krtVars, up>>

\* The end of OnStreamRequest: the role of the node becomes the unique client's
\* name; when the client is not new, the request is accepted at once.
Augment(s, name, isNew) ==
  /\ node' = [node EXCEPT ![s].role = name]
  /\ found' = [found EXCEPT ![s] = Nil]
  /\ pc' = [pc EXCEPT ![s] = IF isNew THEN "notify" ELSE "recv"]
  /\ watch' = IF isNew THEN watch ELSE [watch EXCEPT ![s] = name]

\* The critical section of add, and the rest of OnStreamRequest up to the trigger.
add(s) ==
  /\ pc[s] = "add"
  /\ \/ /\ clients[s] # Nil
        /\ Augment(s, clients[s], FALSE)
        /\ UNCHANGED stateVars
     \/ /\ clients[s] = Nil
        /\ UsePods /\ found[s] = Nil
        /\ pc' = [pc EXCEPT ![s] = "close"]
        /\ watch' = [watch EXCEPT ![s] = Nil]
        /\ UNCHANGED <<node, found, stateVars>>
     \/ LET pod  == IF UsePods THEN found[s] ELSE NoPod
            ucc  == NewUniqlyConnectedClient(GetRole(node[s]), pod.Namespace,
                                             pod.AugmentedLabels, pod.Locality)
            name == ucc.ResourceName
            addedNew == uniqClientCount[name] = 0
        IN /\ clients[s] = Nil
           /\ UsePods => found[s] # Nil
           /\ clients' = [clients EXCEPT ![s] = name]
           /\ uniqClients' = IF addedNew THEN [uniqClients EXCEPT ![name] = ucc]
                                         ELSE uniqClients
           /\ uniqClientCount' = [uniqClientCount EXCEPT ![name] = Inc(@)]
           /\ Augment(s, name, addedNew)
  /\ UNCHANGED <<collection, pods, krtVars, up>>

\* OnStreamRequest after the unlock, for a new unique client.
NotifyNew(s) ==
  /\ pc[s] = "notify"
  /\ TriggerRecomputation
  /\ pc' = [pc EXCEPT ![s] = "recv"]
  /\ watch' = [watch EXCEPT ![s] = ID(node[s])]
  /\ UNCHANGED <<collection, pods, node, found, stateVars, up>>

\* Mutants of cleanup: a client is dropped when the count was n, or when the last
\* stream leaves but its entry stays, or with the first stream that leaves.
cleanupWhen(s, n, dropped) ==
  LET name == clients[s]
      last == uniqClientCount[name] = n
  IN /\ clients' = [clients EXCEPT ![s] = Nil]
     /\ uniqClientCount' = [uniqClientCount EXCEPT ![name] = IF last THEN 0 ELSE Dec(@)]
     /\ uniqClients' = IF dropped THEN [uniqClients EXCEPT ![name] = Nil] ELSE uniqClients
     /\ pc' = [pc EXCEPT ![s] = IF last THEN "closeNotify" ELSE "done"]
cleanupOffByOne(s) == cleanupWhen(s, 0, uniqClientCount[clients[s]] = 0)
cleanupLeavesClient(s) == cleanupWhen(s, 1, FALSE)
cleanupDropsShared(s) == cleanupWhen(s, 1, TRUE)

\* The critical section of cleanup: the maps after stream s is forgotten.
cleanup(s) ==
  LET name == clients[s]
      current == uniqClientCount[name]
  IN /\ clients' = [clients EXCEPT ![s] = Nil]
     /\ uniqClientCount' = [uniqClientCount EXCEPT ![name] =
                              IF current = 1 THEN 0 ELSE Dec(@)]
     /\ uniqClients' = IF current = 1 THEN [uniqClients EXCEPT ![name] = Nil]
                                      ELSE uniqClients
     /\ pc' = [pc EXCEPT ![s] = IF current = 1 THEN "closeNotify" ELSE "done"]

\* callbacks.OnStreamClosed up to the unlock of cleanup.
OnStreamClosed(s) ==
  /\ pc[s] = "close"
  /\ \/ /\ ~collection \/ clients[s] = Nil
        /\ pc' = [pc EXCEPT ![s] = "done"]
        /\ UNCHANGED stateVars
     \/ /\ collection /\ clients[s] # Nil
        /\ cleanup(s)
  /\ node' = [node EXCEPT ![s] = Nil]
  /\ found' = [found EXCEPT ![s] = Nil]
  /\ UNCHANGED <<collection, pods, watch, krtVars, up>>

\* Mutant: nobody is told that a client has gone.
NotifyGoneSilently(s) ==
  /\ pc[s] = "closeNotify"
  /\ pc' = [pc EXCEPT ![s] = "done"]
  /\ UNCHANGED <<collection, pods, node, found, watch, stateVars, krtVars, up>>

\* OnStreamClosed after the unlock, when the last stream of a client has gone.
NotifyGone(s) ==
  /\ pc[s] = "closeNotify"
  /\ TriggerRecomputation
  /\ pc' = [pc EXCEPT ![s] = "done"]
  /\ UNCHANGED <<collection, pods, node, found, watch, stateVars, up>>

(***************************************************************************)
(* callbacks.OnFetchRequests: the request is rewritten, no state is kept.  *)
(* A pod that is not in the collection is dereferenced all the same.       *)
(***************************************************************************)
FetchOutcome(r) ==
  IF ~IsKubeGatewayCacheKey(GetRole(r)) THEN "ok"
  ELSE IF ~collection THEN "error"
  ELSE IF ~UsePods THEN "ok"
  ELSE IF GetKey(getRef(r.id)) = Nil THEN "panic"
  ELSE "ok"

OnFetchRequests(r) ==
  /\ up' = (FetchOutcome(r) # "panic")
  /\ UNCHANGED <<collection, pods, streamVars, stateVars, krtVars>>

\* Mutant: the collection reads the clients without registering with the trigger.
buildCollectionUnmarked ==
  /\ ~collection
  /\ collection' = TRUE
  /\ krtPc' = "read"
  /\ UNCHANGED <<pods, streamVars, stateVars, dependant, queue, snapshot, published, up>>

(***************************************************************************)
(* buildCollection, called by startFgatewayWithConfig while the gRPC       *)
(* server already runs, and the krt collection it creates.                 *)
(***************************************************************************)
buildCollection ==
  /\ ~collection
  /\ collection' = TRUE
  /\ krtPc' = "mark"
  /\ UNCHANGED <<pods, streamVars, stateVars, dependant, queue, snapshot, published, up>>

MarkDependant ==
  /\ krtPc = "mark"
  /\ dependant' = TRUE
  /\ krtPc' = "read"
  /\ UNCHANGED <<collection, pods, streamVars, stateVars, queue, snapshot, published, up>>

getClients ==
  /\ krtPc = "read"
  /\ snapshot' = uniqClients
  /\ krtPc' = "publish"
  /\ UNCHANGED <<collection, pods, streamVars, stateVars, dependant, queue, published, up>>

\* External: krt replaces the contents of the collection by what was computed.
Publish ==
  /\ krtPc = "publish"
  /\ published' = snapshot
  /\ krtPc' = "idle"
  /\ UNCHANGED <<collection, pods, streamVars, stateVars, dependant, queue, snapshot, up>>

\* External: krt takes the next event from its queue.
Recompute ==
  /\ krtPc = "idle"
  /\ queue > 0
  /\ queue' = queue - 1
  /\ krtPc' = "mark"
  /\ UNCHANGED <<collection, pods, streamVars, stateVars, dependant, snapshot, published, up>>

\* The augmentedPods collection gains, changes or loses a pod.
PodChange(ref, pod) ==
  /\ pods[ref] # pod
  /\ pods' = [pods EXCEPT ![ref] = pod]
  /\ UNCHANGED <<collection, streamVars, stateVars, krtVars, up>>

-----------------------------------------------------------------------------
StreamStep(s) ==
  add(s) \/ NotifyNew(s) \/ OnStreamClosed(s) \/ NotifyGone(s)

KrtStep == MarkDependant \/ getClients \/ Publish \/ Recompute

Next ==
  /\ up
  /\ \/ \E s \in Streams :
          \/ OpenStream(s)
          \/ Disconnect(s)
          \/ \E r \in Requests : OnStreamRequest(s, r)
          \/ StreamStep(s)
     \/ \E r \in FetchRequests : OnFetchRequests(r)
     \/ buildCollection
     \/ KrtStep
     \/ \E ref \in PodRefs :
          \/ \E l \in LabelSets, z \in Localities :
               PodChange(ref, [Namespace |-> ref.Namespace,
                               AugmentedLabels |-> l, Locality |-> z])
          \/ PodChange(ref, Nil)

Spec == Init /\ [][Next]_vars

\* Goroutines make progress; proxies and the cluster need not do anything.
Fairness ==
  /\ WF_vars(up /\ buildCollection)
  /\ WF_vars(up /\ KrtStep)
  /\ \A s \in Streams : WF_vars(up /\ StreamStep(s))

FairSpec == Spec /\ Fairness

-----------------------------------------------------------------------------
(* Properties *)

\* Every variable keeps its type.
TypeOK ==
  /\ collection \in BOOLEAN
  /\ pods \in [PodRefs -> LocalityPod \cup {Nil}]
  /\ pc \in [Streams -> {"new", "recv", "add", "notify", "close", "closeNotify", "done"}]
  /\ node \in [Streams -> NodeState \cup {Nil}]
  /\ found \in [Streams -> LocalityPod \cup {Nil}]
  /\ watch \in [Streams -> Roles \cup Names \cup {FallbackNodeCacheKey, Nil}]
  /\ clients \in [Streams -> Names \cup {Nil}]
  /\ uniqClientCount \in [Names -> 0..MaxUint64]
  /\ uniqClients \in [Names -> Clients \cup {Nil}]
  /\ krtPc \in {"off", "mark", "read", "publish", "idle"}
  /\ dependant \in BOOLEAN
  /\ queue \in Nat
  /\ snapshot \in [Names -> Clients \cup {Nil}]
  /\ published \in [Names -> Clients \cup {Nil}]
  /\ up \in BOOLEAN

Holders(n) == {s \in Streams : clients[s] = n}

\* The reference counts of add and cleanup are exact: uniqClientCount[n] is the
\* number of streams registered under n, so the uint64 never wraps, and n has a
\* client exactly while that number is not zero.
RefCountsExact ==
  \A n \in Names :
    /\ uniqClientCount[n] = Cardinality(Holders(n))
    /\ uniqClients[n] # Nil <=> Holders(n) # {}

\* A request with a gateway role is only ever served under the name of a unique
\* client that is registered for its own stream and still present: not under the
\* raw role before buildCollection has run, and not under a name that the close
\* of another stream has removed.
WatchKeyIsLive ==
  \A s \in Streams :
    watch[s] # Nil /\ IsKubeGatewayCacheKey(watch[s]) =>
      /\ clients[s] = watch[s]
      /\ uniqClients[watch[s]] # Nil

\* Every unique client belongs to some stream that has not been closed: no path
\* through OnStreamRequest and OnStreamClosed, the failing ones included, leaves
\* a registration behind.
NoGhostClients ==
  \A n \in Names : uniqClients[n] # Nil =>
    \E s \in Streams : clients[s] = n /\ pc[s] \in {"recv", "add", "notify", "close"}

TriggerPending == \E s \in Streams : pc[s] \in {"notify", "closeNotify"}

\* The trigger is called after the unlock, and the collection registers with it
\* before it reads: whenever nothing is queued, running or about to be triggered,
\* the published collection is exactly the current set of unique clients.
NoLostUpdate ==
  krtPc = "idle" /\ queue = 0 /\ ~TriggerPending => published = uniqClients

\* While a unique client stays registered its labels and locality stay those of the
\* stream that created it, whatever pod the streams that join it later belong to:
\* what getClients publishes for a name changes only through its removal.
ClientIsFrozen ==
  [][\A n \in Names :
       uniqClients[n] # Nil /\ uniqClients'[n] # Nil => uniqClients'[n] = uniqClients[n]
    ]_vars

\* A fetch whose pod is not in the collection is an error, as it is in add; it does
\* not take the process down.
FetchNeverPanics == up

\* Streams share a unique client, and so a snapshot, only when role, namespace and
\* labels agree: a stream is never registered under a client that was built for
\* other labels, as long as hashutil.HashLables tells the label sets apart.
SharedClientSameIdentity ==
  [][(\A l, m \in LabelSets : HashLables[l] = HashLables[m] => l = m) =>
       \A s \in Streams : clients[s] = Nil /\ clients'[s] # Nil =>
         LET ucc == uniqClients'[clients'[s]] IN
         /\ ucc.Role = GetRole(node[s])
         /\ UsePods => /\ ucc.Labels = found[s].AugmentedLabels
                       /\ ucc.Namespace = found[s].Namespace
    ]_vars

Abstract ==
  INSTANCE ConnectedClients WITH conn <- clients,
                                 live <- {n \in Names : uniqClients[n] # Nil}

\* The three maps under stateLock implement the abstract set of connected clients:
\* seen from outside the counters, add only connects a stream that has no client,
\* and cleanup removes a client exactly when no other stream has it.
ImplementsConnectedClients == Abstract!Spec

\* Once proxies stop connecting and leaving, the published collection settles on
\* the set of unique clients.
PublishedConverges == <>[](published = uniqClients)

=============================================================================
