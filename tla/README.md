# A TLA+ verification of fgateway

fgateway is a Kubernetes Gateway API controller and xDS control plane for Envoy, written
in Go. These modules model the parts of it that carry its own logic, check them with TLC
on small instances, and prove their safety properties with TLAPS.

## 1. The system

### Inventory

| component | state | operations | interacts with |
|---|---|---|---|
| xDS callbacks and unique clients (`krtcollections/callbacks.go`, `callbackscollections.go`, `uniqueclients.go`, `ir/model.go`, `xds/utils.go`) | the atomic pointer `collection`; the maps `clients`, `uniqClientCount`, `uniqClients` under `stateLock`; a krt trigger | `OnStreamRequest`, `OnStreamClosed`, `OnFetchRequests`, `buildCollection`, `getClients` | called by the go-control-plane server, one goroutine per stream; triggers a krt collection that calls back `getClients`; reads the pod collection |
| snapshot cache key (`pkg/xds/xds.go`) | none | `nodeRoleHasher.ID` | the snapshot cache, after the callback has rewritten the node |
| GatewayParameters merging (`deployer/merge.go`, `apis/fgateway/v1alpha1`) | the two objects merged, one of them in place | `deepMergeGatewayParameters` and some forty functions below it | called by the deployer |
| generated deep copies (`apis/fgateway/v1alpha1/zz_generated.deepcopy.go`) | none | `DeepCopy` of every type of GatewayParameters | the client answers a read with a copy of its cache; the merge writes into the copy |
| deployer (`deployer/deployer.go`) | none between calls | `GetObjsToDeploy`, `getGatewayParametersForGateway`, chart rendering | reads the cluster; called by the Gateway reconciler |
| locality pods (`krtcollections/pods.go`, `nodes.go`) | two krt collections | recompute a pod when it or its node changes | informers; read by the callbacks |
| Gateway controller (`controller/*.go`) | the work queue of controller-runtime | `Reconcile`, `updateStatus`, watches | API server, deployer |
| start-up (`run.go`, `controlplane.go`, `controller/start.go`) | order of start-up | `startFgateway`, `NewControlPlane` | starts the gRPC server before the collections exist |
| probe server (`pkg/utils/probes`) | a variable shared by two goroutines | start, shutdown | context |
| label hash (`utils/hashutil`) | none | `HashLables` | names of unique clients |

The hard behaviours: stream goroutines that share the reference-counted maps; a trigger
that is called after the lock is released, and a collection that is recomputed
concurrently; a pod that is read before the lock and used under it; a server that serves
before the collection exists; a node that the server remembers and the callback rewrites;
error paths that end a stream half-way; a Reconcile whose reads are minutes or restarts
apart from its patch; and, in the merge, two hundred fields in
hand-written code that tell nil, empty and zero apart. `PROJECT.json` lists them, each at
its line, under `hazards`.

What makes each part correct:

* *unique clients*: exact reference counts; no client without a live stream and no
  gateway served under a name that does not exist; the published collection loses no
  change and converges; proxies share a client only if they are alike.
* *merge*: an override changes the fields it sets and nothing else.
* *lookup*: the result is valid and honours the Gateway's own parameters.
* *locality pods*: a pod's locality follows its node, in whichever order they arrive.
* *deep copies*: what the merge writes through is not shared with the cache.
* *controller*: every relevant change leads to a reconcile; the addresses in a status are
  those of the Gateway's own Service and follow it; a failed update is retried; unless
  something changes or fails, it comes to rest.
* *probe server*: once the context has ended it stops, and stays down.
* *start-up*: all informers are started and waited for, and gateways are not refused for
  ever.

### Plan

1. `UniqueClients`, its abstract specification `ConnectedClients`, runs and proofs. Done.
2. `GatewayParametersMerge` with `OverrideMerge`, and `GatewayParametersLookup`. Done.
3. `LocalityPods`, `ProbeServer` and `Startup`; `LocalityClients`, which composes the pods
   with `ConnectedClients`. Done.
4. `GatewayController`, composed with `GatewayParametersLookup`, and
   `GatewayParametersCopy`. Done.
5. Proofs for every component: `GatewayControllerProofs`, `LocalityClientsProofs`,
   `OverrideMergeProofs`, `ProbeServerProofs`, `StartupProofs`. Done.
6. The merge against its schema, for any configurations: `OverrideLocalProofs`. Done.
7. What the controller promises, as an abstract specification: `Reconciliation`, its
   refinement by `GatewayController`, and that the controller comes to rest. Done.

## 2. Unique clients

### `UniqueClients`

A stream belongs to a *unique client*: proxies with the same role, namespace and labels.
The callbacks count the streams of every client and publish the set of clients through a
krt collection.

| variable | in the code |
|---|---|
| `collection` | `callbacks.collection` holds a collection |
| `pods` | contents of `augmentedPods` |
| `clients`, `uniqClientCount`, `uniqClients` | the maps under `stateLock`; a missing entry is `Nil` or 0, as reading it gives in Go |
| `pc`, `node`, `found` | the goroutine of each stream: its position, the node the server remembers for it, the local `pod` of `add` |
| `watch` | the key under which the last accepted request of the stream is served, by `nodeRoleHasher.ID` |
| `krtPc`, `dependant`, `queue`, `snapshot`, `published` | the krt collection: position of its goroutine, whether it has registered with the trigger, recomputations asked for, the result of `getClients`, its contents |
| `up` | no handler has panicked |

One action is one stretch of code between two points where another goroutine may run.
`callbacks.OnStreamRequest` is three of them: up to the lock (`OnStreamRequest`, with the
pod lookup), the critical section and what follows up to the trigger (`add` with
`Augment`), and the trigger (`NotifyNew`). `OnStreamClosed` is two: up to the unlock
(with `cleanup`) and the trigger (`NotifyGone`). The function passed to krt is two,
`MarkDependant` and `getClients`. `buildCollection` may happen at any time after
streams have begun, as in `startFgateway`.

A cache key or role is the sequence of its `~`-separated parts and a node id that of its
`.`-separated segments, because the code takes them apart at these characters
(`IsKubeGatewayCacheKey`, `getRef`) and puts them together (`ResourceName`). Label sets
and localities are opaque. In the code the topology labels of the node are added to the
labels, so pods with equal labels mostly have equal localities; not always (a pod may
carry the topology labels itself), so the model lets the two vary independently.

External, modelled from their use: the server completes a request without a node by the
node it remembers, drops a stream whose callback fails, and cancels its watches before
`OnStreamClosed`; stream ids are never reused; a trigger reaches the collections that have
registered and each keeps the event until it is processed. `Publish` always succeeds: krt
takes the key of an object from its method `ResourceName()` or from a few known types.
`ir.UniqlyConnectedClient` has a field of that name and no such method (`ir/model.go:17`,
unlike `NodeMetadata`, `nodes.go:14`), so a version of krt may not find a key for a client;
krt is not part of the repository and this is not settled here.

`ConnectedClients` is the abstract specification: streams connect to a client and leave
it, and a client exists while a stream has it. There are no counters.
`ImplementsConnectedClients` maps `clients` and the domain of `uniqClients` to it.

### Runs

| run | instance | what it shows |
|---|---|---|
| `streams` | 2 streams (symmetric), a gateway role and another, 1 pod with 2 label sets and 2 localities that comes and goes | `TypeOK`, `RefCountsExact`, `WatchKeyIsLive`, `NoGhostClients`, `NoLostUpdate`, `ClientIsFrozen`, `SharedClientSameIdentity`, `ImplementsConnectedClients` |
| `nopods` | 3 streams, 2 gateway roles, pod locality disabled, fair goroutines | `RefCountsExact`, `WatchKeyIsLive`, `NoLostUpdate` with one client per role, and streams that change roles; `PublishedConverges` |
| `fetch` | 2 streams, fetches with pod locality, a malformed node id | violation of `FetchNeverPanics` |

Bounds. The only bounds are the sets themselves: stream ids are used once, so a run is a
finite history of as many connections as there are ids. In `nopods` the streams of a role
share a client whatever happens, and three are enough for a client to be shared by two
while a third leaves or joins between any two of their steps. With pods two streams share
one only while labels agree, and `streams` varies labels, localities and the pod's presence
instead; that its safety properties hold for any number of streams is proved below;
two label sets make a pod change identity under a stream; one pod suffices because
streams of several pods with equal labels behave as streams of one. A node id without a
namespace takes the path of a pod that is missing, which the passing runs reach because the
pod comes and goes. `MaxUint64` is the
number of streams, the smallest value for which the counters need not wrap, so that one
spurious decrement would show. Runs do not check deadlock: when all stream ids are used
the instance stops, which the program does not.

Fairness (`nopods` only). Weak fairness of each stream's own steps, of the krt goroutine and
of `buildCollection`: runnable goroutines are scheduled, the critical sections under
`stateLock` do not block, and start-up goes on. Nothing is assumed of proxies, pods or
requests. The property says that the published collection is eventually, and from then on,
the set of unique clients; since stream ids run out, every behaviour reaches the
point from which proxies are quiet.

### Proofs (`UniqueClientsProofs`)

For every finite set of streams and any sets of roles, pods, node ids, label sets and
localities, with and without pods:

| theorem | states |
|---|---|
| `TypeCorrect` | `Spec => []TypeOK` |
| `RefCounts` | `Spec => []RefCountsExact` |
| `WatchKeys` | `Spec => []WatchKeyIsLive` |
| `NoGhosts` | `Spec => []NoGhostClients` |
| `NoLostUpdates` | `Spec => []NoLostUpdate` |
| `Frozen` | `Spec => ClientIsFrozen` |
| `SharedIdentity` | `Spec => SharedClientSameIdentity` |
| `Refinement` | `Spec => ImplementsConnectedClients` |

Assumptions, all in `UniqueClients`: the counter can hold the number of streams
(`StreamsAssumption`), `UsePods` is a Boolean, roles are sequences of strings, namespaces
are not empty, the fallback key is not a gateway's (`KeysAssumption`), and `Nil` is none of
the values it is told apart from (`NilAssumption`). TLC evaluates them in every run.

The invariants are not inductive alone. `IInv` adds to `TypeOK`:

* `StreamInv`: what is known of a stream at each position of its goroutine. Before it has
  connected and after it is done it holds no registration; at `add` its remembered node
  has a gateway role and the collection exists; at `notify` it is registered
  under the role of its node; a watch with a gateway key is that of its registration.
  `WatchKeyIsLive` and `NoGhostClients` follow from it and the counts.
* `CountInv`: the counts are the cardinalities of the sets of registered streams, and
  exactly the names with a positive count have a client of that name. `Join`, `Part`
  and `CountStep` are the facts about finite sets behind it: a stream that joins or
  leaves changes one cardinality by one, and the counter, bounded by the number of
  streams, cannot wrap.
* `KrtInv`: at every position of the krt goroutine, either what it holds is current, or a
  recomputation is queued, or a stream is about to trigger one. It needs that the
  collection is registered whenever it has read, which is where the order of
  `MarkDependant` and `getClients` enters.

`NextIInv` takes the actions one by one; `StepCases` and `AddCases` split `Next` and the
branches of `add`. `Refinement` maps `add` of an unregistered stream to `Connect`,
`cleanup` to `Leave` (this needs `RefCountsExact`: the count is 1 exactly if no other
stream has the client), and everything else to a stutter. `SharedIdentity` rests on
`NameInjective`: with a hash that tells label sets apart, a name determines role, labels
and namespace.

## 3. GatewayParameters

### `GatewayParametersTypes`, `GatewayParametersMerge`, `GatewayParametersCopy`, `OverrideMerge`

`GatewayParametersTypes` is the schema of `spec.kube`: each struct as a record from fields
to kinds (pointer, comparable, map, slice, nested struct). `GatewayParametersMerge`
has one operator for each function of `merge.go`. The code assigns field by field into
`dst`, so fields that are not listed keep `dst`'s value, here `[dst EXCEPT ...]` or
`mergeFields`. `mergeInPlace` is what the top-level function leaves in `dst`,
`deepMergeGatewayParameters` what it returns; they differ when only `src` has a kube part.

`OverrideMerge` merges one of `Defaults` with one of `Overrides`, sets of values that
`spec.kube` can have by its schema (`IsConfig`; structs nest five deep, hence `Shape0` to
`Shape4`). The reference, `Overridden`, is written from the schema and not from the
functions: a struct is merged field by field, one level after the other (`Override1` to
`Override4`), and `Combine` says what becomes of a field that is no struct. Pointers
and comparables are replaced, maps joined, slices appended, with the exceptions
the comments of the code name (probe commands are replaced, sidecars replaced as a whole,
three Istio settings of the default protected). What counts as set is also taken from the
comments: a map or slice that is not nil, empty or not. The code asks for the length in
some places, so for empty maps and slices it does something else: an empty map erases the
default's entries instead of adding none (`merge_empty`), empty slices likewise, and empty
sidecars keep the default instead of replacing it. `Documented` are the values for which
code and comments agree, and the overrides of run `merge` have only these.

| run | fields | what it shows |
|---|---|---|
| `merge` | default: all; override: all but `WindowsOptions`, the four fields below, and empty maps and slices | `MergeIsLocal`, `CacheUntouched` |
| `merge_windows` | `WindowsOptions` | violation of `MergeIsLocal` |
| `merge_empty` | maps; empty in the override | violation of `MergeIsLocal` |

The configurations of the runs have at most one field set, with every kind of value (nil,
empty, disjoint and overlapping maps, empty and non-empty slices, bare structs), or all
fields. Pairs of single fields reach every rule at every nesting, and every pair
of fields that could be confused. Deadlock is not checked: after the merge there is
nothing left to do.

`GatewayParametersCopy` has one operator for each generated `DeepCopyInto`: the set of paths
to the references (pointers, structs behind a pointer, maps, slices) that the copy shares
with its original. A read returns such a copy of the object in the client's cache, and the
merge writes into it: through the pointers to structs, and through a map to which it adds
entries. `WriteThrough` is what of that reaches the cache, and `CacheUntouched` says that
nothing does. A field that one of the nineteen copies forgot would show for every
default that has it. Copies of `corev1` types are external and taken as deep.

`OverrideMergeProofs` proves `CacheStaysPrivate`, `Spec => []CacheUntouched`, for any sets of
defaults and overrides, with any number of fields: `CopiesAll` says that a copy that treats
every reference field shares nothing if the copies it calls share nothing, `LeafCopies` and
`NestedCopies` apply it from the leaves of the schema upwards, `NothingShared` is the result
for `GatewayParameters.DeepCopy`, and through no shared reference nothing is written
(`WriteThroughNothing`). A field forgotten in one copy makes exactly its step fail.

`OverrideLocalProofs` proves `MergesFieldByField`: if all values that an override sets are
`Documented` (no field of `NotMerged`, that is `WindowsOptions` and the four fields below, and
no empty map or slice but a probe's command), then `Spec => []MergeIsLocal`, for any defaults
and overrides, any combination of fields and any other values. `ConfigsAssumption`, of
`OverrideMerge`, says that they have the shape of the schema; TLC evaluates it. The overrides of
run `merge` are those that satisfy the premise.

* `Rules` and `SliceRules`: for each kind of field, `Combine` is what the rule of `merge.go`
  for that kind computes, for an override that is not empty.
* `Levels` to `LeafRules`: `At(k, ...)` is the reference `k` levels above the deepest one, so
  that a lemma about a struct holds wherever the schema has it (an `Image` is found in four
  places, at two depths). `StructAt` unfolds a struct by one level, `FitsBelow` hands the
  shape down to its fields.
* One lemma for each function of `merge.go` that merges a struct, from `SELinuxLocal` to
  `AiLocal`: the function computes the reference for its type. Each lists the fields
  with their rules and cites the lemmas of the functions it calls. A field that is
  forgotten, mixed up or given the wrong rule makes the lemma of its function fail, and no
  other.
* `KubeLocal` puts them together for `spec.kube`. The inductive invariant `IInv` adds to
  `MergeIsLocal` only that the two objects stay the ones that were read.

`merge.go` does not mention four fields of the `corev1` structs it merges (`Claims`,
`AppArmorProfile`, `SupplementalGroupsPolicy`, `SELinuxChangePolicy`): where the default has
the struct, the override's value is dropped, so run `merge` leaves them out of the override.

Deadlock is not checked: an instance is one call.

### `GatewayParametersLookup`

`Deployer.getGatewayParametersForGateway`: read the parameters that the Gateway's
annotation names, its class, the default parameters of the class, and merge. Each read is
an action, and users edit classes and parameters between them. Run `lookup_override` (one
class, a default and an override, three kube configurations and self-managed, references
without a name or a namespace) shows that a kube override of a self-managed default is
ignored. `ResultHasOneMode` is checked, and proved, where the call is made, in
`GatewayController`.

### `GatewayController`

`watchGateway`, `gatewayReconciler.Reconcile`, `Deployer.GetObjsToDeploy` and
`updateStatus`, with the lookup as an instance of `GatewayParametersLookup`.

| variable | in the code |
|---|---|
| `gateways`, `services`, `gatewayClasses`, `gatewayParameters` | the caches of the manager's informers, from which all reads are served |
| `events` | per kind, changes whose event handler has not run |
| `queue` | the requests of the work queue: those that wait, and those added again while the same request is handled |
| `step`, `req`, `gw`, `svc` and the variables of the lookup | the worker: position and local variables of `Reconcile`, `GetObjsToDeploy`, `updateStatus` |
| `seen` | history: what the last `Reconcile` without an error read, and its `result.Requeue` |

A change of a Gateway passes the predicates of its watch (`GatewayPredicate`: annotation or
generation), a change of a Service leads to its owner (`OwnerEvent`, `Owns` with
`shouldIgnoreStatusChild`), and a change of GatewayParameters goes through the map function
and the index (`MapParameters`, `gatewayToParams`) when its event is handled. `Reconcile`
is one action per read, and one for the patch; between any two of them the cluster may
change and the process restart. A return with an error puts the request back, a failed
status update does not. `Restart` loses queue, events and worker, and lists everything.

External, modelled from their use: the API server gives each Gateway a uid of its own and
refuses a patch if the Gateway has changed since it was read (the patch is the whole
object, so it holds uid and resourceVersion); a merge patch has no entry for an empty list;
the work queue holds a request once, and gives it to one worker at a time.

Abstractions. Gateways use our class throughout, so `OurGateway` is
true; a Service belongs to a Gateway of its own name, to an earlier one of that name
(`controller` 0) or to nobody; Deployments, whose events lead to a request and to nothing else, are left out, and so is
a failing `List` in the map function. The chart has one Service, named after the
release, in the Gateway's namespace. What the namespace lookup (`GetNamespace`) and helm
answer is left open, so the properties hold for every answer. At this commit those answers
are always errors (see Findings): the model contains the behaviours of that program, in which
every request is put back for ever, and of the one in which they succeed. No fairness asks
for a success.

| run | instance | what it shows |
|---|---|---|
| `controller` | 1 Gateway with and without own parameters, 1 class, a default, kube and self-managed, 3 states of the Service, owners of this, an earlier and no Gateway, 2 changes of the cluster, any number of restarts and failures | `ResultHasOneMode`, `ReconciledAsItIs`, `AddressesFollowService`, `AddressesAreOwn`, `ImplementsReconciliation`; under `FairSpec`, `GatewaysSettle` |
| `controller_retry` | the same with 1 change | violation of `FailedUpdateIsRetried` |

Bounds. In the four clusters at the start the Gateway names parameters of its own or not, the
default is kube or self-managed, and the Service is the Gateway's own, without addresses yet.
Two changes are enough to delete a Gateway and make it again inside one `Reconcile`, to
annotate a Gateway and edit the parameters it names in either order, and to give a load
balancer its addresses while a patch is under way. `edits` also numbers the incarnations.
No deadlock: `Restart` is always possible.

`Reconciliation` is what the controller promises, without events, queue and reads: of each
Gateway it has what is `wanted`, what was last `done`, and whether it is `settled`. A change
never settles anything and unsettles what it concerns; work changes nothing that is settled
and settles only what was done as it is wanted. In `GatewayController`, `Wanted` is the
Gateway's relevant part with the parameters it names, `Known` is the same from `seen`, and
`Settled` are the names for which nothing is under way. `ReconciledAsItIs` is about states
and about Gateways that exist; this refinement is about steps, and deletions too: it forbids
that a change settles a Gateway by accident (the deletion of a Gateway that waits only for an
event of its parameters would, if it were not an event itself), and that anything is
reconciled that nobody asked for.

Fairness (`FairSpec`). Handlers and the worker are goroutines that run while they can (weak
fairness of each of their steps). Requests are taken from the queue in turn, so one that is
in it again and again is taken (strong fairness of `Reconcile(k)`, for each name; the action
only takes the request). Nothing is assumed of users, restarts and answers: where a call can
fail, a failure is a step of the same weakly fair action or of `GetFails`, and may be
the outcome every time. `GatewaysSettle` therefore says that each Gateway comes to rest or has
a reason not to: restarts without end, calls for this Gateway that fail without end
(`CallFails`: the read of the Namespace, a read that fails although the object is there, an
error of helm), or a lookup that cannot succeed (`Unresolvable`), whose request is
returned with an error and tried again. At this commit the reason is always the Namespace. What
the property rules out is a controller that keeps itself busy: by the events of its own
patches, or by errors for Gateways that are gone or have nothing to provision.

The safety properties except three things, all of them the code's behaviour: the retry (Findings,
4), addresses that vanish (`getDesiredAddresses` is nil, and a merge patch leaves the old
ones), and changes of the class or its default, which this controller does not watch.

#### Proofs (`GatewayControllerProofs`)

For any Gateways, Services, parameters, classes and any number of changes, failures and
restarts:

| theorem | states |
|---|---|
| `NoChangeMissed` | `Spec => []ReconciledAsItIs` |
| `AddressesFollow` | `Spec => []AddressesFollowService` |
| `AddressesOfOwnService` | `Spec => AddressesAreOwn` |
| `KeepsPromise` | `Spec => ImplementsReconciliation` |
| `OneModeOnly` | `Spec => []ResultHasOneMode` |

Assumptions, in `GatewayController`: there are finitely many keys, and namespace and name
make up a key (`NamesAssumption`); nil is none of the objects, and a struct that another is
merged into stays a struct (`NilAssumption`); what the process finds at its start is of the
types the API server admits (`ClustersAssumption`).

The properties speak of Gateways for which nothing is under way, and say nothing in all
other states; so the inductive invariant `ControllerInv` is about what is under way.

* `EventsType`, `ClusterType`: types. No Gateway has a uid still to be given out, so one
  that is made again has another.
* `WorkerInv`: the Gateway that `Reconcile` holds was not being deleted when it was read; the
  one in the cluster, if it is the same and not newer, is not either; and in front of the patch
  the Service read is controlled by the Gateway held, and the addresses are those of that
  Service. With the patch's precondition on uid and version this is `AddressesAreOwn`.
* `NothingMissed`: for each Gateway there is a request or an event that leads to one
  (`Waiting`), or everything read for it so far is still so (`Current`): by the call under
  way (`ReadIsCurrent`), or by the last one, with the addresses it left (`SeenIsCurrent`).

Each action of the cluster makes `Waiting` true where it makes `Current` false: for Gateways by
the predicates (`SetGatewayStep`), for Services by `Owns` (`ServiceStep`), for parameters by
the index (`ParametersStep`). The index is asked when the event is handled, so an annotation
may change first; but then an event of that Gateway is pending, which is why `Waiting` is a
disjunction and not a function of the change. `HandlePends` says that a handler turns an
event into a request for everybody that waited for it. `Reconcile` takes the request first
and reads after it, so it may drop `Waiting` (`ReconcileStep`), and each read extends
`ReadIsCurrent`. The patch keeps it since it changes nothing that `Relevant` counts
(`PatchedParts`). After a `Restart` every Gateway has an event (`EverythingListed`).
`KeepsPromise` uses the same invariant at both ends of a step: what is settled is known as it
is wanted (`SettledStates`). A step of the cluster leaves everybody waiting who waited
(`ChangeStep`): a Gateway that waited only because it names parameters with a pending event
may be deleted or annotated anew, but then it has an event of its own. So the Gateways that
are settled after the step were settled before, and as `Known` has not changed, neither has
what is wanted of them. Every other step is work (`WorkStep`): it leaves `Wanted` alone, the
patch too since `Relevant` does not count addresses, and `seen` of every Gateway but the one
that is reconciled, which is not settled. In the beginning every Gateway has an event.
`SettledMeansDone` (`ReconciliationProofs`) draws the conclusion in `Reconciliation` itself,
for whatever implements it: what is settled was last worked on as it is wanted.
`OneModeOnly` needs `ModeInv` besides: specs have one mode, and the merge keeps it
(`MergeKeepsMode`).

## 4. Pods, probe server and start-up

### `LocalityPods`

The collection that `UniqueClients` reads: pods with the locality of their node. The
cluster (`apiPods`, `apiNodes`) changes at any time; the two informers follow it
independently (`PodEvent`, `NodeEvent`), skipping states they did not see. `Process` is
the goroutine of the joined collection: it takes an event, recomputes the pods concerned
and remembers which node each one asked for (`fetched`), as `krt.FetchOne` does.
Propagation is by krt and external; what is computed is the code's.

`AugmentedIsCurrent` compares with `Wanted`, which is written from the cluster alone.
`SameLabelsSameLocality` needs pods that carry no topology labels.

### `LocalityClients`

`LocalityPods` with its reader: streams look their pod up (`GetKey`) and register later,
under the lock (`add`), with what they found. The bookkeeping is that of
`ConnectedClients`, whose `Connect` and `Leave` are part of `add` and `cleanup`; that
the reference-counted maps implement it is `Refinement`. All proxies have one role and
namespace, so a client is named by its augmented labels. `ClientHasLocalityOfPod` is what
the naming is for: the client keeps the locality of its first stream, and a stream whose
pod has another locality by now does not join it. Pods with topology labels of their own
are excepted: they can have the labels of another zone.

Run `clients` (two pods, two nodes of which one exists at the start, two streams, three
changes of the cluster) checks `AugmentedIsCurrent`, `SameLabelsSameLocality`,
`AugmentedConverges` and `ClientHasLocalityOfPod`. Three changes make two pods and move or
relabel a node, or make a pod whose node comes, changes and goes. Fairness is that of
the informers and of the collection's goroutine; the cluster and the proxies need do
nothing, and `MaxEdits` makes the cluster quiet in the end, as `AugmentedConverges` needs.

#### Proofs (`LocalityClientsProofs`)

For any pods, nodes, labels, streams and any number of changes: `PodsAreCurrent`
(`[]AugmentedIsCurrent`), `LabelsDecideLocality` (`[]SameLabelsSameLocality`) and
`ClientsHaveOneLocality` (`ClientHasLocalityOfPod`), each from `SpecClients`. The only
assumption, `NodesAssumption`, is about types: pods name nodes or none.

`AugmentedIsCurrent` speaks of the states at rest. Its inductive invariant `PodInv` says what
holds before: `JoinInv`, a pod without a pending event of its own is remembered under its
node, and is as `augmentPodLabels` would make it now unless an event of *that* node is pending.
The event of a node reaches the pods that are remembered under it, so both halves are needed:
a pod that had asked for nothing, or for another node, would never be recomputed. In the states
in between, `LocalityInv`: also an outdated pod was made with one locality, which gives both
its labels and its locality. Hence labels name the locality of a pod without topology labels
(`PlainIsCoherent`) at all times, and a stream that carries what it found to `add` still
carries a coherent pair (`ClientInv`). The result of the join at rest is compared with
`Wanted` in `AugmentsAsWanted`.

### `ProbeServer`

The two goroutines that `StartProbeServer` starts, and the variable they share. The
race between the write and the read is a choice between nil and the server. Shutdown may
overtake `ListenAndServe`, and a server may fail when it begins to listen or while it serves
(`ServeFails`), which is only logged. Run `probe` has three servers, two on one port, and a
context cancelled at any point, before the first call included. Fairness: goroutines that
can run do; nobody need cancel and no server need fail. `CreatedServerStops` is about servers
that exist when the second goroutine wakes up. For one that is created later it does not hold,
in the model as in the code: see Findings. `ShutdownIsFinal` says that those are the only
servers that outlive the context: one that was shut down does not answer, also if there was
no listener yet that could be closed.

`StaysDown` (`ProbeServerProofs`) proves `ShutdownIsFinal` for any servers and ports. Its invariant
`StopInv` goes through `inShutdown`: `Shutdown` leaves it set, and `ListenAndServe`, which may
come later, does not begin to serve when it is.

### `Startup`

The main goroutine from `RunE` to `ControllerBuilder.Start`. Each call that may fail for
reasons outside the program is followed by `Fatal`; the probe server, the xDS server and
the informers run beside it, and the API server comes and goes. `collection` is the
variable of the same name of `UniqueClients`, where `buildCollection` may happen at any
time: `Startup` shows where it really happens, after the xDS server serves and before
any informer runs. The command uses `context.Background()`, so nothing is ever cancelled
and `GracefulStop` is unreachable.

Run `startup` checks `InformersComplete`, `RefusalsEnd` and `SyncCompletes`. Fairness:
the main goroutine and the server's goroutine are scheduled, and a running informer
lists again until it succeeds (weak fairness: a success needs the API server to stay up
long enough). `SyncCompletes` takes "the API server stays reachable" as its premise;
without it `RunAndWait`, which has no timeout, waits for ever. There is no bound: the
state space is finite. At this commit start-up always ends in `Start`, because the scheme
is empty: see Findings.

`StartupComplete` (`StartupProofs`) proves `InformersComplete` for any set of informers. Its
invariant `OrderInv` says at each step of the main goroutine what is registered, what runs
and whether the callbacks have their collection.

Deadlock is not checked in these runs: the cluster becomes quiet, the servers close, the
process exits.

## 5. Findings

Each of these is a run with expected result `violation`; `PROJECT.json` quotes the lines.

1. `fetch`: `OnFetchRequest` dereferences the pod it did not find.
2. `merge_windows`: `merge.go:204` merges the wrong field into `GMSACredentialSpecName`.
3. `lookup_override`: `deployer.go:297` ignores what the merge returns.
4. `controller_retry`: `gw_controller.go:74` drops `result.Requeue`, so a status update that
   failed is not tried again.
5. `merge_empty`: an empty map in an override (`{}` in the manifest) erases the entries of the
   default. `deepMergeMaps` returns `src` when it is empty (`merge.go:29`); its comment says
   that all entries of `src` are added to `dst` if neither is nil. `mergeCustomSidecars`
   (`merge.go:520`) differs from its comments the other way: empty sidecars do not replace.

Part of the models, without a run of their own:

* `getRef` splits `POD_NAME.NAMESPACE` at the first dot, so a pod with a dot in its name is
  looked up in the wrong namespace and its stream is refused.
* A context cancelled before the probe server exists leaves the server running for ever:
  `probes.go:58` reads the variable once, finds nil and is done.
* `SchemeBuilder` is empty although `DefaultScheme` promises "all the types registered for
  fgateway", so `watchGatewayClass` fails and the process exits once the caches have synced.
* A load balancer that loses its addresses leaves them in the Gateway's status: nil
  addresses are not part of the merge patch.
* `slices.Equal` compares pointers to address types (`gw_controller.go:100`), so the status
  is patched at every `Reconcile`, also when the addresses are the same; the patch then
  changes nothing and leads to no event.
* `watchGateway` is never registered, `gw_controller.go:36` looks up a Namespace with an
  empty name, `NewDeployer` does not keep the chart it loads, and the directive that should
  embed it (`//gp:embed`) is misspelt: the model allows the failures that follow.

Seen while reading, and not modelled: merging probes can leave two handlers, which the API
server rejects; `isOurGateway` is never set, so the predicate of the Gateway watch would
call a nil function; `healthz.go:5` says that the probe listens on 8765, the default is 8080.

## 6. What is only model-checked, and what is left out

Every safety property of a passing run is proved. Only model-checked are the liveness
properties `PublishedConverges`, `AugmentedConverges`, `GatewaysSettle`,
`CreatedServerStops`, `RefusalsEnd` and `SyncCompletes` (liveness under fairness is out of the prover's reach).

Not modelled: the FNV arithmetic of the label hash (a constant function, not assumed
injective; a collision would make two groups of proxies share a snapshot); the contents of
snapshots, which nothing in the repository fills yet; helm rendering, and the loading of the
chart at start-up; the generated clientset, informer factory and OpenAPI schema, which
nothing in the program uses; logging, settings, flags. `ReconcileGatewayClass` does nothing.
