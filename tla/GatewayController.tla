-------------------------- MODULE GatewayController --------------------------
(***************************************************************************)
(* The Gateway controller (controller/controller.go, gw_controller.go) and *)
(* Deployer.GetObjsToDeploy: watches that turn changes of the cluster into *)
(* requests, and Reconcile, which looks up the parameters of the Gateway,  *)
(* renders its objects and copies the addresses of its Service into its    *)
(* status.  The controller is the one that watchGateway builds; nothing    *)
(* calls watchGateway yet, and the clients of Reconcile (the API server,   *)
(* the namespace it asks for, the helm library) may answer anything here:  *)
(* at this commit the namespace is asked for by an empty name and the      *)
(* deployer has no chart, so the answers are always errors.                *)
(*                                                                         *)
(* Reads are served from the caches of the manager's informers; gateways,  *)
(* services and gatewayParameters are these caches, and an edit is the     *)
(* arrival of a change in one.  Events wait until their handler runs.      *)
(***************************************************************************)
EXTENDS Naturals, SequencesExt

CONSTANTS
  Nil, Zero, Gateways, ClassNames, ParametersRefs, Keys, KubeConfigs, SelfManaged,
  Names,          \* Gateways of the cluster: [Namespace, Name]
  ServiceSpecs,   \* states of a Service: [Type, Ingress, ClusterIPs, ClusterIP]
  Clusters,       \* what the process may find: classes, parameters, Gateways, Services
  MaxEdits        \* bound on the changes of the cluster

VARIABLES
  gatewayClasses, gatewayParameters, pc, gw, gwp, paramRef, result, \* see the lookup
  gateways,  \* name -> [uid, version, addresses, deleting and the spec], or Nil
  services,  \* name of a Gateway -> its Service: [controller, spec], or Nil
  edits,     \* number of changes
  events,    \* kind -> events that its handler has not seen
  queue,     \* requests that wait
  step,      \* where Reconcile is, "idle" between two calls
  req,       \* its request
  svc,       \* the Service updateStatus has read
  seen       \* history: what the last call without an error read, and result.Requeue

clusterVars == <<gatewayClasses, gatewayParameters, gateways, services, edits>>
callVars == <<pc, gw, gwp, paramRef, result>>
workerVars == <<callVars, step, req, svc>>
vars == <<clusterVars, events, queue, workerVars, seen>>

Lookup == INSTANCE GatewayParametersLookup

-----------------------------------------------------------------------------
(* Watches *)

\* What the generation of a Gateway counts: its spec and the deletion timestamp.
GenerationChanged(old, new) == old.class # new.class \/ old.deleting # new.deleting

AnnotationChanged(old, new) == old.annotation # new.annotation

\* Mutant: only the spec counts.
SpecPredicate(old, new) == old = Nil \/ new = Nil \/ GenerationChanged(old, new)

\* Mutant: deletions do not pass.
LivePredicate(old, new) ==
  new # Nil /\ (old = Nil \/ AnnotationChanged(old, new) \/ GenerationChanged(old, new))

\* The predicates of the Gateway watch; creations and deletions pass.
GatewayPredicate(old, new) ==
  \/ old = Nil \/ new = Nil
  \/ AnnotationChanged(old, new)
  \/ GenerationChanged(old, new)

\* Mutant: the status of no child counts.
ignoreStatusOfAll(kind) == kind \in {"Deployment", "Service"}

shouldIgnoreStatusChild(kind) == kind = "Deployment"

\* The owners of a Service before and after a change, as far as they are its controller.
\* A Service that it owns carries the name of the Gateway.
OwnerEvent(old, new) ==
  /\ \E s \in {old, new} : s # Nil /\ s.controller # Nil
  /\ \/ ~shouldIgnoreStatusChild("Service")
     \/ old = Nil \/ new = Nil
     \/ [old.spec EXCEPT !.Ingress = <<>>] # [new.spec EXCEPT !.Ingress = <<>>]

Notify(kind, key, passes) ==
  events' = IF passes THEN [events EXCEPT ![kind] = Append(@, key)] ELSE events

\* The field index GatewayParamsField.
gatewayToParams(g) == IF g.annotation = Nil THEN {} ELSE {g.annotation}

\* The Gateways that use the GatewayParameters of this key.
MapParameters(key) ==
  {k \in Names : /\ gateways[k] # Nil
                 /\ k.Namespace = key.Namespace
                 /\ key.Name \in gatewayToParams(gateways[k])}

\* A handler takes the oldest event of its kind.  For a child it is the name of the
\* Gateway that owns it.
Handle(kind) ==
  LET key == Head(events[kind]) IN
  /\ events[kind] # <<>>
  /\ events' = [events EXCEPT ![kind] = Tail(@)]
  /\ queue' = queue \cup (IF kind = "GatewayParameters" THEN MapParameters(key) ELSE {key})
  /\ UNCHANGED <<clusterVars, workerVars, seen>>

-----------------------------------------------------------------------------
(* External: the cluster changes. *)

NewGateway(k, g, uid) ==
  [namespace |-> k.Namespace, annotation |-> g.annotation, class |-> g.class,
   uid |-> uid, version |-> 0, deleting |-> FALSE, addresses |-> <<>>]

Edit == edits < MaxEdits /\ edits' = edits + 1 /\ UNCHANGED <<queue, workerVars, seen>>

SetGateway(k, new) ==
  /\ Edit
  /\ gateways' = [gateways EXCEPT ![k] = new]
  /\ Notify("Gateway", k, GatewayPredicate(gateways[k], new))
  /\ UNCHANGED <<gatewayClasses, gatewayParameters, services>>

CreateGateway(k, g) == gateways[k] = Nil /\ SetGateway(k, NewGateway(k, g, edits + 2))

UpdateGateway(k, g) ==
  /\ gateways[k] # Nil
  /\ SetGateway(k, [gateways[k] EXCEPT !.annotation = g.annotation, !.class = g.class,
                                       !.version = @ + 1])

\* A Gateway with finalizers is marked first.
DeleteGateway(k) ==
  /\ gateways[k] # Nil
  /\ \/ SetGateway(k, Nil)
     \/ /\ ~gateways[k].deleting
        /\ SetGateway(k, [gateways[k] EXCEPT !.deleting = TRUE, !.version = @ + 1])

EditService(k, s) ==
  /\ Edit
  /\ services[k] # s
  /\ services' = [services EXCEPT ![k] = s]
  /\ Notify("Service", k, OwnerEvent(services[k], s))
  /\ UNCHANGED <<gatewayClasses, gatewayParameters, gateways>>

EditParameters(key, spec) ==
  /\ Edit
  /\ Lookup!EditParameters(key, spec)
  /\ Notify("GatewayParameters", key, TRUE)
  /\ UNCHANGED <<gateways, services>>

\* This controller does not watch classes.
EditClass(c, class) ==
  /\ Edit
  /\ Lookup!EditClass(c, class)
  /\ UNCHANGED <<gateways, services, events>>

\* A Service of this name belongs to the Gateway of the name, to an earlier one (0), to
\* none, or does not exist.
Services(k) ==
  LET uids == IF gateways[k] = Nil THEN {0, Nil} ELSE {gateways[k].uid, 0, Nil}
  IN [controller : uids, spec : ServiceSpecs] \cup {Nil}

-----------------------------------------------------------------------------
(* Reconcile *)

\* What of a Gateway decides about its objects.
Relevant(g) == IF g = Nil THEN Nil ELSE <<g.uid, g.class, g.annotation, g.deleting>>

\* Returning ends the lifetime of the local variables.
Forget ==
  /\ step' = "idle"
  /\ pc' = "idle"
  /\ req' = Nil /\ gw' = Nil /\ gwp' = Nil
  /\ paramRef' = Nil /\ result' = Nil /\ svc' = Nil

\* return ctrl.Result{}, err: the request is added again, at some later time.
Fail ==
  /\ Forget
  /\ queue' = queue \cup {req}
  /\ UNCHANGED <<clusterVars, events, seen>>

\* return ctrl.Result{}, nil, whatever the variable result.Requeue says.
Finish(g, requeue) ==
  /\ Forget
  /\ seen' = [seen EXCEPT ![req] =
                [gateway |-> Relevant(g), own |-> gwp, requeue |-> requeue,
                 provisioned |-> result # Nil /\ result.SelfManaged = Nil]]
  /\ UNCHANGED queue

Done(g) == Finish(g, FALSE) /\ UNCHANGED <<clusterVars, events>>

AutoProvision == TRUE

\* The worker takes a request.
Reconcile(k) ==
  /\ step = "idle"
  /\ k \in queue
  /\ queue' = queue \ {k}
  /\ req' = k
  /\ step' = "namespace"
  /\ UNCHANGED <<clusterVars, events, callVars, svc, seen>>

\* The Namespace, which needs an annotation unless Gateways are provisioned everywhere.
\* It is asked for by an empty name, so the answer may always be an error.
GetNamespace ==
  /\ step = "namespace"
  /\ \/ Fail
     \/ \E autoDeploy \in BOOLEAN :
          IF AutoProvision \/ autoDeploy
          THEN /\ step' = "gateway"
               /\ UNCHANGED <<clusterVars, events, queue, callVars, req, svc, seen>>
          ELSE Forget /\ UNCHANGED <<clusterVars, events, queue, seen>>

\* Nothing is left to do for a Gateway that is gone, or about to go.
GetGateway ==
  LET g == gateways[req] IN
  /\ step = "gateway"
  /\ IF g = Nil \/ g.deleting
     THEN Done(g)
     ELSE /\ gw' = g
          /\ step' = "call"
          /\ UNCHANGED <<clusterVars, events, queue, pc, gwp, paramRef, result, req, svc, seen>>

LookupParameters ==
  /\ \/ step = "call" /\ step' = "lookup" /\ Lookup!getGatewayParametersForGateway(gw)
     \/ /\ step = "lookup" /\ UNCHANGED step
        /\ Lookup!getGatewayClassFromGateway \/ Lookup!getGatewayParametersForGatewayClass
  /\ UNCHANGED <<gateways, services, edits, events, queue, req, svc, seen>>

\* The Service among the rendered objects: the chart has one, named after the release,
\* that is after the Gateway, in whose namespace it is put.
renderChartToObjects(g) == [Namespace |-> g.namespace, Name |-> req.Name]

\* Mutant: to have nothing to provision is an error.
GetObjsOrFail ==
  /\ step = "lookup"
  /\ pc = "idle"
  /\ \/ Fail
     \/ /\ result # Nil /\ result.SelfManaged = Nil
        /\ step' = "service"
        /\ UNCHANGED <<clusterVars, events, queue, callVars, req, svc, seen>>

\* After the lookup: an error, nothing to provision, an error of helm or the objects.
\* getValues makes the same values of all parameters.
GetObjsToDeploy ==
  /\ step = "lookup"
  /\ pc = "idle"
  /\ \/ result = Nil /\ Fail
     \/ result # Nil /\ result.SelfManaged # Nil /\ Done(gw)
     \/ /\ result # Nil /\ result.SelfManaged = Nil
        /\ \/ Fail
           \/ /\ step' = "service"
              /\ UNCHANGED <<clusterVars, events, queue, callVars, req, svc, seen>>

-----------------------------------------------------------------------------
(* updateStatus *)

Address(type, value) == IF value = Nil THEN <<>> ELSE <<[Type |-> type, Value |-> value]>>

getDesiredAddresses(spec) ==
  IF spec.Type = "LoadBalancer"
  THEN FlattenSeq([i \in DOMAIN spec.Ingress |->
                     Address("Hostname", spec.Ingress[i].Hostname) \o
                     Address("IPAddress", spec.Ingress[i].IP)])
  ELSE FlattenSeq([i \in DOMAIN spec.ClusterIPs |-> Address("IPAddress", spec.ClusterIPs[i])])
       \o (IF spec.ClusterIPs = <<>> THEN Address("IPAddress", spec.ClusterIP) ELSE <<>>)

\* slices.Equal compares the pointers Type, which differ, and not what they point to.
SameAddresses(a, b) == a = <<>> /\ b = <<>>

\* Mutant: the uid of the controller is not looked at.
hasController(s) == s.controller # Nil

\* The Service is controlled by the Gateway that was read, not by another of its name.
isController(s) == s.controller # Nil /\ gw.uid = s.controller

\* Up to the patch.
updateStatus ==
  LET s == services[renderChartToObjects(gw)] IN
  /\ step = "service"
  /\ IF s = Nil \/ ~isController(s)
        \/ SameAddresses(getDesiredAddresses(s.spec), gw.addresses)
     THEN Done(gw)
     ELSE /\ svc' = s
          /\ gw' = [gw EXCEPT !.addresses = getDesiredAddresses(s.spec)]
          /\ step' = "patch"
          /\ UNCHANGED <<clusterVars, events, queue, pc, gwp, paramRef, result, req, seen>>

\* The patch is the whole object with its resourceVersion and uid, so it conflicts if
\* the Gateway has changed, and it has no field for an empty list of addresses.
Patched(g) ==
  IF gw.addresses \in {<<>>, g.addresses} THEN g
  ELSE [g EXCEPT !.addresses = gw.addresses, !.version = @ + 1]

Conflict == \/ gateways[req] = Nil
            \/ gateways[req].uid # gw.uid \/ gateways[req].version # gw.version

\* The request fails for other reasons too; the error only sets result.Requeue.
Patch ==
  /\ step = "patch"
  /\ \/ Finish(gw, TRUE) /\ UNCHANGED <<clusterVars, events>>
     \/ /\ ~Conflict
        /\ gateways' = [gateways EXCEPT ![req] = Patched(@)]
        /\ Notify("Gateway", req, GatewayPredicate(gateways[req], Patched(gateways[req])))
        /\ Finish(gw, FALSE)
        /\ UNCHANGED <<gatewayClasses, gatewayParameters, services, edits>>

\* client.Get of the Gateway, a class, parameters or the Service fails although the object
\* is there.
GetFails ==
  \/ step \in {"gateway", "call"} /\ Fail
  \/ step = "lookup" /\ pc # "idle" /\ Fail
  \/ step = "service" /\ Finish(gw, TRUE) /\ UNCHANGED <<clusterVars, events>>

-----------------------------------------------------------------------------
(* The process *)

Present(objects) == {k \in DOMAIN objects : objects[k] # Nil}

\* The informers list everything anew: one event for each object there is.
InitialEvents(gws, svcs, params) ==
  [Gateway |-> SetToSeq(Present(gws)), GatewayParameters |-> SetToSeq(Present(params)),
   Service |-> SetToSeq({k \in Present(svcs) : svcs[k].controller # Nil})]

\* The process ends at any point and starts again.
Restart ==
  /\ Forget
  /\ events' = InitialEvents(gateways, services, gatewayParameters)
  /\ queue' = {}
  /\ UNCHANGED <<clusterVars, seen>>

\* The first start.
Init ==
  /\ \E c \in Clusters :
       /\ gatewayClasses = c.gatewayClasses
       /\ gatewayParameters = c.gatewayParameters
       /\ gateways = [k \in Names |-> NewGateway(k, c.gateways[k], 1)]
       /\ services = c.services
  /\ edits = 0
  /\ events = InitialEvents(gateways, services, gatewayParameters)
  /\ queue = {}
  /\ step = "idle" /\ pc = "idle"
  /\ req = Nil /\ gw = Nil /\ gwp = Nil
  /\ paramRef = Nil /\ result = Nil /\ svc = Nil
  /\ seen = [k \in Names |-> [gateway |-> Nil, own |-> Nil, requeue |-> FALSE,
                              provisioned |-> FALSE]]

Next ==
  \/ \E k \in Names, g \in Gateways : CreateGateway(k, g) \/ UpdateGateway(k, g)
  \/ \E k \in Names : DeleteGateway(k) \/ Reconcile(k)
  \/ \E k \in Names : \E s \in Services(k) : EditService(k, s)
  \/ \E key \in Keys, spec \in Lookup!Specs \cup {Nil} : EditParameters(key, spec)
  \/ \E c \in ClassNames, class \in Lookup!Classes \cup {Nil} : EditClass(c, class)
  \/ \E kind \in DOMAIN events : Handle(kind)
  \/ GetNamespace \/ GetGateway \/ LookupParameters \/ GetObjsToDeploy
  \/ updateStatus \/ Patch \/ GetFails
  \/ Restart

Spec == Init /\ [][Next]_vars

\* Goroutines that can run do, and the requests in the queue are taken in turn.  Nothing
\* is said of the answers: a call may fail every time.
FairSpec ==
  /\ Spec
  /\ \A kind \in {"Gateway", "GatewayParameters", "Service"} : WF_vars(Handle(kind))
  /\ \A k \in Names : SF_vars(Reconcile(k))
  /\ WF_vars(GetNamespace) /\ WF_vars(GetGateway)
  /\ WF_vars(LookupParameters) /\ WF_vars(GetObjsToDeploy)
  /\ WF_vars(updateStatus) /\ WF_vars(Patch)

-----------------------------------------------------------------------------
(* What is assumed of the constants *)

Namespaces   == {k.Namespace : k \in Names}
Annotations  == {g.annotation : g \in Gateways}
ClassesUsed  == {g.class : g \in Gateways}
AddressLists == {<<>>} \cup {getDesiredAddresses(spec) : spec \in ServiceSpecs}

GatewayObjects ==
  [namespace : Namespaces, annotation : Annotations, class : ClassesUsed,
   uid : Nat, version : Nat, deleting : BOOLEAN, addresses : AddressLists]

ServiceObjects == [controller : Nat \cup {Nil}, spec : ServiceSpecs]

\* There are finitely many objects, and namespace and name are all of the key of one.
ASSUME NamesAssumption ==
  /\ IsFiniteSet(Names) /\ IsFiniteSet(Keys)
  /\ \A k \in Names : k = [Namespace |-> k.Namespace, Name |-> k.Name]

\* nil is none of the values there are, and a struct that is merged into stays one.
ASSUME NilAssumption ==
  /\ Nil \notin Nat /\ Nil \notin Names
  /\ Nil \notin GatewayObjects /\ Nil \notin ServiceObjects
  /\ Nil \notin KubeConfigs /\ Nil # SelfManaged
  /\ \A dst, src \in KubeConfigs : Lookup!mergeKube(dst, src) # Nil

\* The process starts on a cluster that its API server admits.
ASSUME ClustersAssumption ==
  \A c \in Clusters :
    /\ c.gatewayParameters \in [Keys -> Lookup!Specs \cup {Nil}]
    /\ c.gateways \in [Names -> Gateways]
    /\ c.services \in [Names -> ServiceObjects \cup {Nil}]

-----------------------------------------------------------------------------
(* Properties *)

\* Nothing is under way for a Gateway: no event of it or of its parameters, no request.
Quiet(k) ==
  /\ k \notin queue /\ req # k
  /\ \A kind \in {"Gateway", "Service"} : \A i \in DOMAIN events[kind] : events[kind][i] # k
  /\ \A i \in DOMAIN events.GatewayParameters : k \notin MapParameters(events.GatewayParameters[i])

\* However the parameters change while they are looked up, the rendering starts from
\* parameters with one mode, and never for a Gateway that is self-managed by its own.
ResultHasOneMode == Lookup!ResultHasOneMode

\* No change is missed: when nothing is under way for a Gateway, the last Reconcile has
\* read it, and the GatewayParameters that it names, as they are now.  This needs the
\* predicates of the watch, the index behind the map function, and the requests that
\* are added while the same request is being handled.
ReconciledAsItIs ==
  \A k \in Names :
    LET g == gateways[k] IN
    g # Nil /\ Quiet(k) =>
      /\ seen[k].gateway = Relevant(g)
      /\ ~g.deleting /\ g.annotation # Nil
           => seen[k].own = Lookup!GetParameters([Namespace |-> k.Namespace,
                                                  Name |-> g.annotation])

Controls(k) == /\ gateways[k] # Nil /\ services[k] # Nil
               /\ ~gateways[k].deleting
               /\ services[k].controller = gateways[k].uid

\* The addresses of a Gateway that was provisioned follow its Service, also through
\* changes of the Service's status, unless the last update failed (the code drops the
\* retry) or the Service has no address (a merge patch cannot empty a list).
AddressesFollowService ==
  \A k \in Names :
    LET wanted == getDesiredAddresses(services[k].spec) IN
    Quiet(k) /\ Controls(k) /\ seen[k].provisioned /\ ~seen[k].requeue
      => wanted = <<>> \/ gateways[k].addresses = wanted

\* A Gateway gets only the addresses of a Service that belongs to this very incarnation
\* of it, although Gateway and Service may be deleted and made again under the same
\* names between the read of the one, the read of the other and the patch.
AddressesAreOwn ==
  [][\A k \in Names :
       gateways[k] # Nil /\ gateways'[k] # Nil /\ gateways'[k].uid = gateways[k].uid
         /\ gateways'[k].addresses # gateways[k].addresses
         => svc.controller = gateways[k].uid /\ ~gateways[k].deleting]_vars

\* What decides about the objects of a Gateway with these relevant parts: they, and its own
\* parameters if it names any and is not about to go.
Deciding(relevant, own) ==
  <<relevant, IF relevant # Nil /\ relevant[3] # Nil /\ ~relevant[4] THEN own ELSE Nil>>

Wanted ==
  [k \in Names |->
     IF gateways[k] = Nil THEN Nil
     ELSE Deciding(Relevant(gateways[k]),
                   Lookup!GetParameters([Namespace |-> k.Namespace,
                                         Name |-> gateways[k].annotation]))]

Known == [k \in Names |-> Deciding(seen[k].gateway, seen[k].own)]

Settled == {k \in Names : Quiet(k)}

Promise == INSTANCE Reconciliation WITH wanted <- Wanted, done <- Known, settled <- Settled

\* The controller is level-triggered: a change that matters always leaves its Gateway
\* unsettled, whatever was under way, and a Gateway settles only by a Reconcile that has
\* read it as it is now; one that is settled is not reconciled from something else.
ImplementsReconciliation == Promise!Spec

\* A call for the Gateway fails that could have succeeded.
CallFails(k) ==
  /\ req = k
  /\ \/ GetFails
     \/ step = "namespace" /\ Fail
     \/ step = "lookup" /\ pc = "idle" /\ result # Nil /\ result.SelfManaged = Nil /\ Fail

\* The lookup cannot succeed: no class with a reference, or what is named does not exist.
Unresolvable(k) ==
  LET g == gateways[k]
      class == IF g.class \in ClassNames THEN gatewayClasses[g.class] ELSE Nil
  IN /\ g # Nil /\ ~g.deleting
     /\ \/ class = Nil \/ class.parametersRef = Nil
        \/ Lookup!GetParameters(class.parametersRef) = Nil
        \/ /\ g.annotation # Nil
           /\ Lookup!GetParameters([Namespace |-> k.Namespace, Name |-> g.annotation]) = Nil

\* A Gateway settles once the changes end, one that is gone or self-managed too, unless
\* the process restarts or calls for this Gateway fail again and again: Reconcile does not
\* bring about the events that start it again, although it patches the status every time,
\* and returns errors only where trying again can help.
GatewaysSettle ==
  \A k \in Names :
    \/ <>[](Quiet(k) \/ Unresolvable(k))
    \/ []<><<Restart>>_vars
    \/ []<><<CallFails(k)>>_vars

\* "result.Requeue = true": a status update that failed is tried again.
FailedUpdateIsRetried == \A k \in Names : seen[k].requeue => ~Quiet(k)
=============================================================================
