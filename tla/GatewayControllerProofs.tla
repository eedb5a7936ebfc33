---------------------- MODULE GatewayControllerProofs ----------------------
(***************************************************************************)
(* Safety of the Gateway controller: no change of the cluster is missed,   *)
(* the addresses of a Gateway are those of its own Service, and what is    *)
(* rendered has one mode, for any number of Gateways, Services, parameters *)
(* and changes.                                                            *)
(***************************************************************************)
EXTENDS GatewayController, FiniteSetTheorems, SequenceTheorems, TLAPS

-----------------------------------------------------------------------------
(* The inductive invariant *)

Kinds == {"Gateway", "GatewayParameters", "Service"}

EventKeys(kind) == IF kind = "GatewayParameters" THEN Keys ELSE Names

EventsType ==
  /\ events = [kind \in Kinds |-> events[kind]]
  /\ \A kind \in Kinds : events[kind] \in Seq(EventKeys(kind))

ClusterType ==
  /\ gatewayParameters \in [Keys -> Lookup!Specs \cup {Nil}]
  /\ gateways \in [Names -> GatewayObjects \cup {Nil}]
  /\ services \in [Names -> ServiceObjects \cup {Nil}]
  /\ edits \in Nat
  /\ \A k \in Names : gateways[k] # Nil =>
       gateways[k].namespace = k.Namespace /\ gateways[k].uid < edits + 2

Pending(kind, key) == \E i \in DOMAIN events[kind] : events[kind][i] = key

\* Something is under way that will make Reconcile run for the Gateway.
Waiting(k) ==
  \/ k \in queue
  \/ Pending("Gateway", k)
  \/ Pending("Service", k)
  \/ \E key \in Keys : Pending("GatewayParameters", key) /\ k \in MapParameters(key)

Steps == {"idle", "namespace", "gateway", "call", "lookup", "service", "patch"}

\* The Gateway that Reconcile works on was not being deleted when it was read, and it is
\* not now unless its version is another; the Service to be copied from is its own.
WorkerInv ==
  /\ queue \subseteq Names
  /\ seen = [k \in Names |-> seen[k]]
  /\ step \in Steps
  /\ IF step = "idle" THEN req = Nil ELSE req \in Names
  /\ step \in Steps \ {"idle", "namespace", "gateway"} =>
       /\ gw \in GatewayObjects
       /\ gw.namespace = req.Namespace /\ ~gw.deleting /\ gw.uid < edits + 2
       /\ gateways[req] # Nil /\ gateways[req].uid = gw.uid =>
            /\ gw.version <= gateways[req].version
            /\ gw.version = gateways[req].version => ~gateways[req].deleting
  /\ step = "patch" =>
       /\ svc \in ServiceObjects /\ svc.controller = gw.uid
       /\ gw.addresses = getDesiredAddresses(svc.spec)

Own(k) == Lookup!GetParameters([Namespace |-> k.Namespace, Name |-> gateways[k].annotation])

\* What the call under way for the Gateway has read so far is still so.
ReadIsCurrent(k) ==
  /\ step \notin {"namespace", "gateway"} => Relevant(gw) = Relevant(gateways[k])
  /\ step \in {"lookup", "service", "patch"} /\ gateways[k].annotation # Nil => gwp = Own(k)
  /\ step = "patch" => svc = services[k]

\* What the last call for the Gateway has read is still so, and so is what it did.
SeenIsCurrent(k) ==
  /\ seen[k].gateway = Relevant(gateways[k])
  /\ ~gateways[k].deleting /\ gateways[k].annotation # Nil => seen[k].own = Own(k)
  /\ Controls(k) /\ seen[k].provisioned /\ ~seen[k].requeue =>
       getDesiredAddresses(services[k].spec) \in {<<>>, gateways[k].addresses}

Current(k) == IF req = k THEN ReadIsCurrent(k) ELSE SeenIsCurrent(k)

\* A change that Reconcile has not seen keeps its Gateway waiting.
NothingMissed == \A k \in Names : gateways[k] # Nil => Waiting(k) \/ Current(k)

ControllerInv == EventsType /\ ClusterType /\ WorkerInv /\ NothingMissed

-----------------------------------------------------------------------------
(* Events *)

\* The list of a finite set has every element of the set.
LEMMA ListsAll ==
  ASSUME NEW S, IsFiniteSet(S)
  PROVE  /\ SetToSeq(S) \in Seq(S)
         /\ \A x \in S : \E i \in DOMAIN SetToSeq(S) : SetToSeq(S)[i] = x
<1> DEFINE n == Cardinality(S)
           list == SetToSeq(S)
<1>1. n \in Nat /\ ExistsBijection(1 .. n, S)
  BY FS_CardinalityType
<1>2. \E f \in [1 .. n -> S] : IsInjective(f)
  BY <1>1 DEF ExistsBijection, Bijection, Injection
<1>3. list \in [1 .. n -> S] /\ IsInjective(list)
  BY <1>2 DEF SetToSeq
<1>4. IsFiniteSet(1 .. n) /\ Cardinality(1 .. n) = n
  BY <1>1, FS_Interval
<1> HIDE DEF n, list
<1>5. list \in Injection(1 .. n, S)
  BY <1>3 DEF Injection
<1>6. list \in Surjection(1 .. n, S)
  BY <1>4, <1>5, FS_Injection DEF n
<1>7. list \in Seq(S)
  BY <1>1, <1>3, SeqDef
<1> QED
  BY <1>3, <1>6, <1>7 DEF Surjection, list

\* A notification that passes is pending; no other event gets lost.
LEMMA NotifyPends ==
  ASSUME EventsType, NEW kind \in Kinds, NEW key \in EventKeys(kind), NEW passes \in BOOLEAN,
         Notify(kind, key, passes)
  PROVE  /\ EventsType'
         /\ passes => Pending(kind, key)'
         /\ \A other \in Kinds : \A e : Pending(other, e) => Pending(other, e)'
<1>1. CASE ~passes
  BY <1>1 DEF Notify, EventsType, Pending
<1>2. CASE passes
  <2> DEFINE old == events[kind]
             new == Append(old, key)
  <2>1. events' = [events EXCEPT ![kind] = new]
    BY <1>2 DEF Notify
  <2>2. old \in Seq(EventKeys(kind))
    BY DEF EventsType
  <2>3. /\ new \in Seq(EventKeys(kind)) /\ Len(new) = Len(old) + 1
        /\ \A i \in 1 .. Len(old) : new[i] = old[i]
        /\ new[Len(old) + 1] = key
    BY <2>2, AppendProperties
  <2>4. DOMAIN old = 1 .. Len(old) /\ DOMAIN new = 1 .. Len(new) /\ Len(old) \in Nat
    BY <2>2, <2>3, LenProperties
  <2> HIDE DEF new
  <2>5. events'[kind] = new /\ \A other \in Kinds : other # kind => events'[other] = events[other]
    BY <2>1 DEF EventsType
  <2>6. EventsType'
    BY <2>1, <2>3, <2>5 DEF EventsType
  <2>7. \A e : Pending(kind, e) => Pending(kind, e)'
    BY <2>3, <2>4, <2>5 DEF Pending
  <2>8. Pending(kind, key)'
    BY <2>3, <2>4, <2>5 DEF Pending
  <2>9. \A other \in Kinds : other # kind => \A e : Pending(other, e) => Pending(other, e)'
    BY <2>5 DEF Pending
  <2> QED
    BY <2>6, <2>7, <2>8, <2>9
<1> QED
  BY <1>1, <1>2

\* Only the oldest event of its kind is gone when a handler takes it.
LEMMA HandlePends ==
  ASSUME EventsType, NEW kind \in Kinds, events[kind] # <<>>,
         events' = [events EXCEPT ![kind] = Tail(@)]
  PROVE  /\ EventsType'
         /\ Head(events[kind]) \in EventKeys(kind)
         /\ \A other \in Kinds : \A e :
              Pending(other, e) /\ ~(other = kind /\ e = Head(events[kind]))
                => Pending(other, e)'
<1> DEFINE old == events[kind]
           new == Tail(old)
<1>1. old \in Seq(EventKeys(kind))
  BY DEF EventsType
<1>2. /\ new \in Seq(EventKeys(kind)) /\ Len(new) = Len(old) - 1
      /\ \A i \in 1 .. Len(new) : new[i] = old[i + 1]
      /\ Head(old) = old[1] /\ Head(old) \in EventKeys(kind)
  BY <1>1, HeadTailProperties
<1>3. DOMAIN old = 1 .. Len(old) /\ DOMAIN new = 1 .. Len(new) /\ Len(old) \in Nat
  BY <1>1, <1>2, LenProperties
<1> HIDE DEF new
<1>4. events'[kind] = new /\ \A other \in Kinds : other # kind => events'[other] = events[other]
  BY DEF EventsType, new
<1>5. EventsType'
  BY <1>2, <1>4 DEF EventsType
<1>6. ASSUME NEW e, Pending(kind, e), e # Head(old) PROVE Pending(kind, e)'
  <2>1. PICK i \in 1 .. Len(old) : old[i] = e
    BY <1>3, <1>6 DEF Pending
  <2>2. i # 1 /\ i - 1 \in 1 .. Len(new)
    BY <1>2, <1>3, <1>6, <2>1
  <2>3. new[i - 1] = e
    BY <1>2, <2>1, <2>2
  <2> QED
    BY <1>3, <1>4, <2>2, <2>3 DEF Pending
<1>7. \A other \in Kinds : other # kind => \A e : Pending(other, e) => Pending(other, e)'
  BY <1>4 DEF Pending
<1> QED
  BY <1>2, <1>5, <1>6, <1>7
\* A Gateway that waits goes on waiting if no event and no request is taken.
LEMMA StillWaiting ==
  ASSUME NEW k \in Names, Waiting(k),
         k \in queue => k \in queue',
         \A kind \in Kinds : \A e : Pending(kind, e) => Pending(kind, e)',
         gateways'[k] # Nil,
         gateways[k] # Nil => gateways'[k].annotation = gateways[k].annotation
  PROVE  Waiting(k)'
<1>1. \A key \in Keys : k \in MapParameters(key) => k \in MapParameters(key)'
  BY DEF MapParameters, gatewayToParams
<1> QED
  BY <1>1 DEF Waiting, Kinds

\* Equal parts that decide about the objects.
LEMMA RelevantParts ==
  ASSUME NEW g, NEW h, g # Nil, h # Nil
  PROVE  Relevant(g) = Relevant(h) <=>
           g.uid = h.uid /\ g.class = h.class /\ g.annotation = h.annotation
             /\ g.deleting = h.deleting
BY DEF Relevant

-----------------------------------------------------------------------------
(* Changes of the cluster *)

\* A Gateway is created, changed or deleted: what the predicates of its watch drop does
\* not matter to Reconcile.
LEMMA SetGatewayStep ==
  ASSUME ControllerInv, NEW k \in Names, NEW new \in GatewayObjects \cup {Nil},
         SetGateway(k, new),
         new # Nil => new.namespace = k.Namespace,
         gateways[k] = Nil /\ new # Nil => new.uid = edits + 2,
         gateways[k] # Nil /\ new # Nil =>
           /\ new.uid = gateways[k].uid /\ new.addresses = gateways[k].addresses
           /\ new.version = gateways[k].version + 1
  PROVE  ControllerInv'
<1> DEFINE old == gateways[k]
<1>1. /\ gateways' = [gateways EXCEPT ![k] = new] /\ edits' = edits + 1
      /\ UNCHANGED <<gatewayParameters, services, queue, step, req, gw, gwp, svc, seen>>
  BY DEF SetGateway, Edit, workerVars, callVars
<1>2. gateways'[k] = new /\ \A n \in Names : n # k => gateways'[n] = gateways[n]
  BY <1>1 DEF ControllerInv, ClusterType
<1>3. old \in GatewayObjects \cup {Nil} /\ edits \in Nat
  BY DEF ControllerInv, ClusterType
<1>4. /\ EventsType'
      /\ GatewayPredicate(old, new) => Pending("Gateway", k)'
      /\ \A kind \in Kinds : \A e : Pending(kind, e) => Pending(kind, e)'
  <2>1. "Gateway" \in Kinds /\ k \in EventKeys("Gateway") /\ GatewayPredicate(old, new) \in BOOLEAN
    BY DEF Kinds, EventKeys, GatewayPredicate
  <2>2. Notify("Gateway", k, GatewayPredicate(old, new))
    BY DEF SetGateway
  <2> QED
    BY <2>1, <2>2, NotifyPends DEF ControllerInv
<1>5. ClusterType'
  <2>1. gateways' \in [Names -> GatewayObjects \cup {Nil}]
    BY <1>1 DEF ControllerInv, ClusterType
  <2>2. ASSUME NEW n \in Names, gateways'[n] # Nil
        PROVE  gateways'[n].namespace = n.Namespace /\ gateways'[n].uid < edits' + 2
    <3>1. CASE n # k
      <4>1. gateways[n].uid \in Nat
        BY <1>2, <2>2, <3>1 DEF ControllerInv, ClusterType, GatewayObjects
      <4> QED
        BY <1>1, <1>2, <2>2, <3>1, <4>1 DEF ControllerInv, ClusterType
    <3>2. CASE n = k /\ old = Nil
      BY <1>1, <1>2, <1>3, <2>2, <3>2
    <3>3. CASE n = k /\ old # Nil
      <4>1. old.uid \in Nat /\ old.uid < edits + 2
        BY <1>3, <3>3 DEF ControllerInv, ClusterType, GatewayObjects
      <4> QED
        BY <1>1, <1>2, <1>3, <2>2, <3>3, <4>1
    <3> QED
      BY <3>1, <3>2, <3>3
  <2> QED
    BY <1>1, <1>3, <2>1, <2>2 DEF ControllerInv, ClusterType
<1>6. WorkerInv'
  <2> SUFFICES ASSUME step \in Steps \ {"idle", "namespace", "gateway"}
               PROVE  /\ gw.uid < edits' + 2
                      /\ gateways'[req] # Nil /\ gateways'[req].uid = gw.uid =>
                           /\ gw.version <= gateways'[req].version
                           /\ gw.version = gateways'[req].version => ~gateways'[req].deleting
    BY <1>1 DEF ControllerInv, WorkerInv
  <2>1. /\ req \in Names /\ gw.uid \in Nat /\ gw.version \in Nat /\ gw.uid < edits + 2
        /\ gateways[req] # Nil /\ gateways[req].uid = gw.uid =>
             /\ gw.version <= gateways[req].version
             /\ gw.version = gateways[req].version => ~gateways[req].deleting
    BY DEF ControllerInv, WorkerInv, GatewayObjects
  <2>2. CASE req # k
    BY <1>1, <1>2, <1>3, <2>1, <2>2
  <2>3. CASE req = k /\ old = Nil
    BY <1>1, <1>2, <1>3, <2>1, <2>3
  <2>4. CASE req = k /\ old # Nil
    <3>1. old.version \in Nat
      BY <1>3, <2>4 DEF GatewayObjects
    <3> QED
      BY <1>1, <1>2, <1>3, <2>1, <2>4, <3>1
  <2> QED
    BY <2>2, <2>3, <2>4
<1>7. NothingMissed'
  <2> SUFFICES ASSUME NEW n \in Names, gateways'[n] # Nil, ~Waiting(n)'
               PROVE  Current(n)'
    BY DEF NothingMissed
  <2>1. CASE n # k
    <3>1. ~Waiting(n)
      BY <1>1, <1>2, <1>4, <2>1, StillWaiting
    <3>2. Current(n)
      BY <1>2, <2>1, <3>1 DEF ControllerInv, NothingMissed
    <3> QED
      BY <1>1, <1>2, <2>1, <3>2 DEF Current, ReadIsCurrent, SeenIsCurrent, Own, Controls,
                                    Lookup!GetParameters
  <2>2. CASE n = k
    <3>1. ~GatewayPredicate(old, new)
      BY <1>4, <2>2 DEF Waiting
    <3>2. old # Nil /\ new # Nil /\ new.annotation = old.annotation
          /\ new.class = old.class /\ new.deleting = old.deleting
      BY <3>1 DEF GatewayPredicate, AnnotationChanged, GenerationChanged
    <3>3. ~Waiting(k)
      BY <1>1, <1>2, <1>4, <2>2, <3>2, StillWaiting
    <3>4. Current(k)
      BY <3>2, <3>3 DEF ControllerInv, NothingMissed
    <3>5. Relevant(new) = Relevant(old)
      BY <3>2, RelevantParts
    <3> QED
      BY <1>1, <1>2, <2>2, <3>2, <3>4, <3>5 DEF Current, ReadIsCurrent, SeenIsCurrent, Own,
                                                Controls, Lookup!GetParameters
  <2> QED
    BY <2>1, <2>2
<1> QED
  BY <1>4, <1>5, <1>6, <1>7 DEF ControllerInv
\* The changes of a Gateway that the API server makes.
LEMMA GatewayStep ==
  ASSUME ControllerInv, NEW k \in Names,
         \/ \E g \in Gateways : CreateGateway(k, g) \/ UpdateGateway(k, g)
         \/ DeleteGateway(k)
  PROVE  ControllerInv'
<1>1. gateways[k] \in GatewayObjects \cup {Nil} /\ edits \in Nat
  BY DEF ControllerInv, ClusterType
<1>2. ASSUME NEW g \in Gateways, CreateGateway(k, g) PROVE ControllerInv'
  <2> DEFINE new == NewGateway(k, g, edits + 2)
  <2>1. new \in GatewayObjects /\ new.namespace = k.Namespace /\ new.uid = edits + 2
    BY <1>1 DEF NewGateway, GatewayObjects, Namespaces, Annotations, ClassesUsed, AddressLists
  <2>2. gateways[k] = Nil /\ SetGateway(k, new)
    BY <1>2 DEF CreateGateway
  <2> HIDE DEF new
  <2> QED
    BY <2>1, <2>2, SetGatewayStep
<1>3. ASSUME NEW g \in Gateways, UpdateGateway(k, g) PROVE ControllerInv'
  <2> DEFINE old == gateways[k]
             new == [old EXCEPT !.annotation = g.annotation, !.class = g.class,
                                !.version = @ + 1]
  <2>4. g.annotation \in Annotations /\ g.class \in ClassesUsed
    BY DEF Annotations, ClassesUsed
  <2>1. old # Nil /\ SetGateway(k, new)
    BY <1>3 DEF UpdateGateway
  <2>2. old \in GatewayObjects /\ old.namespace = k.Namespace
    BY <1>1, <2>1 DEF ControllerInv, ClusterType
  <2> HIDE DEF old
  <2>3. new \in GatewayObjects /\ new.namespace = k.Namespace /\ new.uid = old.uid
        /\ new.addresses = old.addresses /\ new.version = old.version + 1
    <3>1. old.version + 1 \in Nat
      BY <2>2 DEF GatewayObjects
    <3>2. new \in GatewayObjects
      BY <2>2, <2>4, <3>1 DEF GatewayObjects
    <3>3. new.namespace = old.namespace /\ new.uid = old.uid
          /\ new.addresses = old.addresses /\ new.version = old.version + 1
      BY <2>2 DEF GatewayObjects
    <3> QED
      BY <2>2, <3>2, <3>3
  <2> HIDE DEF new
  <2> QED
    BY <2>1, <2>3, SetGatewayStep DEF old
<1>4. CASE gateways[k] # Nil /\ SetGateway(k, Nil)
  BY <1>4, SetGatewayStep
<1>5. CASE gateways[k] # Nil
           /\ SetGateway(k, [gateways[k] EXCEPT !.deleting = TRUE, !.version = @ + 1])
  <2> DEFINE old == gateways[k]
             new == [old EXCEPT !.deleting = TRUE, !.version = @ + 1]
  <2>1. old # Nil /\ SetGateway(k, new)
    BY <1>5
  <2>2. old \in GatewayObjects /\ old.namespace = k.Namespace
    BY <1>1, <2>1 DEF ControllerInv, ClusterType
  <2> HIDE DEF old
  <2>3. new \in GatewayObjects /\ new.namespace = k.Namespace /\ new.uid = old.uid
        /\ new.addresses = old.addresses /\ new.version = old.version + 1
    <3>1. old.version + 1 \in Nat
      BY <2>2 DEF GatewayObjects
    <3>2. new \in GatewayObjects
      BY <2>2, <3>1 DEF GatewayObjects
    <3>3. new.namespace = old.namespace /\ new.uid = old.uid
          /\ new.addresses = old.addresses /\ new.version = old.version + 1
      BY <2>2 DEF GatewayObjects
    <3> QED
      BY <2>2, <3>2, <3>3
  <2> HIDE DEF new
  <2> QED
    BY <2>1, <2>3, SetGatewayStep DEF old
<1> QED
  BY <1>2, <1>3, <1>4, <1>5 DEF DeleteGateway

\* A Service changes: a change that its handler drops concerns no Service of a Gateway.
LEMMA ServiceStep ==
  ASSUME ControllerInv, NEW k \in Names, NEW s \in Services(k), EditService(k, s)
  PROVE  ControllerInv'
<1> DEFINE old == services[k]
<1>1. /\ services' = [services EXCEPT ![k] = s] /\ edits' = edits + 1
      /\ UNCHANGED <<gatewayParameters, gateways, queue, step, req, gw, gwp, svc, seen>>
  BY DEF EditService, Edit, workerVars, callVars
<1>2. services'[k] = s /\ \A n \in Names : n # k => services'[n] = services[n]
  BY <1>1 DEF ControllerInv, ClusterType
<1>3. s \in ServiceObjects \cup {Nil} /\ edits \in Nat
  BY DEF ControllerInv, ClusterType, Services, ServiceObjects, GatewayObjects
<1>4. /\ EventsType'
      /\ OwnerEvent(old, s) => Pending("Service", k)'
      /\ \A kind \in Kinds : \A e : Pending(kind, e) => Pending(kind, e)'
  <2>1. "Service" \in Kinds /\ k \in EventKeys("Service") /\ OwnerEvent(old, s) \in BOOLEAN
    BY DEF Kinds, EventKeys, OwnerEvent
  <2>2. Notify("Service", k, OwnerEvent(old, s))
    BY DEF EditService
  <2> QED
    BY <2>1, <2>2, NotifyPends DEF ControllerInv
<1>5. ClusterType'
  <2>1. services' \in [Names -> ServiceObjects \cup {Nil}]
    BY <1>1, <1>3 DEF ControllerInv, ClusterType
  <2>2. \A n \in Names : gateways[n] # Nil => gateways[n].uid \in Nat
    BY DEF ControllerInv, ClusterType, GatewayObjects
  <2> QED
    BY <1>1, <1>3, <2>1, <2>2 DEF ControllerInv, ClusterType
<1>6. WorkerInv'
  <2>1. step \in Steps \ {"idle", "namespace", "gateway"} => gw.uid \in Nat
    BY DEF ControllerInv, WorkerInv, GatewayObjects
  <2> QED
    BY <1>1, <1>3, <2>1 DEF ControllerInv, WorkerInv
<1>7. NothingMissed'
  <2> SUFFICES ASSUME NEW n \in Names, gateways'[n] # Nil, ~Waiting(n)'
               PROVE  Current(n)'
    BY DEF NothingMissed
  <2>1. ~Waiting(n)
    BY <1>1, <1>4, StillWaiting
  <2>2. Current(n)
    BY <1>1, <2>1 DEF ControllerInv, NothingMissed
  <2>3. CASE n # k
    BY <1>1, <1>2, <2>2, <2>3 DEF Current, ReadIsCurrent, SeenIsCurrent, Own, Controls,
                                  Lookup!GetParameters
  <2>4. CASE n = k
    <3>1. ~OwnerEvent(old, s)
      BY <1>4, <2>4 DEF Waiting
    <3>2. /\ old # Nil => old.controller = Nil
          /\ s # Nil => s.controller = Nil
      BY <3>1 DEF OwnerEvent, shouldIgnoreStatusChild
    <3>3. ~Controls(k)'
      <4>1. gateways'[k].uid \in Nat
        BY <1>1, <2>4 DEF ControllerInv, ClusterType, GatewayObjects
      <4> QED
        BY <1>2, <3>2, <4>1, NilAssumption DEF Controls
    <3>4. step = "patch" => svc # old
      <4>1. step = "patch" => svc \in ServiceObjects /\ svc.controller \in Nat
        BY DEF ControllerInv, WorkerInv, GatewayObjects, Steps
      <4> QED
        BY <3>2, <4>1, NilAssumption
    <3>5. CASE req = k
      BY <1>1, <2>2, <2>4, <3>4, <3>5 DEF Current, ReadIsCurrent, Own, Lookup!GetParameters
    <3>6. CASE req # k
      BY <1>1, <2>2, <2>4, <3>3, <3>6 DEF Current, SeenIsCurrent, Own, Lookup!GetParameters
    <3> QED
      BY <3>5, <3>6
  <2> QED
    BY <2>3, <2>4
<1> QED
  BY <1>4, <1>5, <1>6, <1>7 DEF ControllerInv
\* Parameters change: the index finds the Gateways that name them.
LEMMA ParametersStep ==
  ASSUME ControllerInv, NEW key \in Keys, NEW spec \in Lookup!Specs \cup {Nil},
         EditParameters(key, spec)
  PROVE  ControllerInv'
<1>1. /\ gatewayParameters' = [gatewayParameters EXCEPT ![key] = spec] /\ edits' = edits + 1
      /\ UNCHANGED <<services, gateways, queue, step, req, gw, gwp, svc, seen>>
  BY DEF EditParameters, Lookup!EditParameters, Edit, workerVars, callVars
<1>2. edits \in Nat
  BY DEF ControllerInv, ClusterType
<1>3. /\ EventsType'
      /\ Pending("GatewayParameters", key)'
      /\ \A kind \in Kinds : \A e : Pending(kind, e) => Pending(kind, e)'
  <2>1. "GatewayParameters" \in Kinds /\ key \in EventKeys("GatewayParameters")
    BY DEF Kinds, EventKeys
  <2>2. Notify("GatewayParameters", key, TRUE)
    BY DEF EditParameters
  <2> QED
    BY <2>1, <2>2, NotifyPends DEF ControllerInv
<1>4. ClusterType'
  <2>1. gatewayParameters' \in [Keys -> Lookup!Specs \cup {Nil}]
    BY <1>1 DEF ControllerInv, ClusterType
  <2>2. \A n \in Names : gateways[n] # Nil => gateways[n].uid \in Nat
    BY DEF ControllerInv, ClusterType, GatewayObjects
  <2> QED
    BY <1>1, <1>2, <2>1, <2>2 DEF ControllerInv, ClusterType
<1>5. WorkerInv'
  <2>1. step \in Steps \ {"idle", "namespace", "gateway"} => gw.uid \in Nat
    BY DEF ControllerInv, WorkerInv, GatewayObjects
  <2> QED
    BY <1>1, <1>2, <2>1 DEF ControllerInv, WorkerInv
<1>6. NothingMissed'
  <2> SUFFICES ASSUME NEW n \in Names, gateways'[n] # Nil, ~Waiting(n)'
               PROVE  Current(n)'
    BY DEF NothingMissed
  <2>1. Current(n)
    BY <1>1, <1>3, StillWaiting DEF ControllerInv, NothingMissed
  <2>2. n \notin MapParameters(key)'
    BY <1>3 DEF Waiting
  <2>3. gateways[n].annotation # Nil =>
          [Namespace |-> n.Namespace, Name |-> gateways[n].annotation] # key
    BY <1>1, <2>2 DEF MapParameters, gatewayToParams
  <2>4. gateways[n].annotation # Nil => Own(n)' = Own(n)
    BY <1>1, <2>3 DEF Own, Lookup!GetParameters, ControllerInv, ClusterType
  <2> QED
    BY <1>1, <2>1, <2>4 DEF Current, ReadIsCurrent, SeenIsCurrent, Controls
<1> QED
  BY <1>3, <1>4, <1>5, <1>6 DEF ControllerInv

\* Only classes change, or nothing.
LEMMA OtherStep ==
  ASSUME ControllerInv,
         UNCHANGED <<gatewayParameters, services, gateways, events, queue, step, req, gw, gwp,
                     svc, seen>>,
         edits' \in {edits, edits + 1}
  PROVE  ControllerInv'
<1>1. edits \in Nat /\ edits <= edits' /\ edits' \in Nat
  BY DEF ControllerInv, ClusterType
<1>2. EventsType'
  BY DEF ControllerInv, EventsType
<1>3. ClusterType'
  <2>1. \A n \in Names : gateways[n] # Nil => gateways[n].uid \in Nat
    BY DEF ControllerInv, ClusterType, GatewayObjects
  <2> QED
    BY <1>1, <2>1 DEF ControllerInv, ClusterType
<1>4. WorkerInv'
  <2>1. step \in Steps \ {"idle", "namespace", "gateway"} => gw.uid \in Nat
    BY DEF ControllerInv, WorkerInv, GatewayObjects
  <2> QED
    BY <1>1, <2>1 DEF ControllerInv, WorkerInv
<1>5. NothingMissed'
  BY DEF ControllerInv, NothingMissed, Waiting, Pending, MapParameters, Current,
         ReadIsCurrent, SeenIsCurrent, Own, Lookup!GetParameters, Controls
<1> QED
  BY <1>2, <1>3, <1>4, <1>5 DEF ControllerInv

-----------------------------------------------------------------------------
(* Requests *)

\* A handler: its event becomes the requests of the Gateways that waited for it.
LEMMA HandleStep ==
  ASSUME ControllerInv, NEW kind \in DOMAIN events, Handle(kind)
  PROVE  ControllerInv'
<1> DEFINE key == Head(events[kind])
           requests == IF kind = "GatewayParameters" THEN MapParameters(key) ELSE {key}
<1>1. /\ events[kind] # <<>> /\ events' = [events EXCEPT ![kind] = Tail(@)]
      /\ queue' = queue \cup requests
      /\ UNCHANGED <<gatewayParameters, services, gateways, edits, step, req, gw, gwp, svc, seen>>
  BY DEF Handle, clusterVars, workerVars, callVars
<1>2. kind \in Kinds
  BY DEF ControllerInv, EventsType
<1>3. /\ EventsType' /\ key \in EventKeys(kind)
      /\ \A other \in Kinds : \A e :
           Pending(other, e) /\ ~(other = kind /\ e = key) => Pending(other, e)'
  BY <1>1, <1>2, HandlePends DEF ControllerInv
<1> HIDE DEF key
<1>4. ClusterType'
  BY <1>1 DEF ControllerInv, ClusterType
<1>5. WorkerInv'
  <2>1. requests \subseteq Names
    BY <1>3 DEF EventKeys, MapParameters
  <2> QED
    BY <1>1, <2>1 DEF ControllerInv, WorkerInv
<1>6. NothingMissed'
  <2> SUFFICES ASSUME NEW n \in Names, gateways'[n] # Nil, ~Waiting(n)'
               PROVE  Current(n)'
    BY DEF NothingMissed
  <2>1. n \notin queue /\ n \notin requests
    BY <1>1 DEF Waiting
  <2>2. ~Pending("Gateway", n) /\ ~Pending("Service", n)
    BY <1>3, <2>1 DEF Waiting, Kinds
  <2>3. \A x \in Keys : Pending("GatewayParameters", x) => n \notin MapParameters(x)
    <3> SUFFICES ASSUME NEW x \in Keys, Pending("GatewayParameters", x), n \in MapParameters(x)
                 PROVE  FALSE
      OBVIOUS
    <3>1. n \in MapParameters(x)'
      BY <1>1 DEF MapParameters
    <3>2. ~Pending("GatewayParameters", x)'
      BY <3>1 DEF Waiting
    <3>3. kind = "GatewayParameters" /\ x = key
      BY <1>3, <3>2 DEF Kinds
    <3> QED
      BY <2>1, <3>3
  <2>4. Current(n)
    BY <1>1, <2>1, <2>2, <2>3 DEF ControllerInv, NothingMissed, Waiting
  <2> QED
    BY <1>1, <2>4 DEF Current, ReadIsCurrent, SeenIsCurrent, Own, Lookup!GetParameters, Controls
<1> QED
  BY <1>3, <1>4, <1>5, <1>6 DEF ControllerInv

\* The worker takes a request: nothing has been read yet that could be stale.
LEMMA ReconcileStep ==
  ASSUME ControllerInv, NEW k \in Names, Reconcile(k)
  PROVE  ControllerInv'
<1>1. /\ step = "idle" /\ req = Nil
      /\ queue' = queue \ {k} /\ req' = k /\ step' = "namespace"
      /\ UNCHANGED <<gatewayParameters, services, gateways, edits, events, gw, gwp, svc, seen>>
  BY DEF Reconcile, ControllerInv, WorkerInv, clusterVars, callVars
<1>2. EventsType' /\ ClusterType'
  BY <1>1 DEF ControllerInv, EventsType, ClusterType
<1>3. WorkerInv'
  BY <1>1 DEF ControllerInv, WorkerInv, Steps
<1>4. NothingMissed'
  <2> SUFFICES ASSUME NEW n \in Names, n # k, gateways'[n] # Nil, ~Waiting(n)'
               PROVE  Current(n)'
    BY <1>1 DEF NothingMissed, Current, ReadIsCurrent
  <2>1. ~Waiting(n)
    BY <1>1, StillWaiting DEF Pending
  <2>2. SeenIsCurrent(n)
    BY <1>1, <2>1, NilAssumption DEF ControllerInv, NothingMissed, Current
  <2> QED
    BY <1>1, <2>2 DEF Current, SeenIsCurrent, Own, Lookup!GetParameters, Controls
<1> QED
  BY <1>2, <1>3, <1>4 DEF ControllerInv

-----------------------------------------------------------------------------
(* Reconcile *)

\* A step of Reconcile that changes nothing but its own state and adds no events: it is
\* enough to look at the Gateway it is for.
LEMMA WorkerStep ==
  ASSUME ControllerInv, NEW k \in Names, req = k, req' \in {k, Nil},
         UNCHANGED <<gatewayParameters, services, gateways, edits, events>>,
         queue \subseteq queue',
         \A n \in Names : n # k => seen'[n] = seen[n],
         gateways[k] # Nil /\ Current(k) => k \in queue' \/ Current(k)'
  PROVE  EventsType' /\ ClusterType' /\ NothingMissed'
<1>1. EventsType' /\ ClusterType'
  BY DEF ControllerInv, EventsType, ClusterType
<1>2. ASSUME NEW n \in Names, gateways'[n] # Nil, ~Waiting(n)'
      PROVE  Current(n)'
  <2>1. ~Waiting(n)
    BY <1>2, StillWaiting DEF Pending
  <2>2. Current(n) /\ n \notin queue'
    BY <1>2, <2>1 DEF ControllerInv, NothingMissed, Waiting
  <2>3. CASE n = k
    BY <1>2, <2>2, <2>3
  <2>4. CASE n # k
    <3>1. SeenIsCurrent(n) /\ req' # n
      BY <2>2, <2>4, NilAssumption DEF Current
    <3> QED
      BY <2>4, <3>1 DEF Current, SeenIsCurrent, Own, Lookup!GetParameters, Controls
  <2> QED
    BY <2>3, <2>4
<1> QED
  BY <1>1, <1>2 DEF NothingMissed

\* return ctrl.Result{}, err
LEMMA FailStep ==
  ASSUME ControllerInv, req \in Names, Fail
  PROVE  ControllerInv'
<1>1. /\ step' = "idle" /\ req' = Nil /\ queue' = queue \cup {req}
      /\ UNCHANGED <<gatewayParameters, services, gateways, edits, events, seen>>
  BY DEF Fail, Forget, clusterVars
<1>2. EventsType' /\ ClusterType' /\ NothingMissed'
  BY <1>1, WorkerStep
<1>3. WorkerInv'
  BY <1>1 DEF ControllerInv, WorkerInv, Steps
<1> QED
  BY <1>2, <1>3 DEF ControllerInv

\* return ctrl.Result{}, nil: what was read and done must be so.
LEMMA FinishStep ==
  ASSUME ControllerInv, NEW k \in Names, req = k, NEW g, NEW requeue \in BOOLEAN,
         Finish(g, requeue), UNCHANGED <<clusterVars, events>>,
         gateways[k] # Nil /\ Current(k) =>
           /\ Relevant(g) = Relevant(gateways[k])
           /\ ~gateways[k].deleting /\ gateways[k].annotation # Nil => gwp = Own(k)
           /\ Controls(k) /\ result # Nil /\ result.SelfManaged = Nil /\ ~requeue =>
                getDesiredAddresses(services[k].spec) \in {<<>>, gateways[k].addresses}
  PROVE  ControllerInv'
<1> DEFINE provisioned == result # Nil /\ result.SelfManaged = Nil
           now == [gateway |-> Relevant(g), own |-> gwp, requeue |-> requeue,
                   provisioned |-> provisioned]
<1>1. /\ step' = "idle" /\ req' = Nil /\ seen' = [seen EXCEPT ![k] = now]
      /\ UNCHANGED <<gatewayParameters, services, gateways, edits, events, queue>>
  BY DEF Finish, Forget, clusterVars
<1>2. seen'[k] = now /\ \A n \in Names : n # k => seen'[n] = seen[n]
  BY <1>1 DEF ControllerInv, WorkerInv
<1>3. now.gateway = Relevant(g) /\ now.own = gwp /\ now.requeue = requeue
      /\ now.provisioned = provisioned
  OBVIOUS
<1> HIDE DEF now
<1>4. ASSUME gateways[k] # Nil, Current(k) PROVE Current(k)'
  <2>1. SeenIsCurrent(k)'
    <3>1. seen'[k].gateway = Relevant(gateways[k])'
      BY <1>1, <1>2, <1>3, <1>4 DEF Relevant
    <3>2. ~gateways'[k].deleting /\ gateways'[k].annotation # Nil => seen'[k].own = Own(k)'
      BY <1>1, <1>2, <1>3, <1>4 DEF Own, Lookup!GetParameters
    <3>3. Controls(k)' /\ seen'[k].provisioned /\ ~seen'[k].requeue =>
            getDesiredAddresses(services'[k].spec) \in {<<>>, gateways'[k].addresses}
      BY <1>1, <1>2, <1>3, <1>4 DEF Controls
    <3> QED
      BY <3>1, <3>2, <3>3 DEF SeenIsCurrent
  <2> QED
    BY <1>1, <2>1, NilAssumption DEF Current
<1>5. EventsType' /\ ClusterType' /\ NothingMissed'
  BY <1>1, <1>2, <1>4, WorkerStep
<1>6. WorkerInv'
  BY <1>1 DEF ControllerInv, WorkerInv, Steps
<1> QED
  BY <1>5, <1>6 DEF ControllerInv

\* The Namespace is read; the request comes back if that fails.
LEMMA GetNamespaceStep ==
  ASSUME ControllerInv, GetNamespace
  PROVE  ControllerInv'
<1>1. step = "namespace" /\ req \in Names
  BY DEF GetNamespace, ControllerInv, WorkerInv
<1>2. CASE Fail
  BY <1>1, <1>2, FailStep
<1>3. CASE ~Fail
  <2>1. /\ step' = "gateway"
        /\ UNCHANGED <<gatewayParameters, services, gateways, edits, events, queue, req, seen>>
    BY <1>3 DEF GetNamespace, AutoProvision, clusterVars
  <2>2. WorkerInv'
    BY <1>1, <2>1 DEF ControllerInv, WorkerInv, Steps
  <2>3. EventsType' /\ ClusterType' /\ NothingMissed'
    BY <1>1, <2>1, WorkerStep DEF Current, ReadIsCurrent
  <2> QED
    BY <2>2, <2>3 DEF ControllerInv
<1> QED
  BY <1>2, <1>3

\* The Gateway is read.
LEMMA GetGatewayStep ==
  ASSUME ControllerInv, GetGateway
  PROVE  ControllerInv'
<1>1. step = "gateway" /\ req \in Names
  BY DEF GetGateway, ControllerInv, WorkerInv
<1> DEFINE g == gateways[req]
<1>2. CASE g = Nil \/ g.deleting
  <2>1. Finish(g, FALSE) /\ UNCHANGED <<clusterVars, events>>
    BY <1>2 DEF GetGateway, Done
  <2> QED
    BY <1>1, <1>2, <2>1, FinishStep DEF Controls
<1>3. CASE ~(g = Nil \/ g.deleting)
  <2>1. /\ gw' = g /\ step' = "call"
        /\ UNCHANGED <<gatewayParameters, services, gateways, edits, events, queue, gwp, req,
                       svc, seen>>
    BY <1>3 DEF GetGateway, clusterVars
  <2>2. g \in GatewayObjects /\ g.namespace = req.Namespace /\ g.uid < edits + 2
    BY <1>1, <1>3 DEF ControllerInv, ClusterType
  <2>3. g.version \in Nat
    BY <2>2 DEF GatewayObjects
  <2>4. WorkerInv'
    BY <1>1, <1>3, <2>1, <2>2, <2>3 DEF ControllerInv, WorkerInv, Steps
  <2>5. ReadIsCurrent(req)'
    BY <2>1 DEF ReadIsCurrent, Relevant
  <2>6. EventsType' /\ ClusterType' /\ NothingMissed'
    BY <1>1, <2>1, <2>5, WorkerStep DEF Current
  <2> QED
    BY <2>4, <2>6 DEF ControllerInv
<1> QED
  BY <1>2, <1>3
\* While Reconcile runs, an undisturbed Gateway is as it was read.
LEMMA ReadParts ==
  ASSUME ControllerInv, NEW k \in Names, req = k, step \in Steps \ {"idle", "namespace", "gateway"},
         gateways[k] # Nil, Current(k)
  PROVE  /\ gw # Nil /\ gw.uid = gateways[k].uid /\ gw.annotation = gateways[k].annotation
         /\ Relevant(gw) = Relevant(gateways[k])
<1>1. gw \in GatewayObjects /\ Relevant(gw) = Relevant(gateways[k])
  BY DEF ControllerInv, WorkerInv, Current, ReadIsCurrent
<1> QED
  BY <1>1, RelevantParts, NilAssumption

\* The parameters are looked up: those of the Gateway are the ones it names.
LEMMA LookupStep ==
  ASSUME ControllerInv, LookupParameters
  PROVE  ControllerInv'
<1>1. /\ step \in {"call", "lookup"} /\ step' = "lookup"
      /\ UNCHANGED <<gatewayParameters, services, gateways, edits, events, queue, req, svc, seen,
                     gw>>
  BY DEF LookupParameters, Lookup!getGatewayParametersForGateway,
         Lookup!getGatewayClassFromGateway, Lookup!getGatewayParametersForGatewayClass,
         Lookup!clusterVars
<1>2. req \in Names
  BY <1>1 DEF ControllerInv, WorkerInv
<1>3. WorkerInv'
  BY <1>1, <1>2 DEF ControllerInv, WorkerInv, Steps
<1>4. ASSUME gateways[req] # Nil, Current(req) PROVE ReadIsCurrent(req)'
  <2>1. /\ gw.annotation = gateways[req].annotation /\ Relevant(gw) = Relevant(gateways[req])
        /\ gw.namespace = req.Namespace
    BY <1>1, <1>2, <1>4, ReadParts DEF ControllerInv, WorkerInv, Steps
  <2>2. ASSUME gateways[req].annotation # Nil PROVE gwp' = Own(req)
    <3>1. CASE step = "call"
      <4>1. gwp' = IF gw.annotation = Nil THEN Nil
                   ELSE Lookup!GetParameters([Namespace |-> gw.namespace,
                                              Name |-> gw.annotation])
        BY <3>1 DEF LookupParameters, Lookup!getGatewayParametersForGateway
      <4> QED
        BY <2>1, <2>2, <4>1 DEF Own
    <3>2. CASE step = "lookup"
      <4>1. UNCHANGED gwp
        BY <3>2 DEF LookupParameters, Lookup!getGatewayClassFromGateway,
                    Lookup!getGatewayParametersForGatewayClass
      <4> QED
        BY <1>4, <2>2, <3>2, <4>1 DEF Current, ReadIsCurrent
    <3> QED
      BY <1>1, <3>1, <3>2
  <2>3. Relevant(gw)' = Relevant(gateways[req])'
    BY <1>1, <2>1 DEF Relevant
  <2>4. Own(req)' = Own(req)
    BY <1>1 DEF Own, Lookup!GetParameters
  <2> QED
    BY <1>1, <2>2, <2>3, <2>4 DEF ReadIsCurrent
<1>5. EventsType' /\ ClusterType' /\ NothingMissed'
  BY <1>1, <1>2, <1>4, WorkerStep DEF Current
<1> QED
  BY <1>3, <1>5 DEF ControllerInv

\* The objects are rendered, or not.
LEMMA GetObjsStep ==
  ASSUME ControllerInv, GetObjsToDeploy
  PROVE  ControllerInv'
<1>1. step = "lookup" /\ req \in Names
  BY DEF GetObjsToDeploy, ControllerInv, WorkerInv
<1>2. CASE Fail
  BY <1>1, <1>2, FailStep
<1>3. CASE result # Nil /\ result.SelfManaged # Nil /\ Done(gw)
  <2>1. ASSUME gateways[req] # Nil, Current(req)
        PROVE  /\ Relevant(gw) = Relevant(gateways[req])
               /\ gateways[req].annotation # Nil => gwp = Own(req)
    BY <1>1, <2>1 DEF Current, ReadIsCurrent
  <2> QED
    BY <1>1, <1>3, <2>1, FinishStep DEF Done
<1>4. CASE /\ step' = "service"
           /\ UNCHANGED <<clusterVars, events, queue, callVars, req, svc, seen>>
  <2>1. UNCHANGED <<gatewayParameters, services, gateways, edits, events, queue, req, svc, seen,
                    gw, gwp>>
    BY <1>4 DEF clusterVars, callVars
  <2>2. WorkerInv'
    BY <1>1, <1>4, <2>1 DEF ControllerInv, WorkerInv, Steps
  <2>3. Current(req) => Current(req)'
    BY <1>1, <1>4, <2>1 DEF Current, ReadIsCurrent, Own, Lookup!GetParameters, Relevant
  <2>4. EventsType' /\ ClusterType' /\ NothingMissed'
    BY <1>1, <2>1, <2>3, WorkerStep
  <2> QED
    BY <2>2, <2>4 DEF ControllerInv
<1> QED
  BY <1>2, <1>3, <1>4 DEF GetObjsToDeploy

\* The Service is read: it is nobody's, has no addresses, or is copied from.
LEMMA UpdateStatusStep ==
  ASSUME ControllerInv, updateStatus
  PROVE  ControllerInv'
<1>1. /\ step = "service" /\ req \in Names /\ gw \in GatewayObjects
      /\ gw.namespace = req.Namespace
  BY DEF updateStatus, ControllerInv, WorkerInv, Steps
<1>2. renderChartToObjects(gw) = req
  BY <1>1, NamesAssumption DEF renderChartToObjects
<1> DEFINE s == services[req]
           wanted == getDesiredAddresses(s.spec)
           stays == s = Nil \/ ~isController(s) \/ SameAddresses(wanted, gw.addresses)
<1>3. ASSUME gateways[req] # Nil, Current(req)
      PROVE  /\ Relevant(gw) = Relevant(gateways[req]) /\ gw.uid = gateways[req].uid
             /\ gateways[req].annotation # Nil => gwp = Own(req)
  BY <1>1, <1>3, ReadParts DEF Current, ReadIsCurrent, Steps
<1>4. CASE stays
  <2>1. Finish(gw, FALSE) /\ UNCHANGED <<clusterVars, events>>
    BY <1>2, <1>4 DEF updateStatus, Done
  <2>2. ASSUME gateways[req] # Nil, Current(req), Controls(req) PROVE wanted = <<>>
    <3>1. s # Nil /\ s.controller = gw.uid /\ gw.uid \in Nat
      BY <1>1, <1>3, <2>2 DEF Controls, GatewayObjects
    <3>2. isController(s)
      BY <3>1, NilAssumption DEF isController
    <3> QED
      BY <1>4, <3>1, <3>2 DEF SameAddresses
  <2> QED
    BY <1>1, <1>3, <2>1, <2>2, FinishStep
<1>5. CASE ~stays
  <2>1. /\ svc' = s /\ gw' = [gw EXCEPT !.addresses = wanted] /\ step' = "patch"
        /\ UNCHANGED <<gatewayParameters, services, gateways, edits, events, queue, req, gwp,
                       seen>>
    BY <1>2, <1>5 DEF updateStatus, clusterVars
  <2>2. s \in ServiceObjects /\ s.controller = gw.uid
    BY <1>1, <1>5 DEF ControllerInv, ClusterType, isController
  <2>3. wanted \in AddressLists
    BY <2>2 DEF ServiceObjects, AddressLists
  <2> HIDE DEF wanted
  <2>4. gw' \in GatewayObjects
    BY <1>1, <2>1, <2>3 DEF GatewayObjects
  <2>5. /\ gw'.namespace = gw.namespace /\ gw'.deleting = gw.deleting /\ gw'.uid = gw.uid
        /\ gw'.version = gw.version /\ gw'.addresses = wanted
        /\ gw'.class = gw.class /\ gw'.annotation = gw.annotation
    BY <1>1, <2>1 DEF GatewayObjects
  <2>6. WorkerInv'
    BY <1>1, <2>1, <2>2, <2>4, <2>5 DEF ControllerInv, WorkerInv, Steps, wanted
  <2>7. ASSUME gateways[req] # Nil, Current(req) PROVE ReadIsCurrent(req)'
    <3>1. Relevant(gw)' = Relevant(gateways[req])'
      BY <1>1, <1>3, <2>1, <2>4, <2>5, <2>7, NilAssumption DEF Relevant
    <3>2. Own(req)' = Own(req)
      BY <2>1 DEF Own, Lookup!GetParameters
    <3> QED
      BY <1>3, <2>1, <2>7, <3>1, <3>2 DEF ReadIsCurrent
  <2>8. EventsType' /\ ClusterType' /\ NothingMissed'
    BY <1>1, <2>1, <2>7, WorkerStep DEF Current
  <2> QED
    BY <2>6, <2>8 DEF ControllerInv
<1> QED
  BY <1>4, <1>5
\* What the patch makes of the Gateway that was read.
LEMMA PatchedParts ==
  ASSUME NEW g \in GatewayObjects, step = "patch", gw \in GatewayObjects
  PROVE  /\ Patched(g) \in GatewayObjects
         /\ Patched(g).namespace = g.namespace /\ Patched(g).uid = g.uid
         /\ Patched(g).annotation = g.annotation /\ Patched(g).class = g.class
         /\ Patched(g).deleting = g.deleting
         /\ gw.addresses \in {<<>>, Patched(g).addresses}
<1>1. CASE gw.addresses \in {<<>>, g.addresses}
  BY <1>1 DEF Patched
<1>2. CASE gw.addresses \notin {<<>>, g.addresses}
  <2>1. Patched(g) = [g EXCEPT !.addresses = gw.addresses, !.version = g.version + 1]
    BY <1>2 DEF Patched
  <2>2. g.version + 1 \in Nat /\ gw.addresses \in AddressLists
    BY DEF GatewayObjects
  <2>3. Patched(g) \in GatewayObjects
    BY <2>1, <2>2 DEF GatewayObjects
  <2> QED
    BY <2>1, <2>3 DEF GatewayObjects
<1> QED
  BY <1>1, <1>2

\* The patch succeeds: the Gateway is the one that was read, and its addresses are those
\* of the Service that was read.
LEMMA PatchStep ==
  ASSUME ControllerInv, Patch
  PROVE  ControllerInv'
<1>1. /\ step = "patch" /\ req \in Names /\ gw \in GatewayObjects
      /\ gw.addresses = getDesiredAddresses(svc.spec)
  BY DEF Patch, ControllerInv, WorkerInv, Steps
<1>2. ASSUME gateways[req] # Nil, Current(req)
      PROVE  /\ Relevant(gw) = Relevant(gateways[req])
             /\ gateways[req].annotation # Nil => gwp = Own(req)
             /\ svc = services[req]
  BY <1>1, <1>2 DEF Current, ReadIsCurrent
<1>3. CASE Finish(gw, TRUE) /\ UNCHANGED <<clusterVars, events>>
  BY <1>1, <1>2, <1>3, FinishStep
<1>4. CASE /\ ~Conflict
           /\ gateways' = [gateways EXCEPT ![req] = Patched(@)]
           /\ Notify("Gateway", req, GatewayPredicate(gateways[req], Patched(gateways[req])))
           /\ Finish(gw, FALSE)
           /\ UNCHANGED <<gatewayClasses, gatewayParameters, services, edits>>
  <2> DEFINE k == req
             old == gateways[k]
             new == Patched(old)
             now == [gateway |-> Relevant(gw), own |-> gwp, requeue |-> FALSE,
                     provisioned |-> result # Nil /\ result.SelfManaged = Nil]
  <2>1. /\ step' = "idle" /\ req' = Nil /\ seen' = [seen EXCEPT ![k] = now]
        /\ gateways' = [gateways EXCEPT ![k] = new]
        /\ UNCHANGED <<gatewayParameters, services, edits, queue>>
    BY <1>4 DEF Finish, Forget
  <2>2. old # Nil /\ old \in GatewayObjects
    BY <1>1, <1>4 DEF Conflict, ControllerInv, ClusterType
  <2>3. /\ new \in GatewayObjects /\ new.namespace = old.namespace /\ new.uid = old.uid
        /\ new.annotation = old.annotation /\ new.class = old.class
        /\ new.deleting = old.deleting /\ gw.addresses \in {<<>>, new.addresses}
    BY <1>1, <2>2, PatchedParts
  <2>4. /\ EventsType'
        /\ \A kind \in Kinds : \A e : Pending(kind, e) => Pending(kind, e)'
    <3>1. /\ "Gateway" \in Kinds /\ k \in EventKeys("Gateway")
          /\ GatewayPredicate(old, new) \in BOOLEAN
      BY <1>1 DEF Kinds, EventKeys, GatewayPredicate
    <3> QED
      BY <1>4, <3>1, NotifyPends DEF ControllerInv
  <2>5. now.gateway = Relevant(gw) /\ now.own = gwp
    OBVIOUS
  <2> HIDE DEF new, now
  <2>6. /\ gateways'[k] = new /\ seen'[k] = now
        /\ \A n \in Names : n # k => gateways'[n] = gateways[n] /\ seen'[n] = seen[n]
    BY <1>1, <2>1 DEF ControllerInv, ClusterType, WorkerInv
  <2>7. ClusterType'
    <3>1. gateways' \in [Names -> GatewayObjects \cup {Nil}]
      BY <2>1, <2>3 DEF ControllerInv, ClusterType
    <3> QED
      BY <1>1, <2>1, <2>2, <2>3, <2>6, <3>1 DEF ControllerInv, ClusterType
  <2>8. WorkerInv'
    BY <2>1 DEF ControllerInv, WorkerInv, Steps
  <2>9. NothingMissed'
    <3> SUFFICES ASSUME NEW n \in Names, gateways'[n] # Nil, ~Waiting(n)'
                 PROVE  SeenIsCurrent(n)'
      BY <2>1, NilAssumption DEF NothingMissed, Current
    <3>1. CASE n # k
      <4>1. ~Waiting(n)
        BY <2>1, <2>4, <2>6, <3>1, StillWaiting
      <4>2. SeenIsCurrent(n)
        BY <2>6, <3>1, <4>1 DEF ControllerInv, NothingMissed, Current
      <4> QED
        BY <2>1, <2>6, <3>1, <4>2 DEF SeenIsCurrent, Own, Lookup!GetParameters, Controls
    <3>2. CASE n = k
      <4>1. ~Waiting(k)
        BY <1>1, <2>1, <2>3, <2>4, <2>6, <3>2, StillWaiting
      <4>2. Current(k)
        BY <1>1, <2>2, <4>1 DEF ControllerInv, NothingMissed
      <4>3. Relevant(new) = Relevant(old) /\ new # Nil
        BY <2>2, <2>3, RelevantParts, NilAssumption
      <4>4. seen'[n].gateway = Relevant(gateways[n])'
        BY <1>2, <2>2, <2>5, <2>6, <3>2, <4>2, <4>3 DEF Relevant
      <4>5. gateways'[n].annotation # Nil => seen'[n].own = Own(n)'
        <5>1. Own(n)' = Own(k)
          BY <2>1, <2>3, <2>6, <3>2 DEF Own, Lookup!GetParameters
        <5> QED
          BY <1>2, <2>2, <2>3, <2>5, <2>6, <3>2, <4>2, <5>1
      <4>6. getDesiredAddresses(services'[n].spec) \in {<<>>, gateways'[n].addresses}
        BY <1>1, <1>2, <2>1, <2>2, <2>3, <2>6, <3>2, <4>2
      <4> QED
        BY <4>4, <4>5, <4>6 DEF SeenIsCurrent
    <3> QED
      BY <3>1, <3>2
  <2> QED
    BY <2>4, <2>7, <2>8, <2>9 DEF ControllerInv
<1> QED
  BY <1>3, <1>4 DEF Patch

\* A read fails: the request is added again, or the status is not updated.
LEMMA GetFailsStep ==
  ASSUME ControllerInv, GetFails
  PROVE  ControllerInv'
<1>1. req \in Names
  BY DEF GetFails, ControllerInv, WorkerInv
<1>2. CASE Fail
  BY <1>1, <1>2, FailStep
<1>3. CASE step = "service" /\ Finish(gw, TRUE) /\ UNCHANGED <<clusterVars, events>>
  <2>1. ASSUME gateways[req] # Nil, Current(req)
        PROVE  /\ Relevant(gw) = Relevant(gateways[req])
               /\ gateways[req].annotation # Nil => gwp = Own(req)
    BY <1>1, <1>3, <2>1 DEF Current, ReadIsCurrent
  <2> QED
    BY <1>1, <1>3, <2>1, FinishStep
<1> QED
  BY <1>2, <1>3 DEF GetFails

-----------------------------------------------------------------------------
(* The process *)

\* After a start the informers have an event of every object.
LEMMA EverythingListed ==
  ASSUME NEW gws, NEW svcs, NEW params,
         DOMAIN gws = Names, DOMAIN svcs = Names, DOMAIN params = Keys
  PROVE  LET listed == InitialEvents(gws, svcs, params) IN
         /\ listed = [kind \in Kinds |-> listed[kind]]
         /\ \A kind \in Kinds : listed[kind] \in Seq(EventKeys(kind))
         /\ \A k \in Names : gws[k] # Nil =>
              \E i \in DOMAIN listed["Gateway"] : listed["Gateway"][i] = k
<1> DEFINE Gws  == Present(gws)
           Svcs == {k \in Present(svcs) : svcs[k].controller # Nil}
           Pars == Present(params)
           listed == InitialEvents(gws, svcs, params)
<1>1. Gws \subseteq Names /\ Svcs \subseteq Names /\ Pars \subseteq Keys
  BY DEF Present
<1>2. \A k \in Names : gws[k] # Nil => k \in Gws
  BY DEF Present
<1>3. listed = [Gateway |-> SetToSeq(Gws), GatewayParameters |-> SetToSeq(Pars),
                Service |-> SetToSeq(Svcs)]
  BY DEF InitialEvents
<1> HIDE DEF Gws, Svcs, Pars, listed
<1>4. IsFiniteSet(Gws) /\ IsFiniteSet(Svcs) /\ IsFiniteSet(Pars)
  BY <1>1, FS_Subset, NamesAssumption
<1>5. SetToSeq(Gws) \in Seq(Names) /\ SetToSeq(Svcs) \in Seq(Names)
      /\ SetToSeq(Pars) \in Seq(Keys)
  BY <1>1, <1>4, ListsAll, SeqMonotonic
<1>6. listed = [kind \in Kinds |-> listed[kind]]
      /\ \A kind \in Kinds : listed[kind] \in Seq(EventKeys(kind))
  BY <1>3, <1>5 DEF Kinds, EventKeys
<1>7. \A k \in Gws : \E i \in DOMAIN SetToSeq(Gws) : SetToSeq(Gws)[i] = k
  BY <1>4, ListsAll
<1>8. listed["Gateway"] = SetToSeq(Gws)
  BY <1>3
<1> QED
  BY <1>2, <1>6, <1>7, <1>8 DEF listed

\* The process ends at any point and starts again: every Gateway waits.
LEMMA RestartStep ==
  ASSUME ControllerInv, Restart
  PROVE  ControllerInv'
<1>1. /\ step' = "idle" /\ req' = Nil /\ queue' = {}
      /\ events' = InitialEvents(gateways, services, gatewayParameters)
      /\ UNCHANGED <<gatewayParameters, services, gateways, edits, seen>>
  BY DEF Restart, Forget, clusterVars
<1>2. ClusterType' /\ WorkerInv'
  BY <1>1 DEF ControllerInv, ClusterType, WorkerInv, Steps
<1>3. EventsType' /\ \A k \in Names : gateways'[k] # Nil => Pending("Gateway", k)'
  <2>1. DOMAIN gateways = Names /\ DOMAIN services = Names /\ DOMAIN gatewayParameters = Keys
    BY DEF ControllerInv, ClusterType
  <2> QED
    BY <1>1, <2>1, EverythingListed DEF EventsType, Pending
<1>4. NothingMissed'
  BY <1>3 DEF NothingMissed, Waiting
<1> QED
  BY <1>2, <1>3, <1>4 DEF ControllerInv

\* The first start.
LEMMA ControllerInit == Init => ControllerInv
<1> SUFFICES ASSUME Init PROVE ControllerInv
  OBVIOUS
<1>1. PICK c \in Clusters :
        /\ gatewayParameters = c.gatewayParameters
        /\ gateways = [k \in Names |-> NewGateway(k, c.gateways[k], 1)]
        /\ services = c.services
  BY DEF Init
<1>2. edits = 0
  BY DEF Init
<1>3. \A k \in Names : NewGateway(k, c.gateways[k], 1) \in GatewayObjects
  BY ClustersAssumption DEF NewGateway, GatewayObjects, Namespaces, Annotations, ClassesUsed,
                            AddressLists
<1>4. \A k \in Names : NewGateway(k, c.gateways[k], 1).namespace = k.Namespace
                       /\ NewGateway(k, c.gateways[k], 1).uid = 1
  BY DEF NewGateway
<1>5. ClusterType
  BY <1>1, <1>2, <1>3, <1>4, ClustersAssumption DEF ClusterType
<1>6. WorkerInv
  BY DEF Init, WorkerInv, Steps
<1>7. EventsType /\ \A k \in Names : gateways[k] # Nil => Pending("Gateway", k)
  <2>1. DOMAIN gateways = Names /\ DOMAIN services = Names /\ DOMAIN gatewayParameters = Keys
    BY <1>5 DEF ClusterType
  <2>2. events = InitialEvents(gateways, services, gatewayParameters)
    BY DEF Init
  <2> QED
    BY <2>1, <2>2, EverythingListed DEF EventsType, Pending
<1>8. NothingMissed
  BY <1>7 DEF NothingMissed, Waiting
<1> QED
  BY <1>5, <1>6, <1>7, <1>8 DEF ControllerInv

\* No step of the cluster, the handlers, Reconcile or the process breaks the invariant.
LEMMA ControllerStep == ControllerInv /\ [Next]_vars => ControllerInv'
<1> SUFFICES ASSUME ControllerInv, [Next]_vars PROVE ControllerInv'
  OBVIOUS
<1>1. ASSUME NEW k \in Names,
             \/ \E g \in Gateways : CreateGateway(k, g) \/ UpdateGateway(k, g)
             \/ DeleteGateway(k) \/ Reconcile(k)
             \/ \E s \in Services(k) : EditService(k, s)
      PROVE  ControllerInv'
  BY <1>1, GatewayStep, ReconcileStep, ServiceStep
<1>2. CASE \E key \in Keys, spec \in Lookup!Specs \cup {Nil} : EditParameters(key, spec)
  BY <1>2, ParametersStep
<1>3. CASE \E c \in ClassNames, class \in Lookup!Classes \cup {Nil} : EditClass(c, class)
  <2>1. UNCHANGED <<gatewayParameters, services, gateways, events, queue, step, req, gw, gwp, svc,
                    seen>> /\ edits' = edits + 1
    BY <1>3 DEF EditClass, Lookup!EditClass, Edit, workerVars, callVars
  <2> QED
    BY <2>1, OtherStep
<1>4. CASE \E kind \in DOMAIN events : Handle(kind)
  BY <1>4, HandleStep
<1>5. CASE \/ GetNamespace \/ GetGateway \/ LookupParameters \/ GetObjsToDeploy
           \/ updateStatus \/ Patch \/ GetFails \/ Restart
  BY <1>5, GetNamespaceStep, GetGatewayStep, LookupStep, GetObjsStep, UpdateStatusStep, PatchStep,
     GetFailsStep, RestartStep
<1>6. CASE UNCHANGED vars
  BY <1>6, OtherStep DEF vars, clusterVars, workerVars, callVars
<1> QED
  BY <1>1, <1>2, <1>3, <1>4, <1>5, <1>6 DEF Next

\* The invariant holds in every state.
LEMMA ControllerInvariant == Spec => []ControllerInv
BY ControllerInit, ControllerStep, PTL DEF Spec

-----------------------------------------------------------------------------
(* What follows *)

\* A Gateway for which nothing is under way does not wait.
LEMMA QuietIsCurrent ==
  ASSUME ControllerInv, NEW k \in Names, gateways[k] # Nil, Quiet(k)
  PROVE  SeenIsCurrent(k)
<1>1. ~Waiting(k)
  BY DEF Quiet, Waiting, Pending
<1> QED
  BY <1>1 DEF Quiet, ControllerInv, NothingMissed, Current

\* controller.go misses no change: when no event and no request of a Gateway is under way,
\* the last Reconcile has read the Gateway and the GatewayParameters it names as they are
\* now, however changes, handlers, failures and restarts interleave with the call.
THEOREM NoChangeMissed == Spec => []ReconciledAsItIs
<1>1. ControllerInv => ReconciledAsItIs
  BY QuietIsCurrent DEF ReconciledAsItIs, SeenIsCurrent, Own
<1> QED
  BY <1>1, ControllerInvariant, PTL

\* updateStatus brings the addresses of the Service into a Gateway that was provisioned,
\* unless the update failed or there is none to bring.
THEOREM AddressesFollow == Spec => []AddressesFollowService
<1>1. ControllerInv => AddressesFollowService
  BY QuietIsCurrent DEF AddressesFollowService, SeenIsCurrent, Controls
<1> QED
  BY <1>1, ControllerInvariant, PTL

\* The addresses that updateStatus patches into a Gateway come from a Service of this very
\* incarnation of it, and the Gateway is not being deleted.
THEOREM AddressesOfOwnService == Spec => AddressesAreOwn
<1> DEFINE Copied(k) ==
      gateways[k] # Nil /\ gateways'[k] # Nil /\ gateways'[k].uid = gateways[k].uid
        /\ gateways'[k].addresses # gateways[k].addresses
        => svc.controller = gateways[k].uid /\ ~gateways[k].deleting
<1>1. ASSUME ControllerInv, NEW n \in Names, NEW new, gateways' = [gateways EXCEPT ![n] = new],
             gateways[n] # Nil /\ new # Nil => new.addresses = gateways[n].addresses
      PROVE  \A k \in Names : Copied(k)
  BY <1>1 DEF ControllerInv, ClusterType
<1>2. ASSUME ControllerInv, NEW n \in Names, NEW g \in Gateways,
             CreateGateway(n, g) \/ UpdateGateway(n, g)
      PROVE  \A k \in Names : Copied(k)
  <2>1. CASE CreateGateway(n, g)
    BY <1>1, <1>2, <2>1 DEF CreateGateway, SetGateway
  <2>2. CASE UpdateGateway(n, g)
    <3> DEFINE new == [gateways[n] EXCEPT !.annotation = g.annotation, !.class = g.class,
                                          !.version = @ + 1]
    <3>1. gateways[n] \in GatewayObjects /\ gateways' = [gateways EXCEPT ![n] = new]
      BY <1>2, <2>2 DEF UpdateGateway, SetGateway, ControllerInv, ClusterType
    <3>2. new.addresses = gateways[n].addresses
      BY <3>1 DEF GatewayObjects
    <3> HIDE DEF new
    <3> QED
      BY <1>1, <1>2, <3>1, <3>2
  <2> QED
    BY <1>2, <2>1, <2>2
<1>3. ASSUME ControllerInv, NEW n \in Names, DeleteGateway(n)
      PROVE  \A k \in Names : Copied(k)
  <2>1. CASE SetGateway(n, Nil)
    BY <1>1, <1>3, <2>1 DEF SetGateway
  <2>2. CASE SetGateway(n, [gateways[n] EXCEPT !.deleting = TRUE, !.version = @ + 1])
    <3> DEFINE new == [gateways[n] EXCEPT !.deleting = TRUE, !.version = @ + 1]
    <3>1. gateways[n] \in GatewayObjects /\ gateways' = [gateways EXCEPT ![n] = new]
      BY <1>3, <2>2 DEF DeleteGateway, SetGateway, ControllerInv, ClusterType
    <3>2. new.addresses = gateways[n].addresses
      BY <3>1 DEF GatewayObjects
    <3> HIDE DEF new
    <3> QED
      BY <1>1, <1>3, <3>1, <3>2
  <2> QED
    BY <1>3, <2>1, <2>2 DEF DeleteGateway
<1>4. ASSUME ControllerInv, Patch PROVE \A k \in Names : Copied(k)
  <2>1. CASE UNCHANGED clusterVars
    BY <2>1 DEF clusterVars
  <2>2. CASE ~Conflict /\ gateways' = [gateways EXCEPT ![req] = Patched(@)]
    <3>1. /\ req \in Names /\ svc.controller = gw.uid
          /\ gateways[req] # Nil /\ gateways[req].uid = gw.uid
          /\ gateways[req].version = gw.version
      BY <1>4, <2>2 DEF Patch, Conflict, ControllerInv, WorkerInv
    <3>2. ~gateways[req].deleting
      BY <1>4, <3>1 DEF Patch, ControllerInv, WorkerInv, Steps
    <3>3. \A k \in Names : k # req => gateways'[k] = gateways[k]
      BY <1>4, <2>2 DEF ControllerInv, ClusterType
    <3> QED
      BY <3>1, <3>2, <3>3
  <2> QED
    BY <1>4, <2>1, <2>2 DEF Patch
<1>5. ASSUME ControllerInv, [Next]_vars PROVE [\A k \in Names : Copied(k)]_vars
  <2>1. CASE UNCHANGED gateways
    BY <2>1
  <2>2. CASE gateways' # gateways
    <3>1. \/ \E n \in Names, g \in Gateways : CreateGateway(n, g) \/ UpdateGateway(n, g)
          \/ \E n \in Names : DeleteGateway(n)
          \/ Patch
      BY <1>5, <2>2 DEF Next, Reconcile, EditService, EditParameters, EditClass, Handle,
           GetNamespace, GetGateway, LookupParameters, GetObjsToDeploy, updateStatus,
           GetFails, Restart, Done, Fail, Finish, vars, clusterVars
    <3> QED
      BY <1>2, <1>3, <1>4, <1>5, <3>1
  <2> QED
    BY <2>1, <2>2
<1> QED
  BY <1>5, ControllerInvariant, PTL DEF Spec, AddressesAreOwn

-----------------------------------------------------------------------------
(* The promise *)

\* Nothing is under way exactly if nothing leads to a Reconcile and none is running.
LEMMA QuietMeans ==
  ASSUME EventsType, NEW k \in Names
  PROVE  Quiet(k) <=> ~Waiting(k) /\ req # k
<1>1. \A i \in DOMAIN events.GatewayParameters : events.GatewayParameters[i] \in Keys
  <2>1. events.GatewayParameters \in Seq(Keys)
    BY DEF EventsType, Kinds, EventKeys
  <2> QED
    BY <2>1, LenProperties
<1> QED
  BY <1>1 DEF Quiet, Waiting, Pending

\* What is settled has been worked on as it is.
SettledIsKnown ==
  \A k \in Settled : Wanted[k] = IF gateways[k] = Nil THEN Nil ELSE Known[k]

LEMMA SettledStates == ControllerInv => SettledIsKnown
<1> SUFFICES ASSUME ControllerInv, NEW k \in Settled
             PROVE  Wanted[k] = IF gateways[k] = Nil THEN Nil ELSE Known[k]
  BY DEF SettledIsKnown
<1>1. k \in Names /\ Quiet(k)
  BY DEF Settled
<1>2. CASE gateways[k] = Nil
  BY <1>1, <1>2 DEF Wanted
<1>3. CASE gateways[k] # Nil
  <2>1. /\ seen[k].gateway = Relevant(gateways[k])
        /\ ~gateways[k].deleting /\ gateways[k].annotation # Nil => seen[k].own = Own(k)
    BY <1>1, <1>3, QuietIsCurrent DEF SeenIsCurrent
  <2>2. Relevant(gateways[k]) = <<gateways[k].uid, gateways[k].class, gateways[k].annotation,
                                  gateways[k].deleting>>
    BY <1>3 DEF Relevant
  <2>3. Deciding(seen[k].gateway, seen[k].own) = Deciding(Relevant(gateways[k]), Own(k))
    BY <2>1, <2>2 DEF Deciding
  <2> QED
    BY <1>1, <1>3, <2>3 DEF Wanted, Known, Own
<1> QED
  BY <1>2, <1>3

\* Steps of the handlers, of Reconcile and of the process are work.
LEMMA WorkStep ==
  ASSUME SettledIsKnown', Wanted' = Wanted, \A k \in Names : req # k => seen'[k] = seen[k]
  PROVE  Promise!Next
<1>1. \A k \in Settled : Known'[k] = Known[k]
  BY DEF Settled, Quiet, Known
<1> QED
  BY <1>1 DEF SettledIsKnown, Promise!Next, Promise!Work

\* A step of the cluster takes no event and no request, and where it gives or takes a
\* Gateway or its annotation it leaves an event.
LEMMA ChangeStep ==
  ASSUME ControllerInv, SettledIsKnown, SettledIsKnown',
         UNCHANGED <<seen, req, queue>>,
         \A kind \in Kinds : \A e : Pending(kind, e) => Pending(kind, e)',
         \A k \in Names :
           \/ Pending("Gateway", k)'
           \/ gateways[k] = Nil /\ gateways'[k] = Nil
           \/ /\ gateways[k] # Nil /\ gateways'[k] # Nil
              /\ gateways'[k].annotation = gateways[k].annotation
  PROVE  Promise!Next
<1>1. ASSUME NEW k \in Names, Waiting(k) PROVE Waiting(k)'
  <2>1. CASE Pending("Gateway", k)'
    BY <2>1 DEF Waiting
  <2>2. CASE gateways[k] = Nil
    BY <1>1, <2>2 DEF Waiting, MapParameters, Kinds
  <2>3. CASE /\ gateways[k] # Nil /\ gateways'[k] # Nil
             /\ gateways'[k].annotation = gateways[k].annotation
    BY <1>1, <2>3, StillWaiting
  <2> QED
    BY <2>1, <2>2, <2>3
<1>2. ASSUME NEW k \in Settled' PROVE k \in Settled /\ k \in Names
  <2>1. k \in Names /\ Quiet(k)'
    BY <1>2 DEF Settled
  <2>2. ~Waiting(k)' /\ req # k
    BY <2>1 DEF Quiet, Waiting, Pending
  <2> QED
    BY <1>1, <2>1, <2>2, QuietMeans DEF Settled, ControllerInv
<1>3. ASSUME NEW k \in Settled' PROVE Wanted'[k] = Wanted[k]
  <2>1. k \in Names /\ k \in Settled /\ ~Pending("Gateway", k)'
    BY <1>2, <1>3 DEF Settled, Quiet, Pending
  <2>2. Known' = Known
    BY DEF Known
  <2> QED
    BY <1>3, <2>1, <2>2 DEF SettledIsKnown
<1>4. CASE Wanted' = Wanted
  BY <1>4, WorkStep
<1>5. CASE Wanted' # Wanted
  BY <1>2, <1>3, <1>5 DEF Promise!Next, Promise!Change, Known
<1> QED
  BY <1>4, <1>5

\* The Gateway controller implements Reconciliation: in every step of the cluster, of the
\* handlers, of Reconcile and of the process, a change that matters leaves its Gateway
\* unsettled, and a Gateway settles only if it was reconciled as it is.
THEOREM KeepsPromise == Spec => ImplementsReconciliation
<1>1. Init => Promise!Init
  <2> SUFFICES ASSUME Init PROVE Settled = {}
    BY DEF Promise!Init
  <2>1. ControllerInv
    BY ControllerInit
  <2>2. \A k \in Names : gateways[k] # Nil
    <3>1. PICK c \in Clusters : gateways = [k \in Names |-> NewGateway(k, c.gateways[k], 1)]
      BY DEF Init
    <3>2. \A k \in Names : gateways[k] = NewGateway(k, c.gateways[k], 1)
      BY <3>1
    <3>3. \A k \in Names : NewGateway(k, c.gateways[k], 1) \in GatewayObjects
      BY ClustersAssumption DEF NewGateway, GatewayObjects, Namespaces, Annotations,
                                ClassesUsed, AddressLists
    <3> QED
      BY <3>2, <3>3, NilAssumption
  <2>3. DOMAIN gateways = Names /\ DOMAIN services = Names /\ DOMAIN gatewayParameters = Keys
    BY <2>1 DEF ControllerInv, ClusterType
  <2>4. events = InitialEvents(gateways, services, gatewayParameters)
    BY DEF Init
  <2>5. \A k \in Names : Pending("Gateway", k)
    BY <2>2, <2>3, <2>4, EverythingListed DEF Pending
  <2> QED
    BY <2>5 DEF Settled, Quiet, Pending
<1>2. ASSUME ControllerInv, SettledIsKnown, SettledIsKnown', [Next]_vars
      PROVE  [Promise!Next]_<<Wanted, Known, Settled>>
  <2>1. ASSUME NEW n \in Names, NEW new, SetGateway(n, new)
        PROVE  Promise!Next
    <3>1. gateways'[n] = new /\ \A k \in Names : k # n => gateways'[k] = gateways[k]
      BY <1>2, <2>1 DEF SetGateway, ControllerInv, ClusterType
    <3>2. /\ GatewayPredicate(gateways[n], new) => Pending("Gateway", n)'
          /\ \A kind \in Kinds : \A e : Pending(kind, e) => Pending(kind, e)'
      <4>1. "Gateway" \in Kinds /\ n \in EventKeys("Gateway")
            /\ GatewayPredicate(gateways[n], new) \in BOOLEAN
        BY DEF Kinds, EventKeys, GatewayPredicate
      <4> QED
        BY <1>2, <2>1, <4>1, NotifyPends DEF SetGateway, ControllerInv
    <3>3. UNCHANGED <<seen, req, queue>>
      BY <2>1 DEF SetGateway, Edit, workerVars
    <3> QED
      BY <1>2, <3>1, <3>2, <3>3, ChangeStep DEF GatewayPredicate, AnnotationChanged
  <2>2. ASSUME NEW kind \in Kinds, NEW key \in EventKeys(kind), NEW passes \in BOOLEAN,
               Notify(kind, key, passes), UNCHANGED <<gateways, seen, req, queue>>
        PROVE  Promise!Next
    <3>1. \A other \in Kinds : \A e : Pending(other, e) => Pending(other, e)'
      BY <1>2, <2>2, NotifyPends DEF ControllerInv
    <3> QED
      BY <1>2, <2>2, <3>1, ChangeStep
  <2>3. CASE \E n \in Names : \/ \E g \in Gateways : CreateGateway(n, g) \/ UpdateGateway(n, g)
                              \/ DeleteGateway(n)
    BY <2>1, <2>3 DEF CreateGateway, UpdateGateway, DeleteGateway
  <2>4. CASE \E n \in Names : \E s \in Services(n) : EditService(n, s)
    <3>1. PICK n \in Names : \E s : EditService(n, s)
      BY <2>4
    <3>2. PICK s : EditService(n, s)
      BY <3>1
    <3>3. OwnerEvent(services[n], s) \in BOOLEAN /\ "Service" \in Kinds
          /\ n \in EventKeys("Service")
      BY DEF OwnerEvent, Kinds, EventKeys
    <3> QED
      BY <2>2, <3>2, <3>3 DEF EditService, Edit, workerVars
  <2>5. CASE \E key \in Keys, spec \in Lookup!Specs \cup {Nil} : EditParameters(key, spec)
    <3>1. PICK key \in Keys, spec \in Lookup!Specs \cup {Nil} : EditParameters(key, spec)
      BY <2>5
    <3>2. "GatewayParameters" \in Kinds /\ key \in EventKeys("GatewayParameters")
      BY DEF Kinds, EventKeys
    <3> QED
      BY <2>2, <3>1, <3>2 DEF EditParameters, Edit, workerVars
  <2>6. ASSUME UNCHANGED <<gateways, gatewayParameters>>,
               \A k \in Names : req # k => seen'[k] = seen[k]
        PROVE  Promise!Next
    <3>1. Wanted' = Wanted
      BY <2>6 DEF Wanted, Lookup!GetParameters
    <3> QED
      BY <1>2, <2>6, <3>1, WorkStep
  <2>7. ASSUME NEW g, NEW requeue, Finish(g, requeue)
        PROVE  \A k \in Names : req # k => seen'[k] = seen[k]
    BY <1>2, <2>7 DEF Finish, ControllerInv, WorkerInv
  <2>8. ASSUME Fail \/ \E g, requeue : Finish(g, requeue) /\ UNCHANGED <<clusterVars, events>>
        PROVE  Promise!Next
    <3>1. CASE Fail
      BY <2>6, <3>1 DEF Fail, clusterVars
    <3>2. CASE \E g, requeue : Finish(g, requeue) /\ UNCHANGED <<clusterVars, events>>
      <4>1. PICK g, requeue : Finish(g, requeue) /\ UNCHANGED <<clusterVars, events>>
        BY <3>2
      <4>2. \A k \in Names : req # k => seen'[k] = seen[k]
        BY <2>7, <4>1
      <4> QED
        BY <2>6, <4>1, <4>2 DEF clusterVars
    <3> QED
      BY <2>8, <3>1, <3>2
  <2>9. CASE Patch
    <3>1. CASE Finish(gw, TRUE) /\ UNCHANGED <<clusterVars, events>>
      BY <2>8, <3>1
    <3>2. CASE /\ ~Conflict
               /\ gateways' = [gateways EXCEPT ![req] = Patched(@)]
               /\ Finish(gw, FALSE)
               /\ UNCHANGED gatewayParameters
      <4>1. /\ step = "patch" /\ req \in Names /\ gw \in GatewayObjects
            /\ gateways[req] \in GatewayObjects
        BY <1>2, <2>9, <3>2 DEF Patch, Conflict, ControllerInv, ClusterType, WorkerInv, Steps
      <4>2. /\ gateways'[req] = Patched(gateways[req])
            /\ \A k \in Names : k # req => gateways'[k] = gateways[k]
        BY <1>2, <3>2, <4>1 DEF ControllerInv, ClusterType
      <4>3. /\ gateways[req] # Nil /\ gateways'[req] # Nil
            /\ gateways'[req].annotation = gateways[req].annotation
            /\ Relevant(gateways'[req]) = Relevant(gateways[req])
        BY <4>1, <4>2, PatchedParts, RelevantParts, NilAssumption
      <4>4. Wanted' = Wanted
        BY <3>2, <4>2, <4>3 DEF Wanted, Lookup!GetParameters
      <4> QED
        BY <1>2, <2>7, <3>2, <4>4, WorkStep
    <3> QED
      BY <2>9, <3>1, <3>2 DEF Patch
  <2>10. CASE \/ \E k \in Names : Reconcile(k)
              \/ \E kind \in DOMAIN events : Handle(kind)
              \/ Restart
    BY <2>6, <2>10 DEF Reconcile, Handle, Restart, clusterVars
  <2>11. CASE \E c \in ClassNames, class \in Lookup!Classes \cup {Nil} : EditClass(c, class)
    BY <2>6, <2>11 DEF EditClass, Lookup!EditClass, Edit
  <2>12. CASE GetNamespace \/ GetGateway
    BY <2>6, <2>8, <2>12 DEF GetNamespace, GetGateway, Done, clusterVars
  <2>13. CASE LookupParameters
    <3>1. UNCHANGED <<gateways, gatewayParameters, seen>>
      BY <2>13 DEF LookupParameters, Lookup!getGatewayParametersForGateway,
                   Lookup!getGatewayClassFromGateway, Lookup!getGatewayParametersForGatewayClass,
                   Lookup!clusterVars
    <3> QED
      BY <2>6, <3>1
  <2>14. CASE GetObjsToDeploy \/ updateStatus \/ GetFails
    BY <2>6, <2>8, <2>14 DEF GetObjsToDeploy, updateStatus, GetFails, Done, clusterVars
  <2>15. CASE UNCHANGED vars
    BY <2>6, <2>15 DEF vars, clusterVars
  <2> QED
    BY <1>2, <2>3, <2>4, <2>5, <2>9, <2>10, <2>11, <2>12, <2>13, <2>14, <2>15 DEF Next
<1> QED
  BY <1>1, <1>2, ControllerInvariant, SettledStates, PTL
  DEF Spec, ImplementsReconciliation, Promise!Spec

-----------------------------------------------------------------------------
(* The parameters *)

OneMode(spec) == (spec.Kube = Nil) # (spec.SelfManaged = Nil)

\* A Gateway that is self-managed by its own parameters is so in the result.
ModeInv ==
  /\ gwp \in Lookup!Specs \cup {Nil}
  /\ result # Nil =>
       /\ OneMode(result)
       /\ gwp # Nil /\ gwp.SelfManaged # Nil => result.SelfManaged # Nil

\* The specs that the CRD admits have one mode, and so does what is merged from two.
LEMMA MergeKeepsMode ==
  ASSUME NEW dst \in Lookup!Specs, NEW src \in Lookup!Specs
  PROVE  /\ OneMode(dst)
         /\ OneMode(Lookup!mergeInPlace(dst, src))
         /\ src.SelfManaged # Nil => Lookup!mergeInPlace(dst, src).SelfManaged # Nil
<1> USE NilAssumption
<1>1. ASSUME NEW s \in Lookup!Specs
      PROVE  \/ s = [Kube |-> Nil, SelfManaged |-> SelfManaged]
             \/ s.Kube \in KubeConfigs /\ s = [Kube |-> s.Kube, SelfManaged |-> Nil]
  BY <1>1 DEF Lookup!Specs
<1>2. OneMode(dst)
  BY <1>1 DEF OneMode
<1>3. CASE src.SelfManaged # Nil
  <2>1. Lookup!mergeInPlace(dst, src) = [SelfManaged |-> src.SelfManaged, Kube |-> Nil]
    BY <1>3 DEF Lookup!mergeInPlace
  <2> QED
    BY <1>2, <1>3, <2>1 DEF OneMode
<1>4. CASE src.SelfManaged = Nil /\ src.Kube # Nil /\ dst.Kube # Nil
  <2>1. Lookup!mergeInPlace(dst, src) = [dst EXCEPT !.Kube = Lookup!mergeKube(dst.Kube, src.Kube)]
    BY <1>4 DEF Lookup!mergeInPlace
  <2>2. dst.Kube \in KubeConfigs /\ src.Kube \in KubeConfigs
        /\ dst = [Kube |-> dst.Kube, SelfManaged |-> Nil]
    BY <1>1, <1>4
  <2> QED
    BY <1>2, <1>4, <2>1, <2>2 DEF OneMode
<1>5. CASE src.SelfManaged = Nil /\ ~(src.Kube # Nil /\ dst.Kube # Nil)
  <2>1. Lookup!mergeInPlace(dst, src) = dst
    BY <1>5 DEF Lookup!mergeInPlace
  <2> QED
    BY <1>2, <1>5, <2>1
<1> QED
  BY <1>2, <1>3, <1>4, <1>5

\* Only the lookup sets the result, from parameters of the cluster.
LEMMA ModeStep ==
  ASSUME ControllerInv, ModeInv, [Next]_vars
  PROVE  ModeInv'
<1>1. \A key : Lookup!GetParameters(key) \in Lookup!Specs \cup {Nil}
  BY DEF Lookup!GetParameters, ControllerInv, ClusterType
<1>2. CASE UNCHANGED <<gwp, result>>
  BY <1>2 DEF ModeInv, OneMode
<1>3. CASE Forget
  BY <1>3 DEF Forget, ModeInv
<1>4. ASSUME NEW g, Lookup!getGatewayParametersForGateway(g) PROVE ModeInv'
  BY <1>1, <1>4 DEF Lookup!getGatewayParametersForGateway, Lookup!Return, ModeInv
<1>5. CASE Lookup!getGatewayClassFromGateway
  <2>1. UNCHANGED gwp /\ result' \in {result, Nil}
    BY <1>5 DEF Lookup!getGatewayClassFromGateway, Lookup!Return
  <2> QED
    BY <2>1 DEF ModeInv, OneMode
<1>6. CASE Lookup!getGatewayParametersForGatewayClass
  <2> DEFINE default == Lookup!GetParameters(paramRef)
  <2>1. /\ UNCHANGED gwp
        /\ \/ result' = Nil
           \/ /\ default # Nil
              /\ result' = IF gwp = Nil THEN default ELSE Lookup!mergeInPlace(default, gwp)
    BY <1>6 DEF Lookup!getGatewayParametersForGatewayClass, Lookup!Return
  <2>2. CASE result' = Nil
    BY <2>1, <2>2 DEF ModeInv
  <2>3. CASE default # Nil /\ result' = IF gwp = Nil THEN default
                                        ELSE Lookup!mergeInPlace(default, gwp)
    <3>1. default \in Lookup!Specs
      BY <1>1, <2>3
    <3> HIDE DEF default
    <3>2. CASE gwp = Nil
      BY <2>1, <2>3, <3>1, <3>2, MergeKeepsMode DEF ModeInv, OneMode
    <3>3. CASE gwp # Nil
      BY <2>1, <2>3, <3>1, <3>3, MergeKeepsMode DEF ModeInv, OneMode
    <3> QED
      BY <3>2, <3>3
  <2> QED
    BY <2>1, <2>2, <2>3
<1> QED
  BY <1>2, <1>3, <1>4, <1>5, <1>6 DEF Next, CreateGateway, UpdateGateway, DeleteGateway,
     SetGateway, Edit, Reconcile, EditService, EditParameters, EditClass, Handle, GetNamespace,
     GetGateway,
     LookupParameters, GetObjsToDeploy, updateStatus, Patch, GetFails, Restart, Done, Fail,
     Finish, vars, workerVars, callVars

\* However the cluster changes during the three reads of getGatewayParametersForGateway,
\* what GetObjsToDeploy gets has one mode, and a Gateway whose own parameters are
\* self-managed is never provisioned.
THEOREM OneModeOnly == Spec => []ResultHasOneMode
<1>1. Init => ModeInv
  BY DEF Init, ModeInv
<1>2. ModeInv => ResultHasOneMode
  BY DEF ModeInv, OneMode, ResultHasOneMode, Lookup!ResultHasOneMode, Lookup!Found
<1> QED
  BY <1>1, <1>2, ModeStep, ControllerInvariant, PTL DEF Spec
=============================================================================
