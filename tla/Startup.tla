------------------------------ MODULE Startup ------------------------------
(***************************************************************************)
(* The start of the program: RunE of the command, startFgateway,           *)
(* NewControlPlane, startFgatewayWithConfig and ControllerBuilder.Start.   *)
(* The main goroutine goes from step to step; the probe server and the     *)
(* xDS server run beside it from the moment they are started.  The         *)
(* command passes context.Background(), which is never cancelled.          *)
(***************************************************************************)
EXTENDS Naturals

CONSTANTS
  PodInformers,  \* informers that NewLocalityPodsCollection registers: pods and nodes
  Crds,          \* the informer of EnableCrdWatcher
  Nil

Informers == PodInformers \cup {Crds}

VARIABLES
  main,        \* next step of the main goroutine
  probe,       \* the liveness probe server
  grpc,        \* the xDS server
  collection,  \* callbacks.collection is set: gateways are not refused
  registered,  \* informers known to the client
  running,     \* informers started
  synced,      \* informers that have seen the cluster
  apiUp,       \* the API server answers
  exit         \* exit code of the process, Nil while it runs

vars == <<main, probe, grpc, collection, registered, running, synced, apiUp, exit>>

Init ==
  /\ main = "RunE"
  /\ probe = "off"
  /\ grpc = "off"
  /\ collection = FALSE
  /\ registered = {}
  /\ running = {}
  /\ synced = {}
  /\ apiUp \in BOOLEAN
  /\ exit = Nil

-----------------------------------------------------------------------------
(* Steps of the main goroutine.  An error of any of them is returned up to *)
(* main, which calls log.Fatal.                                            *)

Go(from, to) == main = from /\ main' = to

Fatal ==
  /\ exit' = 1
  /\ UNCHANGED <<main, probe, grpc, collection, registered, running, synced, apiUp>>

\* A call that fails for reasons outside the program: no kubeconfig
\* (GetConfigOrDie), a port that is taken (net.Listen), a client or a manager that
\* cannot be created.
CallFails == main \in {"GetConfigOrDie", "Listen", "createIstioClient", "NewManager"} /\ Fatal

\* The command with --version prints and is done; otherwise the probe server comes first.
RunE(version) ==
  /\ Go("RunE", IF version THEN "RunE" ELSE "GetConfigOrDie")
  /\ exit' = IF version THEN 0 ELSE Nil
  /\ probe' = IF version THEN "off" ELSE "starting"
  /\ UNCHANGED <<grpc, collection, registered, running, synced, apiUp>>

startFgateway ==
  /\ Go("GetConfigOrDie", "Listen")
  /\ UNCHANGED <<probe, grpc, collection, registered, running, synced, apiUp, exit>>

\* The listener is open when NewControlPlane returns, and served by a goroutine.
NewControlPlane ==
  /\ Go("Listen", "createIstioClient")
  /\ grpc' = "listening"
  /\ UNCHANGED <<probe, collection, registered, running, synced, apiUp, exit>>

\* Mutant: the client is run as soon as it is created.
createIstioClientAndRun ==
  /\ Go("createIstioClient", "RunAndWait")
  /\ registered' = {Crds}
  /\ UNCHANGED <<probe, grpc, collection, running, synced, apiUp, exit>>

createIstioClient ==
  /\ Go("createIstioClient", "NewLocalityPodsCollection")
  /\ registered' = {Crds}
  /\ UNCHANGED <<probe, grpc, collection, running, synced, apiUp, exit>>

\* Pods and nodes are watched also if DISABLE_POD_LOCALITY_XDS keeps them from the
\* callbacks.
NewLocalityPodsCollection ==
  /\ Go("NewLocalityPodsCollection", "uccBuilder")
  /\ registered' = registered \cup PodInformers
  /\ UNCHANGED <<probe, grpc, collection, running, synced, apiUp, exit>>

\* Mutant: the callbacks are initialised only when the informers have synced.
uccBuilderAfterSync ==
  /\ Go("uccBuilder", "NewManager")
  /\ synced = Informers
  /\ collection' = TRUE
  /\ UNCHANGED <<probe, grpc, registered, running, synced, apiUp, exit>>

\* The builder stores the collection in the callbacks.
uccBuilder ==
  /\ Go("uccBuilder", "NewManager")
  /\ collection' = TRUE
  /\ UNCHANGED <<probe, grpc, registered, running, synced, apiUp, exit>>

NewControllerBuilder ==
  /\ Go("NewManager", "RunAndWait")
  /\ UNCHANGED <<probe, grpc, collection, registered, running, synced, apiUp, exit>>

\* The client starts the informers that are registered by now and no others.
RunAndWait ==
  /\ Go("RunAndWait", "waiting")
  /\ running' = registered
  /\ UNCHANGED <<probe, grpc, collection, registered, synced, apiUp, exit>>

\* RunAndWait has no timeout: its stop channel is ctx.Done(), and ctx never ends.
WaitEnds ==
  /\ Go("waiting", "Start")
  /\ registered \subseteq synced
  /\ UNCHANGED <<probe, grpc, collection, registered, running, synced, apiUp, exit>>

\* Types that DefaultScheme registers: SchemeBuilder holds no function.
SchemeBuilder == {}

\* The first function that NewBaseGatewayController runs needs GatewayClass in the scheme
\* of the manager.  Its error is returned before addGatewayParamsIndex is run.
watchGatewayClassFails == "GatewayClass" \notin SchemeBuilder

\* XdsHost is never empty; mgr.Start is not reached.
Start ==
  /\ main = "Start"
  /\ watchGatewayClassFails
  /\ Fatal

Main ==
  \/ \E version \in BOOLEAN : RunE(version)
  \/ startFgateway \/ NewControlPlane \/ createIstioClient
  \/ NewLocalityPodsCollection \/ uccBuilder \/ NewControllerBuilder
  \/ RunAndWait \/ WaitEnds \/ Start \/ CallFails

-----------------------------------------------------------------------------
(* What runs beside the main goroutine. *)

\* The goroutine of StartProbeServer: its port is bound or, if it is taken, the error
\* is logged and the program goes on without the probe.
ProbeListens ==
  /\ probe = "starting"
  /\ probe' \in {"serving", "failed"}
  /\ UNCHANGED <<main, grpc, collection, registered, running, synced, apiUp, exit>>

\* go grpcServer.Serve(lis)
Serve ==
  /\ grpc = "listening"
  /\ grpc' = "serving"
  /\ UNCHANGED <<main, probe, collection, registered, running, synced, apiUp, exit>>

\* An informer that runs lists its objects, and retries for as long as that fails.
InformerSyncs(i) ==
  /\ i \in running \ synced
  /\ apiUp
  /\ synced' = synced \cup {i}
  /\ UNCHANGED <<main, probe, grpc, collection, registered, running, apiUp, exit>>

\* The API server becomes reachable or unreachable.
ApiChanges ==
  /\ apiUp' = ~apiUp
  /\ UNCHANGED <<main, probe, grpc, collection, registered, running, synced, exit>>

Next ==
  /\ exit = Nil
  /\ \/ Main
     \/ ProbeListens
     \/ Serve
     \/ \E i \in Informers : InformerSyncs(i)
     \/ ApiChanges

Spec == Init /\ [][Next]_vars

\* Goroutines are scheduled, and an informer that runs lists again until it succeeds.
\* The API server need not become reachable.
FairSpec ==
  /\ Spec
  /\ WF_vars(exit = Nil /\ Main)
  /\ WF_vars(exit = Nil /\ Serve)
  /\ \A i \in Informers : WF_vars(exit = Nil /\ InformerSyncs(i))

-----------------------------------------------------------------------------
(* Properties *)

\* When startFgatewayWithConfig waits for the caches, every informer runs, and the
\* callbacks have their collection: none is registered too late to be started, and the
\* wait is for all of them, so that the controllers start with full caches.
InformersComplete ==
  /\ main \in {"waiting", "Start"} => running = Informers /\ collection
  /\ main = "Start" => Informers \subseteq synced

\* A gateway that connects while the callbacks have no collection is refused and tries
\* again.  Such refusals end, also while the API server cannot be reached: the builder
\* of the callbacks waits for nothing, unless the process ends with an error.
RefusalsEnd == grpc = "serving" ~> (collection \/ exit = 1)

\* Once the API server stays reachable the wait for the caches ends: no informer is
\* waited for that was not started.
SyncCompletes == <>[]apiUp => <>(main = "Start" \/ exit # Nil)
=============================================================================
