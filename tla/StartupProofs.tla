--------------------------- MODULE StartupProofs ---------------------------
(***************************************************************************)
(* InformersComplete for any set of informers.                             *)
(***************************************************************************)
EXTENDS Startup, TLAPS

\* What the main goroutine has done when it comes to each of its steps.  Informers are
\* registered, and the callbacks initialised, before RunAndWait; only an informer that
\* was started has synced.
OrderInv ==
  /\ main = "NewLocalityPodsCollection" => registered = {Crds}
  /\ main \in {"uccBuilder", "NewManager", "RunAndWait", "waiting", "Start"}
       => registered = Informers
  /\ main \in {"NewManager", "RunAndWait", "waiting", "Start"} => collection
  /\ main \in {"waiting", "Start"} => running = registered
  /\ main = "Start" => registered \subseteq synced

\* Every step of the program keeps the order.
LEMMA OrderStep == OrderInv /\ [Next]_vars => OrderInv'
<1> SUFFICES ASSUME OrderInv, [Next]_vars PROVE OrderInv'
  OBVIOUS
<1> USE DEF OrderInv, Go, Informers
<1>1. ASSUME NEW version \in BOOLEAN, RunE(version) PROVE OrderInv'
  BY <1>1 DEF RunE
<1>2. CASE startFgateway
  BY <1>2 DEF startFgateway
<1>3. CASE NewControlPlane
  BY <1>3 DEF NewControlPlane
<1>4. CASE createIstioClient
  BY <1>4 DEF createIstioClient
<1>5. CASE NewLocalityPodsCollection
  BY <1>5 DEF NewLocalityPodsCollection
<1>6. CASE uccBuilder
  BY <1>6 DEF uccBuilder
<1>7. CASE NewControllerBuilder
  BY <1>7 DEF NewControllerBuilder
<1>8. CASE RunAndWait
  BY <1>8 DEF RunAndWait
<1>9. CASE WaitEnds
  BY <1>9 DEF WaitEnds
<1>10. CASE Start \/ CallFails
  BY <1>10 DEF Start, CallFails, Fatal
<1>11. CASE ProbeListens \/ Serve \/ ApiChanges
  BY <1>11 DEF ProbeListens, Serve, ApiChanges
<1>12. ASSUME NEW i \in Informers, InformerSyncs(i) PROVE OrderInv'
  BY <1>12 DEF InformerSyncs
<1>13. CASE UNCHANGED vars
  BY <1>13 DEF vars
<1> QED
  BY <1>1, <1>2, <1>3, <1>4, <1>5, <1>6, <1>7, <1>8, <1>9, <1>10, <1>11, <1>12, <1>13
  DEF Next, Main

\* Start-up waits for all informers, has started all of them, and goes on to the
\* controllers only with all caches filled and the callbacks initialised
\* (startFgatewayWithConfig), whichever calls fail on the way.
THEOREM StartupComplete == Spec => []InformersComplete
<1>1. Init => OrderInv
  BY DEF Init, OrderInv
<1>2. OrderInv => InformersComplete
  BY DEF OrderInv, InformersComplete
<1> QED
  BY <1>1, <1>2, OrderStep, PTL DEF Spec
=============================================================================
