------------------------- MODULE ProbeServerProofs -------------------------
(***************************************************************************)
(* Safety of the probe servers, for any number of them on any ports.       *)
(***************************************************************************)
EXTENDS ProbeServer, TLAPS

\* A server that was told to shut down remembers it, and no longer serves.
StopInv ==
  /\ serving \in [Servers -> {"off", "create", "listen", "serve", "closed"}]
  /\ stopping \in [Servers -> {"off", "wait", "none", "shutdown", "done"}]
  /\ inShutdown \in [Servers -> BOOLEAN]
  /\ \A s \in Servers : /\ stopping[s] = "done" => inShutdown[s]
                        /\ inShutdown[s] => serving[s] # "serve"

\* Every step of a goroutine keeps the invariant.
LEMMA StopStep == StopInv /\ [Next]_vars => StopInv'
<1> SUFFICES ASSUME StopInv, [Next]_vars PROVE StopInv'
  OBVIOUS
<1> USE DEF StopInv
<1>1. CASE Cancel
  BY <1>1 DEF Cancel
<1>2. ASSUME NEW s \in Servers, StartProbeServer(s) PROVE StopInv'
  BY <1>2 DEF StartProbeServer
<1>3. ASSUME NEW s \in Servers, CreateServer(s) PROVE StopInv'
  BY <1>3 DEF CreateServer
<1>4. ASSUME NEW s \in Servers, ListenAndServe(s) PROVE StopInv'
  <2>1. /\ serving[s] = "listen"
        /\ \/ serving' = [serving EXCEPT ![s] = "closed"]
           \/ ~inShutdown[s] /\ serving' = [serving EXCEPT ![s] = "serve"]
        /\ UNCHANGED <<stopping, inShutdown>>
    BY <1>4 DEF ListenAndServe
  <2> QED
    BY <2>1
<1>5. ASSUME NEW s \in Servers, ServeFails(s) PROVE StopInv'
  BY <1>5 DEF ServeFails
<1>6. ASSUME NEW s \in Servers, ReadServer(s) PROVE StopInv'
  BY <1>6 DEF ReadServer
<1>7. ASSUME NEW s \in Servers, Shutdown(s) PROVE StopInv'
  BY <1>7 DEF Shutdown
<1>8. CASE UNCHANGED vars
  BY <1>8 DEF vars
<1> QED
  BY <1>1, <1>2, <1>3, <1>4, <1>5, <1>6, <1>7, <1>8 DEF Next, Serve, Stop

\* A probe server that was shut down never answers again, nor begins to, however many
\* servers there are, whatever ports they want and whenever they fail.
THEOREM StaysDown == Spec => []ShutdownIsFinal
<1>1. Init => StopInv
  BY DEF Init, StopInv
<1>2. StopInv => ShutdownIsFinal
  BY DEF StopInv, ShutdownIsFinal
<1> QED
  BY <1>1, <1>2, StopStep, PTL DEF Spec
=============================================================================
