------------------------ MODULE ReconciliationProofs ------------------------
(***************************************************************************)
(* What the promise of the Gateway controller is worth to its users.       *)
(***************************************************************************)
EXTENDS Reconciliation, TLAPS

\* The controller has last worked from what is wanted.
SettledIsDone == \A k \in settled : wanted[k] \in {Nil, done[k]}

\* Whoever finds a Gateway settled, that is without an event or a request that would make
\* Reconcile run for it, knows that the last Reconcile worked from what is wanted of it.
THEOREM SettledMeansDone == Spec => []SettledIsDone
<1>1. Init => SettledIsDone
  BY DEF Init, SettledIsDone
<1>2. SettledIsDone /\ [Next]_<<wanted, done, settled>> => SettledIsDone'
  <2> SUFFICES ASSUME SettledIsDone, [Next]_<<wanted, done, settled>>, NEW k \in settled'
               PROVE  wanted'[k] \in {Nil, done'[k]}
    BY DEF SettledIsDone
  <2>1. CASE Change
    BY <2>1 DEF Change, SettledIsDone
  <2>2. CASE Work
    <3>1. CASE k \in settled
      BY <2>2, <3>1 DEF Work, SettledIsDone
    <3>2. CASE k \notin settled
      BY <2>2, <3>2 DEF Work
    <3> QED
      BY <3>1, <3>2
  <2>3. CASE UNCHANGED <<wanted, done, settled>>
    BY <2>3 DEF SettledIsDone
  <2> QED
    BY <2>1, <2>2, <2>3 DEF Next
<1> QED
  BY <1>1, <1>2, PTL DEF Spec
=============================================================================
