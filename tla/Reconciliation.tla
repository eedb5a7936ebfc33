--------------------------- MODULE Reconciliation ---------------------------
(***************************************************************************)
(* What the Gateway controller promises, without events, queue and reads:  *)
(* a change that matters to a Gateway leaves it unsettled, and it settles  *)
(* only once the controller has worked on the Gateway as it is now.        *)
(***************************************************************************)
CONSTANTS Names, Nil

VARIABLES
  wanted,  \* name -> what decides about the objects of the Gateway, Nil without one
  done,    \* name -> what the controller has last worked from
  settled  \* the names for which nothing is under way

\* When the controller starts, everything is still to be done.
Init == settled = {}

\* A change is not done by the controller, and settles nothing.
Change ==
  /\ wanted' # wanted
  /\ UNCHANGED done
  /\ settled' \subseteq {k \in settled : wanted'[k] = wanted[k]}

\* The controller leaves alone what is settled; it may begin all over again.
Work ==
  /\ UNCHANGED wanted
  /\ \A k \in settled : done'[k] = done[k]
  /\ \A k \in settled' \ settled : wanted[k] \in {Nil, done'[k]}

Next == Change \/ Work

Spec == Init /\ [][Next]_<<wanted, done, settled>>
=============================================================================
