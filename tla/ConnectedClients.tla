-------------------------- MODULE ConnectedClients --------------------------
(***************************************************************************)
(* What the bookkeeping of krtcollections promises, without its counters:  *)
(* every stream belongs to at most one unique client, for as long as it is *)
(* connected, and the clients that exist are exactly those of the          *)
(* connected streams.                                                      *)
(***************************************************************************)
CONSTANTS Streams, Names, Nil

VARIABLES
  conn,   \* the unique client of each stream, Nil when it has none
  live    \* the unique clients that exist

Init ==
  /\ conn = [s \in Streams |-> Nil]
  /\ live = {}

\* A stream without a client gets one, which comes to life if it is new.
Connect(s, n) ==
  /\ conn[s] = Nil
  /\ conn' = [conn EXCEPT ![s] = n]
  /\ live' = live \cup {n}

\* A stream leaves; its client survives exactly if another stream has it.
Leave(s) ==
  /\ conn[s] # Nil
  /\ conn' = [conn EXCEPT ![s] = Nil]
  /\ live' = IF \E t \in Streams \ {s} : conn[t] = conn[s]
             THEN live ELSE live \ {conn[s]}

Next == \E s \in Streams : Leave(s) \/ \E n \in Names : Connect(s, n)

Spec == Init /\ [][Next]_<<conn, live>>
=============================================================================
