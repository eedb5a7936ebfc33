--------------------------- MODULE MCProbeServer ---------------------------
(* Three servers, two of them on the same port. *)
EXTENDS ProbeServer

MCPort == [s \in Servers |-> IF s = "ready" THEN 8081 ELSE 8080]
=============================================================================
