---------------------------- MODULE ProbeServer ----------------------------
(***************************************************************************)
(* pkg/utils/probes: StartProbeServer starts two goroutines.  One creates  *)
(* the HTTP server and serves; the other waits for the context and shuts   *)
(* the server down.  They share the variable server without                *)
(* synchronisation.  It is one word, so the reader sees nil or the server, *)
(* and nil no longer once ListenAndServe has begun: the lock it takes      *)
(* makes the write visible.                                                *)
(***************************************************************************)
CONSTANTS
  Servers,   \* calls of StartProbeServer with the same context
  Port,      \* Servers -> port
  Nil

VARIABLES
  ctxDone,     \* the context is cancelled
  server,      \* the shared variable of each call: Nil or "server"
  serving,     \* goroutine that creates the server and serves
  stopping,    \* goroutine that waits for the context
  inShutdown   \* http.Server: Shutdown has been called

vars == <<ctxDone, server, serving, stopping, inShutdown>>

Init ==
  /\ ctxDone = FALSE
  /\ server = [s \in Servers |-> Nil]
  /\ serving = [s \in Servers |-> "off"]
  /\ stopping = [s \in Servers |-> "off"]
  /\ inShutdown = [s \in Servers |-> FALSE]

\* External: whoever owns the context cancels it.
Cancel ==
  /\ ~ctxDone
  /\ ctxDone' = TRUE
  /\ UNCHANGED <<server, serving, stopping, inShutdown>>

StartProbeServer(s) ==
  /\ serving[s] = "off"
  /\ serving' = [serving EXCEPT ![s] = "create"]
  /\ stopping' = [stopping EXCEPT ![s] = "wait"]
  /\ UNCHANGED <<ctxDone, server, inShutdown>>

CreateServer(s) ==
  /\ serving[s] = "create"
  /\ server' = [server EXCEPT ![s] = "server"]
  /\ serving' = [serving EXCEPT ![s] = "listen"]
  /\ UNCHANGED <<ctxDone, stopping, inShutdown>>

\* External: http.Server.ListenAndServe fails when the port is taken or for another reason,
\* and returns at once when the server has been shut down.  The error is only logged.
ListenAndServe(s) ==
  LET taken == \E t \in Servers \ {s} : serving[t] = "serve" /\ Port[t] = Port[s] IN
  /\ serving[s] = "listen"
  /\ \E err \in BOOLEAN :
       serving' = [serving EXCEPT ![s] =
                     IF inShutdown[s] \/ taken \/ err THEN "closed" ELSE "serve"]
  /\ UNCHANGED <<ctxDone, server, stopping, inShutdown>>

\* ListenAndServe returns another error than ErrServerClosed while it serves: that is
\* logged too, and nothing starts the server again.
ServeFails(s) ==
  /\ serving[s] = "serve"
  /\ serving' = [serving EXCEPT ![s] = "closed"]
  /\ UNCHANGED <<ctxDone, server, stopping, inShutdown>>

\* Mutant: the test for nil is the wrong way round.
ReadServerInverted(s) ==
  /\ stopping[s] = "wait"
  /\ ctxDone
  /\ stopping' = [stopping EXCEPT ![s] = IF server[s] = Nil THEN "shutdown" ELSE "none"]
  /\ UNCHANGED <<ctxDone, server, serving, inShutdown>>

\* The goroutine wakes up, and ends ("none") if it finds no server.
ReadServer(s) ==
  /\ stopping[s] = "wait"
  /\ ctxDone
  /\ stopping' = [stopping EXCEPT ![s] = IF server[s] = Nil THEN "none" ELSE "shutdown"]
  /\ UNCHANGED <<ctxDone, server, serving, inShutdown>>

\* Mutant: only a server that already listens is told.
ShutdownListener(s) ==
  /\ stopping[s] = "shutdown"
  /\ stopping' = [stopping EXCEPT ![s] = "done"]
  /\ serving' = [serving EXCEPT ![s] = IF @ = "serve" THEN "closed" ELSE @]
  /\ UNCHANGED <<ctxDone, server, inShutdown>>

\* Shutdown closes the listener, if there is one yet, and makes ListenAndServe return;
\* what it does within its two seconds about open connections changes nothing here.
Shutdown(s) ==
  /\ stopping[s] = "shutdown"
  /\ inShutdown' = [inShutdown EXCEPT ![s] = TRUE]
  /\ stopping' = [stopping EXCEPT ![s] = "done"]
  /\ serving' = [serving EXCEPT ![s] = IF @ = "serve" THEN "closed" ELSE @]
  /\ UNCHANGED <<ctxDone, server>>

Serve(s) == CreateServer(s) \/ ListenAndServe(s)
Stop(s)  == ReadServer(s) \/ Shutdown(s)

Next ==
  \/ Cancel
  \/ \E s \in Servers : StartProbeServer(s) \/ Serve(s) \/ ServeFails(s) \/ Stop(s)

Spec == Init /\ [][Next]_vars

\* Goroutines that can run do run; nobody need cancel, and no server need fail.
FairSpec == Spec /\ \A s \in Servers : WF_vars(Serve(s)) /\ WF_vars(Stop(s))

-----------------------------------------------------------------------------
(* Properties *)

\* A server that was shut down does not answer, although Shutdown may be called before
\* ListenAndServe has begun, when there is no listener to close: the servers that live on
\* after the context are those whose second goroutine found nil.
ShutdownIsFinal == \A s \in Servers : stopping[s] = "done" => serving[s] # "serve"

\* A server that existed when the goroutine that shuts it down woke up stops, also if
\* Shutdown overtakes ListenAndServe.  One that is created later is never shut down: the
\* goroutine has found nil.
CreatedServerStops ==
  \A s \in Servers :
    (ctxDone /\ server[s] # Nil /\ stopping[s] = "wait") ~> serving[s] = "closed"
=============================================================================
