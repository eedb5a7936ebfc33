-------------------------- MODULE LocalityClients --------------------------
(***************************************************************************)
(* The pods with localities (LocalityPods) composed with their reader: the *)
(* streams of proxies, which callbacksCollection.add groups into unique    *)
(* clients by the augmented labels of their pods.  Of the bookkeeping only *)
(* what ConnectedClients promises is used, which UniqueClients implements. *)
(* All proxies have one role and one namespace, and the hash tells their   *)
(* labels apart: the name of a client is the label set.                    *)
(***************************************************************************)
EXTENDS LocalityPods

CONSTANT Streams   \* ids of streams, each used once

VARIABLES
  clients,       \* stream -> name of its unique client
  uniqClients,   \* name -> the client: the pod it was made for
  found,         \* stream -> the local variable pod of add
  ended          \* streams that are closed

podVars == <<apiVars, podCollection, nodeMetadataCollection, queue, fetched, augmented>>
clientVars == <<clients, uniqClients, found, ended>>
allVars == <<podVars, clientVars>>

Connected == INSTANCE ConnectedClients WITH
  conn <- clients, live <- DOMAIN uniqClients, Names <- {}, Nil <- None

InitClients ==
  /\ Init
  /\ clients = [s \in Streams |-> None]
  /\ uniqClients = << >>
  /\ found = [s \in Streams |-> None]
  /\ ended = {}

\* A pod without topology labels of its own, whose last event has been processed.
Plain(p) ==
  /\ podCollection[p] # None
  /\ Topology \cap DOMAIN podCollection[p].labels = {}
  /\ \A i \in DOMAIN queue : queue[i] # [kind |-> "pod", name |-> p]

\* A request of a stream of pod p: add looks the pod up before it takes the lock.
GetKey(s, p) ==
  /\ clients[s] = None /\ found[s] = None /\ s \notin ended
  /\ augmented[p] # None
  /\ found' = [found EXCEPT ![s] = [pod |-> augmented[p], plain |-> Plain(p)]]
  /\ UNCHANGED <<podVars, clients, uniqClients, ended>>

\* Under the lock: the client is that of the first stream, whatever pod this one has.
add(s) ==
  LET name == found[s].pod.AugmentedLabels IN
  /\ found[s] # None
  /\ uniqClients' = [n \in DOMAIN uniqClients \cup {name} |->
                      IF n \in DOMAIN uniqClients THEN uniqClients[n] ELSE found[s]]
  /\ Connected!Connect(s, name)
  /\ found' = [found EXCEPT ![s] = None]
  /\ UNCHANGED <<podVars, ended>>

cleanup(s) ==
  /\ uniqClients' = [n \in {clients[t] : t \in Streams \ {s}} \ {None} |-> uniqClients[n]]
  /\ Connected!Leave(s)
  /\ ended' = ended \cup {s}
  /\ UNCHANGED <<podVars, found>>

NextClients ==
  \/ Next /\ UNCHANGED clientVars
  \/ \E s \in Streams : add(s) \/ cleanup(s) \/ \E p \in Pods : GetKey(s, p)

SpecClients == InitClients /\ [][NextClients]_allVars

\* Informers deliver and the collection's goroutine runs; neither the cluster nor the
\* proxies need do anything.
FairClients == SpecClients /\ WF_vars(Deliver) /\ WF_vars(Process)

\* The locality published with a client is that of every stream that joins it: when the
\* node of a pod gets another zone, or the pod another node, its next stream does not
\* join the client that still carries the old locality.  Pods with topology labels of
\* their own are excepted.
ClientHasLocalityOfPod ==
  [][\A s \in Streams : clients[s] = None /\ clients'[s] # None =>
       LET client == uniqClients'[clients'[s]] IN
       found[s].plain /\ client.plain => client.pod.Locality = found[s].pod.Locality
    ]_allVars
=============================================================================
