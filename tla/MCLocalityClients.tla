------------------------- MODULE MCLocalityClients -------------------------
(* Two pods and two nodes that come, change and go in any order, and two streams. *)
EXTENDS LocalityClients

app == [app |-> "gw"]
MCNodeLabels ==
  {[region |-> "r", zone |-> "z1"], [region |-> "r", zone |-> "z2", arch |-> "x"]}
MCFirstNodes == [n1 |-> [region |-> "r", zone |-> "z1"], n2 |-> None]
onNode(labels, n) == [labels |-> labels, nodeName |-> n, PodIPs |-> <<>>, PodIP |-> None]

\* A pod with a topology label of its own, one without a node and pods with addresses.
MCPodSpecs ==
  {onNode([app |-> "gw", region |-> "own"], "n1"), onNode(app, None),
   [onNode(app, "n1") EXCEPT !.PodIPs = <<"ip1", "ip2">>, !.PodIP = "ip1"],
   [onNode(app, "n2") EXCEPT !.PodIP = "ip3"]}
=============================================================================
