SPECIFICATION FairClients
CONSTANTS
  None = None
  Pods = {"p1", "p2"}
  Nodes = {"n1", "n2"}
  Streams = {"s1", "s2"}
  PodSpecs <- MCPodSpecs
  NodeLabels <- MCNodeLabels
  MaxEdits = 3
  FirstNodes <- MCFirstNodes
INVARIANTS
  AugmentedIsCurrent
  SameLabelsSameLocality
PROPERTIES
  AugmentedConverges
  ClientHasLocalityOfPod
\* The cluster stops changing after MaxEdits changes.
CHECK_DEADLOCK FALSE
