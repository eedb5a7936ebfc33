SPECIFICATION Spec
CONSTANTS
  s1 = s1
  s2 = s2
  s3 = s3
  Nil = Nil
  Streams <- TwoStreams
  Roles <- MCRoles
  GatewayPrefix <- MCGatewayPrefix
  NodeIds <- OneNodeId
  PodRefs <- OnePod
  LabelSets <- MCLabelSets
  Localities <- MCLocalities
  HashLables <- InjectiveHash
  UsePods = TRUE
  FetchRequests <- MCFetches
  MaxUint64 = 2
INVARIANT
  FetchNeverPanics
CHECK_DEADLOCK FALSE
