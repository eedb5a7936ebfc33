SPECIFICATION FairSpec
CONSTANTS
  s1 = s1
  s2 = s2
  s3 = s3
  Nil = Nil
  Streams <- MCStreams
  Roles <- TwoGateways
  GatewayPrefix <- MCGatewayPrefix
  NodeIds <- WellFormedId
  PodRefs <- NoPodRefs
  LabelSets <- MCLabelSets
  Localities <- MCLocalities
  HashLables <- InjectiveHash
  UsePods = FALSE
  FetchRequests <- MCFetches
  MaxUint64 = 3
INVARIANTS
  RefCountsExact
  WatchKeyIsLive
  NoLostUpdate
PROPERTY PublishedConverges
CHECK_DEADLOCK FALSE
