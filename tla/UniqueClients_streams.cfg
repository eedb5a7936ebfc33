SPECIFICATION Spec
CONSTANTS
  s1 = s1
  s2 = s2
  s3 = s3
  Nil = Nil
  Streams <- TwoStreams
  Roles <- MCRoles
  GatewayPrefix <- MCGatewayPrefix
  NodeIds <- WellFormedId
  PodRefs <- OnePod
  LabelSets <- MCLabelSets
  Localities <- TwoLocalities
  HashLables <- InjectiveHash
  UsePods = TRUE
  FetchRequests <- NoFetches
  MaxUint64 = 2
SYMMETRY Symmetry
INVARIANTS
  TypeOK
  RefCountsExact
  WatchKeyIsLive
  NoGhostClients
  NoLostUpdate
PROPERTIES
  ClientIsFrozen
  SharedClientSameIdentity
  ImplementsConnectedClients
CHECK_DEADLOCK FALSE
