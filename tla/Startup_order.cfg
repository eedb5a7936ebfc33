SPECIFICATION FairSpec
CONSTANTS
  PodInformers <- MCPodInformers
  Crds = "crds"
  Nil = Nil
INVARIANT InformersComplete
PROPERTIES
  RefusalsEnd
  SyncCompletes
\* The process exits, or waits for the API server.
CHECK_DEADLOCK FALSE
