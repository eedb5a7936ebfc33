SPECIFICATION FairSpec
CONSTANTS
  Nil = Nil
  Servers = {"live", "again", "ready"}
  Port <- MCPort
CHECK_DEADLOCK FALSE
INVARIANT ShutdownIsFinal
PROPERTY CreatedServerStops
