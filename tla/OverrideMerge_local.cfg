SPECIFICATION Spec
CONSTANTS
  Nil = Nil
  Zero = "zero"
  Defaults <- AllDefaults
  Overrides <- LocalOverrides
CHECK_DEADLOCK FALSE
INVARIANTS
  MergeIsLocal
  CacheUntouched
