SPECIFICATION Spec
CONSTANTS
  Nil = Nil
  Zero = "zero"
  Defaults <- MapDefaults
  Overrides <- EmptyMaps
CHECK_DEADLOCK FALSE
INVARIANT MergeIsLocal
