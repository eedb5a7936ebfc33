SPECIFICATION Spec
CONSTANTS
  Nil = Nil
  Zero = "zero"
  Defaults <- WindowsDefaults
  Overrides <- WindowsOverrides
CHECK_DEADLOCK FALSE
INVARIANT MergeIsLocal
