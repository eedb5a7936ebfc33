SPECIFICATION Spec
CONSTANTS
  Nil = Nil
  Zero = "zero"
  SelfManaged = SelfManaged
  Gateways <- MCGateways
  ClassNames <- MCClasses
  ParametersRefs <- MCRefs
  Keys <- MCKeys
  KubeConfigs <- MCKubeConfigs
INVARIANT
  OverrideTakesPart
