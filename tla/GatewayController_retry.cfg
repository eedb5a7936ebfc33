SPECIFICATION Spec
CONSTANTS
  Nil = Nil
  Zero = "zero"
  SelfManaged = SelfManaged
  Gateways <- MCGateways
  ClassNames <- MCClasses
  ParametersRefs <- MCRefs
  Keys <- MCKeys
  KubeConfigs <- MCKubeConfigs
  Names <- MCNames
  ServiceSpecs <- MCServiceSpecs
  MaxEdits = 1
  Clusters <- MCClusters
INVARIANT FailedUpdateIsRetried
