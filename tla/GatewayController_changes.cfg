SPECIFICATION FairSpec
CONSTANTS
  Nil = Nil
  Zero = "zero"
  SelfManaged = SelfManaged
  Gateways <- MCGateways
  ClassNames <- MCClasses
  ParametersRefs <- MCRefs
  Keys <- MCKeys
  KubeConfigs <- MCKubeConfigs
  Names <- MCNames
  ServiceSpecs <- MCServiceSpecs
  MaxEdits = 2
  Clusters <- MCClusters
INVARIANTS
  ResultHasOneMode
  ReconciledAsItIs
  AddressesFollowService
PROPERTIES
  AddressesAreOwn
  ImplementsReconciliation
  GatewaysSettle
