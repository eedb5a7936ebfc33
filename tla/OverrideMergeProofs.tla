------------------------ MODULE OverrideMergeProofs ------------------------
(***************************************************************************)
(* The generated deep copies share no reference with the object that they  *)
(* copy, so that the merge of an override writes to private memory only,   *)
(* whatever fields the default and the override have.                      *)
(***************************************************************************)
EXTENDS OverrideMerge, TLAPS

-----------------------------------------------------------------------------
(* Copies *)

\* DeepCopyInto that treats every reference field, and shares nothing below.
LEMMA CopiesAll ==
  ASSUME NEW type, NEW own, References(type) \subseteq DOMAIN own,
         \A f \in DOMAIN own : own[f] = {}
  PROVE  CopyStruct(type, own) = {}
<1>1. {<<f>> : f \in References(type) \ DOMAIN own} = {}
  OBVIOUS
<1>2. \A f \in DOMAIN own : {<<f>> \o p : p \in own[f]} = {}
  OBVIOUS
<1> QED
  BY <1>1, <1>2 DEF CopyStruct

\* The same for a type without structs of the repository below it.
LEMMA CopiesFields ==
  ASSUME NEW type, NEW fields, DOMAIN type \subseteq fields
  PROVE  CopyStruct(type, DeepFields(fields)) = {}
<1>1. References(type) \subseteq DOMAIN DeepFields(fields)
  BY DEF References, DeepFields
<1>2. \A f \in DOMAIN DeepFields(fields) : DeepFields(fields)[f] = {}
  BY DEF DeepFields, Deep
<1> QED
  BY <1>1, <1>2, CopiesAll

\* The copies that have scalars, maps, slices and types of k8s.io only.
LEMMA LeafCopies ==
  /\ CopyImage = {} /\ CopyService = {} /\ CopyServiceAccount = {}
  /\ CopyGracefulShutdownSpec = {} /\ CopyProxyDeployment = {} /\ CopyEnvoyBootstrap = {}
  /\ CopySdsBootstrap = {} /\ CopyStatsConfig = {} /\ CopyCustomLabel = {}
<1>1. CopyImage = {}
  BY CopiesFields DEF CopyImage, Image
<1>2. CopyService = {}
  BY CopiesFields DEF CopyService, Service
<1>3. CopyServiceAccount = {}
  BY CopiesFields DEF CopyServiceAccount, ServiceAccount
<1>4. CopyGracefulShutdownSpec = {}
  BY CopiesFields DEF CopyGracefulShutdownSpec, GracefulShutdownSpec
<1>5. CopyProxyDeployment = {}
  BY CopiesFields DEF CopyProxyDeployment, ProxyDeployment
<1>6. CopyEnvoyBootstrap = {}
  BY CopiesFields DEF CopyEnvoyBootstrap, EnvoyBootstrap
<1>7. CopySdsBootstrap = {}
  BY CopiesFields DEF CopySdsBootstrap, SdsBootstrap
<1>8. CopyStatsConfig = {}
  BY CopiesFields DEF CopyStatsConfig, StatsConfig
<1>9. CopyCustomLabel = {}
  BY CopiesFields DEF CopyCustomLabel
<1> QED
  BY <1>1, <1>2, <1>3, <1>4, <1>5, <1>6, <1>7, <1>8, <1>9

\* The copies that call those.
LEMMA NestedCopies ==
  /\ CopyPod = {} /\ CopyEnvoyContainer = {} /\ CopySdsContainer = {}
  /\ CopyIstioIntegration = {} /\ CopyAiExtension = {}
<1> USE LeafCopies DEF Deep
<1>1. CopyPod = {}
  BY CopiesAll DEF CopyPod, Pod, References
<1>2. CopyEnvoyContainer = {}
  BY CopiesAll DEF CopyEnvoyContainer, EnvoyContainer, References
<1>3. CopySdsContainer = {}
  BY CopiesAll DEF CopySdsContainer, SdsContainer, References
<1>4. CopyIstioContainer = {}
  BY CopiesAll DEF CopyIstioContainer, IstioContainer, References
<1>5. CopyIstioIntegration = {}
  BY <1>4, CopiesAll DEF CopyIstioIntegration, IstioIntegration, References
<1>6. CopyAiExtensionStats = {}
  BY CopiesAll DEF CopyAiExtensionStats, AiExtensionStats, References
<1>7. CopyAiExtension = {}
  BY <1>6, CopiesAll DEF CopyAiExtension, AiExtension, References
<1> QED
  BY <1>1, <1>2, <1>3, <1>5, <1>7

\* GatewayParameters.DeepCopy gives every reference, at any depth, memory of its own.
LEMMA NothingShared == CopyGatewayParameters = {}
<1> USE DEF Deep
<1>1. CopyKubernetesProxyConfig = {}
  BY LeafCopies, NestedCopies, CopiesAll
     DEF CopyKubernetesProxyConfig, KubernetesProxyConfig, References
<1>2. CopyGatewayParametersSpec = {}
  BY <1>1, CopiesAll DEF CopyGatewayParametersSpec, References
<1> QED
  BY <1>2 DEF CopyGatewayParameters

-----------------------------------------------------------------------------
(* The merge *)

\* Through no reference nothing is written.
LEMMA WriteThroughNothing ==
  ASSUME NEW new
  PROVE  WriteThrough({}, new) = dst
<1> DEFINE put(p, c) == Put(c, p, Get(new, p))
           step(f, s) == IF s = {} THEN dst
                         ELSE LET x == CHOOSE x \in s : TRUE IN put(x, f[s \ {x}])
           iter == CHOOSE f : f = [s \in SUBSET {} |-> step(f, s)]
<1>1. WriteThrough({}, new) = FoldSet(put, dst, {})
  BY DEF WriteThrough
<1>2. FoldSet(put, dst, {}) = iter[{}]
  BY DEF FoldSet, MapThenFoldSet
<1>3. [s \in SUBSET {} |-> dst] = [s \in SUBSET {} |-> step([u \in SUBSET {} |-> dst], s)]
  OBVIOUS
<1>4. iter = [s \in SUBSET {} |-> step(iter, s)]
  BY <1>3
<1> HIDE DEF iter
<1> QED
  BY <1>1, <1>2, <1>4

\* deepMergeGatewayParameters works in place on the copy that the client has returned, and
\* the object in the cache of the client stays as it was: the parameters of one Gateway
\* do not become defaults of the others, for any fields that the two objects have.
THEOREM CacheStaysPrivate == Spec => []CacheUntouched
<1>1. Init => CacheUntouched
  BY DEF Init, CacheUntouched
<1>2. Shared = {}
  BY NothingShared DEF Shared
<1>3. CacheUntouched /\ [Next]_vars => CacheUntouched'
  BY <1>2, WriteThroughNothing DEF Next, Merge, vars, CacheUntouched
<1> QED
  BY <1>1, <1>3, PTL DEF Spec
=============================================================================
