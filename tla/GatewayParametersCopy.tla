------------------------ MODULE GatewayParametersCopy ------------------------
(***************************************************************************)
(* apis/fgateway/v1alpha1/zz_generated.deepcopy.go: the client answers a   *)
(* read with DeepCopy of the object in its cache, and the caller writes    *)
(* into the copy.  DeepCopyInto assigns the whole struct and then gives    *)
(* some of its fields memory of their own; a reference field that it       *)
(* forgets is shared with the cache.  Every operator here is the set of    *)
(* paths to the references that the copy of its type shares.               *)
(***************************************************************************)
EXTENDS GatewayParametersTypes, Sequences

References(type) == {f \in DOMAIN type : type[f].kind \in {"ptr", "map", "slice", "struct"}}

\* own is a record from the fields that get memory of their own to what is shared below.
CopyStruct(type, own) ==
  {<<f>> : f \in References(type) \ DOMAIN own} \cup
  UNION {{<<f>> \o p : p \in own[f]} : f \in DOMAIN own}

\* A field that is copied with everything below it: a scalar, a map or slice of
\* scalars, or a type of k8s.io, whose copies are external.
Deep == {}
DeepFields(fields) == [f \in fields |-> Deep]

CopyImage == CopyStruct(Image, DeepFields({"Registry", "Repository", "Tag", "Digest", "PullPolicy"}))

CopyService ==
  CopyStruct(Service, DeepFields({"Type", "ClusterIP", "ExtraLabels", "ExtraAnnotations"}))

CopyServiceAccount == CopyStruct(ServiceAccount, DeepFields({"ExtraLabels", "ExtraAnnotations"}))

CopyGracefulShutdownSpec ==
  CopyStruct(GracefulShutdownSpec, DeepFields({"Enabled", "SleepTimeSeconds"}))

CopyPod ==
  CopyStruct(Pod,
    [ExtraLabels |-> Deep, ExtraAnnotations |-> Deep, SecurityContext |-> Deep,
     ImagePullSecrets |-> Deep, NodeSelector |-> Deep, Affinity |-> Deep,
     Tolerations |-> Deep, GracefulShutdown |-> CopyGracefulShutdownSpec,
     TerminationGracePeriodSeconds |-> Deep, ReadinessProbe |-> Deep, LivenessProbe |-> Deep])

CopyProxyDeployment == CopyStruct(ProxyDeployment, DeepFields({"Replicas"}))

\* Mutant: the map is shared.
CopyEnvoyBootstrapShallow == CopyStruct(EnvoyBootstrap, DeepFields({"LogLevel"}))

CopyEnvoyBootstrap == CopyStruct(EnvoyBootstrap, DeepFields({"LogLevel", "ComponentLogLevels"}))

CopyEnvoyContainer ==
  CopyStruct(EnvoyContainer,
    [Bootstrap |-> CopyEnvoyBootstrap, Image |-> CopyImage,
     SecurityContext |-> Deep, Resources |-> Deep])

CopySdsBootstrap == CopyStruct(SdsBootstrap, DeepFields({"LogLevel"}))

CopySdsContainer ==
  CopyStruct(SdsContainer,
    [Image |-> CopyImage, SecurityContext |-> Deep, Resources |-> Deep,
     Bootstrap |-> CopySdsBootstrap])

CopyIstioContainer ==
  CopyStruct(IstioContainer,
    [Image |-> CopyImage, SecurityContext |-> Deep, Resources |-> Deep, LogLevel |-> Deep,
     IstioDiscoveryAddress |-> Deep, IstioMetaMeshId |-> Deep, IstioMetaClusterId |-> Deep])

CopyIstioIntegration ==
  CopyStruct(IstioIntegration,
    [IstioProxyContainer |-> CopyIstioContainer, CustomSidecars |-> Deep])

CopyStatsConfig ==
  CopyStruct(StatsConfig,
    DeepFields({"Enabled", "RoutePrefixRewrite", "EnableStatsRoute", "StatsRoutePrefixRewrite"}))

\* The elements of the slice of AiExtensionStats; its other fields are strings.
CopyCustomLabel ==
  CopyStruct([MetadataNamespace |-> ptr, KeyDelimiter |-> ptr],
             DeepFields({"MetadataNamespace", "KeyDelimiter"}))

CopyAiExtensionStats == CopyStruct(AiExtensionStats, [CustomLabels |-> CopyCustomLabel])

CopyAiExtension ==
  CopyStruct(AiExtension,
    [Enabled |-> Deep, Image |-> CopyImage, SecurityContext |-> Deep, Resources |-> Deep,
     Env |-> Deep, Ports |-> Deep, Stats |-> CopyAiExtensionStats])

CopyKubernetesProxyConfig ==
  CopyStruct(KubernetesProxyConfig,
    [Deployment |-> CopyProxyDeployment, EnvoyContainer |-> CopyEnvoyContainer,
     SdsContainer |-> CopySdsContainer, PodTemplate |-> CopyPod, Service |-> CopyService,
     ServiceAccount |-> CopyServiceAccount, Istio |-> CopyIstioIntegration,
     Stats |-> CopyStatsConfig, AiExtension |-> CopyAiExtension, FloatingUserId |-> Deep])

\* SelfManagedGateway has no fields.
CopyGatewayParametersSpec ==
  CopyStruct([Kube |-> struct(KubernetesProxyConfig), SelfManaged |-> ptr],
             [Kube |-> CopyKubernetesProxyConfig, SelfManaged |-> Deep])

\* GatewayParameters.DeepCopy, for spec; the status has no fields.
CopyGatewayParameters == CopyGatewayParametersSpec
=============================================================================
