----------------------- MODULE GatewayParametersTypes -----------------------
(***************************************************************************)
(* The shape of GatewayParameters.spec (apis/fgateway/v1alpha1): which     *)
(* structs nest in which, and of what kind every field is.  A struct type  *)
(* is a record from its fields to their kinds.                             *)
(***************************************************************************)

ptr    == [kind |-> "ptr"]     \* *T of a scalar: nil or a value
value  == [kind |-> "value"]   \* a comparable: its zero value or another
map    == [kind |-> "map"]     \* nil, or a finite map
slice  == [kind |-> "slice"]   \* nil, or a sequence
struct(fields) == [kind |-> "struct", fields |-> fields]  \* *T of a struct
inline(fields) == [kind |-> "inline", fields |-> fields]  \* a struct held by value

-----------------------------------------------------------------------------
(* Types of k8s.io/api/core/v1 *)

SELinuxOptions == [User |-> value, Role |-> value, Type |-> value, Level |-> value]

WindowsSecurityContextOptions ==
  [GMSACredentialSpecName |-> ptr, GMSACredentialSpec |-> ptr,
   RunAsUserName |-> ptr, HostProcess |-> ptr]

SeccompProfile == [Type |-> value, LocalhostProfile |-> ptr]

PodSecurityContext ==
  [SELinuxOptions |-> struct(SELinuxOptions),
   WindowsOptions |-> struct(WindowsSecurityContextOptions),
   RunAsUser |-> ptr, RunAsGroup |-> ptr, RunAsNonRoot |-> ptr,
   SupplementalGroups |-> slice, SupplementalGroupsPolicy |-> ptr,
   FSGroup |-> ptr, Sysctls |-> slice, FSGroupChangePolicy |-> ptr,
   SeccompProfile |-> struct(SeccompProfile), AppArmorProfile |-> ptr,
   SELinuxChangePolicy |-> ptr]

Capabilities == [Add |-> slice, Drop |-> slice]

SecurityContext ==
  [Capabilities |-> struct(Capabilities),
   SELinuxOptions |-> struct(SELinuxOptions),
   WindowsOptions |-> struct(WindowsSecurityContextOptions),
   RunAsUser |-> ptr, RunAsGroup |-> ptr, RunAsNonRoot |-> ptr, Privileged |-> ptr,
   ReadOnlyRootFilesystem |-> ptr, AllowPrivilegeEscalation |-> ptr, ProcMount |-> ptr,
   SeccompProfile |-> struct(SeccompProfile), AppArmorProfile |-> ptr]

ResourceRequirements == [Limits |-> map, Requests |-> map, Claims |-> slice]

NodeSelector == [NodeSelectorTerms |-> slice]

NodeAffinity ==
  [RequiredDuringSchedulingIgnoredDuringExecution |-> struct(NodeSelector),
   PreferredDuringSchedulingIgnoredDuringExecution |-> slice]

PodAffinity ==
  [RequiredDuringSchedulingIgnoredDuringExecution |-> slice,
   PreferredDuringSchedulingIgnoredDuringExecution |-> slice]

Affinity ==
  [NodeAffinity |-> struct(NodeAffinity), PodAffinity |-> struct(PodAffinity),
   PodAntiAffinity |-> struct(PodAffinity)]

ExecAction == [Command |-> slice]

HTTPGetAction ==
  [Path |-> value, Port |-> value, Host |-> value, Scheme |-> value, HTTPHeaders |-> slice]

TCPSocketAction == [Port |-> value, Host |-> value]

GRPCAction == [Port |-> value, Service |-> ptr]

ProbeHandler ==
  [Exec |-> struct(ExecAction), HTTPGet |-> struct(HTTPGetAction),
   TCPSocket |-> struct(TCPSocketAction), GRPC |-> struct(GRPCAction)]

Probe ==
  [ProbeHandler |-> inline(ProbeHandler), InitialDelaySeconds |-> value,
   TimeoutSeconds |-> value, PeriodSeconds |-> value, SuccessThreshold |-> value,
   FailureThreshold |-> value, TerminationGracePeriodSeconds |-> ptr]

-----------------------------------------------------------------------------
(* Types of the repository *)

Image == [Registry |-> ptr, Repository |-> ptr, Tag |-> ptr, Digest |-> ptr, PullPolicy |-> ptr]

Service == [Type |-> ptr, ClusterIP |-> ptr, ExtraLabels |-> map, ExtraAnnotations |-> map]

ServiceAccount == [ExtraLabels |-> map, ExtraAnnotations |-> map]

GracefulShutdownSpec == [Enabled |-> ptr, SleepTimeSeconds |-> ptr]

Pod ==
  [ExtraLabels |-> map, ExtraAnnotations |-> map,
   SecurityContext |-> struct(PodSecurityContext),
   ImagePullSecrets |-> slice, NodeSelector |-> map, Affinity |-> struct(Affinity),
   Tolerations |-> slice, GracefulShutdown |-> struct(GracefulShutdownSpec),
   TerminationGracePeriodSeconds |-> ptr,
   ReadinessProbe |-> struct(Probe), LivenessProbe |-> struct(Probe)]

ProxyDeployment == [Replicas |-> ptr]

EnvoyBootstrap == [LogLevel |-> ptr, ComponentLogLevels |-> map]

EnvoyContainer ==
  [Bootstrap |-> struct(EnvoyBootstrap), Image |-> struct(Image),
   SecurityContext |-> struct(SecurityContext), Resources |-> struct(ResourceRequirements)]

SdsBootstrap == [LogLevel |-> ptr]

SdsContainer ==
  [Image |-> struct(Image), SecurityContext |-> struct(SecurityContext),
   Resources |-> struct(ResourceRequirements), Bootstrap |-> struct(SdsBootstrap)]

IstioContainer ==
  [Image |-> struct(Image), SecurityContext |-> struct(SecurityContext),
   Resources |-> struct(ResourceRequirements), LogLevel |-> ptr,
   IstioDiscoveryAddress |-> ptr, IstioMetaMeshId |-> ptr, IstioMetaClusterId |-> ptr]

IstioIntegration == [IstioProxyContainer |-> struct(IstioContainer), CustomSidecars |-> slice]

StatsConfig ==
  [Enabled |-> ptr, RoutePrefixRewrite |-> ptr, EnableStatsRoute |-> ptr,
   StatsRoutePrefixRewrite |-> ptr]

AiExtensionStats == [CustomLabels |-> slice]

AiExtension ==
  [Enabled |-> ptr, Image |-> struct(Image), SecurityContext |-> struct(SecurityContext),
   Resources |-> struct(ResourceRequirements), Env |-> slice, Ports |-> slice,
   Stats |-> struct(AiExtensionStats)]

KubernetesProxyConfig ==
  [Deployment |-> struct(ProxyDeployment), EnvoyContainer |-> struct(EnvoyContainer),
   SdsContainer |-> struct(SdsContainer), PodTemplate |-> struct(Pod),
   Service |-> struct(Service), ServiceAccount |-> struct(ServiceAccount),
   Istio |-> struct(IstioIntegration), Stats |-> struct(StatsConfig),
   AiExtension |-> struct(AiExtension), FloatingUserId |-> ptr]
=============================================================================
