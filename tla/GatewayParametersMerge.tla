----------------------- MODULE GatewayParametersMerge -----------------------
(***************************************************************************)
(* deployer/merge.go: how the GatewayParameters of a Gateway (src) are     *)
(* laid over the default ones of its GatewayClass (dst).  The code assigns *)
(* field by field into dst, so a field that is not listed keeps dst's      *)
(* value; here that is [dst EXCEPT !.field = ...].                         *)
(***************************************************************************)
EXTENDS Sequences

CONSTANTS
  Nil,   \* nil pointer, map or slice
  Zero   \* the zero value of a comparable type

-----------------------------------------------------------------------------
(* Rules for one field *)

mergePointers(dst, src) == IF src = Nil THEN dst ELSE src

deepMergeMaps(dst, src) ==
  CASE src = Nil -> dst
    [] src # Nil /\ (dst = Nil \/ src = <<>>) -> src
    [] OTHER -> [k \in DOMAIN dst \cup DOMAIN src |->
                   IF k \in DOMAIN src THEN src[k] ELSE dst[k]]

deepMergeSlices(dst, src) ==
  CASE src = Nil -> dst
    [] src # Nil /\ (dst = Nil \/ src = <<>>) -> src
    [] OTHER -> dst \o src

overrideSlices(dst, src) == IF src = Nil THEN dst ELSE src

mergeComparable(dst, src) == IF src = Zero THEN dst ELSE src

mergeCustomSidecars(dst, src) == IF src = Nil \/ src = <<>> THEN dst ELSE src

\* Mutant: a Gateway may override what the default has set.
keepOverride(dst, src) == mergePointers(dst, src)

\* The fields of the Istio container that a Gateway may not override.
keepDefault(dst, src) == IF dst = Nil THEN src ELSE dst

mergeIntOrString(dst, src) == mergeComparable(dst, src)

\* Every merge of two struct pointers starts like this.
mergeStructs(dst, src, merged) ==
  CASE src = Nil -> dst
    [] src # Nil /\ dst = Nil -> src
    [] OTHER -> merged

\* All the fields in fs by the same rule.
mergeFields(dst, src, fs, rule(_, _)) ==
  [f \in DOMAIN dst |-> IF f \in fs THEN rule(dst[f], src[f]) ELSE dst[f]]

-----------------------------------------------------------------------------
(* Pods and containers *)

deepMergeSELinuxOptions(dst, src) ==
  mergeStructs(dst, src,
    mergeFields(dst, src, {"User", "Role", "Type", "Level"}, mergeComparable))

deepMergeWindowsSecurityContextOptions(dst, src) ==
  mergeStructs(dst, src,
    [dst EXCEPT
       !.GMSACredentialSpecName = mergePointers(dst.GMSACredentialSpec, src.GMSACredentialSpec),
       !.GMSACredentialSpec = mergePointers(@, src.GMSACredentialSpec),
       !.RunAsUserName = mergePointers(@, src.RunAsUserName),
       !.HostProcess = mergePointers(@, src.HostProcess)])

deepMergeSeccompProfile(dst, src) ==
  mergeStructs(dst, src,
    [dst EXCEPT !.Type = mergeComparable(@, src.Type),
                !.LocalhostProfile = mergePointers(@, src.LocalhostProfile)])

deepMergePodSecurityContext(dst, src) ==
  mergeStructs(dst, src,
    [mergeFields(dst, src,
       {"RunAsUser", "RunAsGroup", "RunAsNonRoot", "FSGroup", "FSGroupChangePolicy"},
       mergePointers)
     EXCEPT !.SELinuxOptions = deepMergeSELinuxOptions(@, src.SELinuxOptions),
            !.WindowsOptions = deepMergeWindowsSecurityContextOptions(@, src.WindowsOptions),
            !.SupplementalGroups = deepMergeSlices(@, src.SupplementalGroups),
            !.Sysctls = deepMergeSlices(@, src.Sysctls),
            !.SeccompProfile = deepMergeSeccompProfile(@, src.SeccompProfile)])

deepMergeCapabilities(dst, src) ==
  mergeStructs(dst, src, mergeFields(dst, src, {"Add", "Drop"}, deepMergeSlices))

deepMergeSecurityContext(dst, src) ==
  mergeStructs(dst, src,
    [mergeFields(dst, src,
       {"RunAsUser", "RunAsGroup", "RunAsNonRoot", "Privileged", "ReadOnlyRootFilesystem",
        "AllowPrivilegeEscalation", "ProcMount"}, mergePointers)
     EXCEPT !.Capabilities = deepMergeCapabilities(@, src.Capabilities),
            !.SELinuxOptions = deepMergeSELinuxOptions(@, src.SELinuxOptions),
            !.WindowsOptions = deepMergeWindowsSecurityContextOptions(@, src.WindowsOptions),
            !.SeccompProfile = deepMergeSeccompProfile(@, src.SeccompProfile)])

deepMergeResourceRequirements(dst, src) ==
  mergeStructs(dst, src, mergeFields(dst, src, {"Limits", "Requests"}, deepMergeMaps))

deepMergeImage(dst, src) ==
  mergeStructs(dst, src,
    mergeFields(dst, src, {"Registry", "Repository", "Tag", "Digest", "PullPolicy"},
                mergePointers))

deepMergeNodeSelector(dst, src) ==
  mergeStructs(dst, src, mergeFields(dst, src, {"NodeSelectorTerms"}, deepMergeSlices))

deepMergeNodeAffinity(dst, src) ==
  mergeStructs(dst, src,
    [dst EXCEPT
       !.RequiredDuringSchedulingIgnoredDuringExecution =
         deepMergeNodeSelector(@, src.RequiredDuringSchedulingIgnoredDuringExecution),
       !.PreferredDuringSchedulingIgnoredDuringExecution =
         deepMergeSlices(@, src.PreferredDuringSchedulingIgnoredDuringExecution)])

AffinityTerms ==
  {"RequiredDuringSchedulingIgnoredDuringExecution",
   "PreferredDuringSchedulingIgnoredDuringExecution"}

deepMergePodAffinity(dst, src) ==
  mergeStructs(dst, src, mergeFields(dst, src, AffinityTerms, deepMergeSlices))

deepMergePodAntiAffinity(dst, src) ==
  mergeStructs(dst, src, mergeFields(dst, src, AffinityTerms, deepMergeSlices))

deepMergeAffinity(dst, src) ==
  mergeStructs(dst, src,
    [dst EXCEPT !.NodeAffinity = deepMergeNodeAffinity(@, src.NodeAffinity),
                !.PodAffinity = deepMergePodAffinity(@, src.PodAffinity),
                !.PodAntiAffinity = deepMergePodAntiAffinity(@, src.PodAntiAffinity)])

-----------------------------------------------------------------------------
(* Probes *)

deepMergeExecAction(dst, src) ==
  mergeStructs(dst, src, [dst EXCEPT !.Command = overrideSlices(@, src.Command)])

deepMergeHTTPGetAction(dst, src) ==
  mergeStructs(dst, src,
    [mergeFields(dst, src, {"Path", "Host", "Scheme"}, mergeComparable)
     EXCEPT !.Port = mergeIntOrString(@, src.Port),
            !.HTTPHeaders = deepMergeSlices(@, src.HTTPHeaders)])

deepMergeTCPSocketAction(dst, src) ==
  mergeStructs(dst, src,
    [dst EXCEPT !.Port = mergeIntOrString(@, src.Port),
                !.Host = mergeComparable(@, src.Host)])

deepMergeGRPCAction(dst, src) ==
  mergeStructs(dst, src,
    [dst EXCEPT !.Port = mergeComparable(@, src.Port),
                !.Service = mergePointers(@, src.Service)])

\* The handlers are held by value: neither side can be nil.
deepMergeProbeHandler(dst, src) ==
  [dst EXCEPT !.Exec = deepMergeExecAction(@, src.Exec),
              !.HTTPGet = deepMergeHTTPGetAction(@, src.HTTPGet),
              !.TCPSocket = deepMergeTCPSocketAction(@, src.TCPSocket),
              !.GRPC = deepMergeGRPCAction(@, src.GRPC)]

deepMergeProbe(dst, src) ==
  mergeStructs(dst, src,
    [mergeFields(dst, src,
       {"InitialDelaySeconds", "TimeoutSeconds", "PeriodSeconds", "SuccessThreshold",
        "FailureThreshold"}, mergeComparable)
     EXCEPT !.ProbeHandler = deepMergeProbeHandler(@, src.ProbeHandler),
            !.TerminationGracePeriodSeconds =
              mergePointers(@, src.TerminationGracePeriodSeconds)])

-----------------------------------------------------------------------------
(* The parts of a proxy *)

deepMergeGracefulShutdown(dst, src) ==
  mergeStructs(dst, src, mergeFields(dst, src, {"Enabled", "SleepTimeSeconds"}, mergePointers))

deepMergePodTemplate(dst, src) ==
  mergeStructs(dst, src,
    [mergeFields(dst, src, {"ExtraLabels", "ExtraAnnotations", "NodeSelector"}, deepMergeMaps)
     EXCEPT !.SecurityContext = deepMergePodSecurityContext(@, src.SecurityContext),
            !.ImagePullSecrets = deepMergeSlices(@, src.ImagePullSecrets),
            !.Affinity = deepMergeAffinity(@, src.Affinity),
            !.Tolerations = deepMergeSlices(@, src.Tolerations),
            !.GracefulShutdown = deepMergeGracefulShutdown(@, src.GracefulShutdown),
            !.TerminationGracePeriodSeconds =
              mergePointers(@, src.TerminationGracePeriodSeconds),
            !.ReadinessProbe = deepMergeProbe(@, src.ReadinessProbe),
            !.LivenessProbe = deepMergeProbe(@, src.LivenessProbe)])

deepMergeService(dst, src) ==
  mergeStructs(dst, src,
    [mergeFields(dst, src, {"Type", "ClusterIP"}, mergePointers)
     EXCEPT !.ExtraLabels = deepMergeMaps(@, src.ExtraLabels),
            !.ExtraAnnotations = deepMergeMaps(@, src.ExtraAnnotations)])

deepMergeServiceAccount(dst, src) ==
  mergeStructs(dst, src,
    mergeFields(dst, src, {"ExtraLabels", "ExtraAnnotations"}, deepMergeMaps))

deepMergeSdsBootstrap(dst, src) ==
  mergeStructs(dst, src, [dst EXCEPT !.LogLevel = mergePointers(@, src.LogLevel)])

deepMergeSdsContainer(dst, src) ==
  mergeStructs(dst, src,
    [dst EXCEPT !.Image = deepMergeImage(@, src.Image),
                !.SecurityContext = deepMergeSecurityContext(@, src.SecurityContext),
                !.Resources = deepMergeResourceRequirements(@, src.Resources),
                !.Bootstrap = deepMergeSdsBootstrap(@, src.Bootstrap)])

deepMergeIstioContainer(dst, src) ==
  mergeStructs(dst, src,
    [mergeFields(dst, src, {"IstioDiscoveryAddress", "IstioMetaMeshId", "IstioMetaClusterId"},
                 keepDefault)
     EXCEPT !.Image = deepMergeImage(@, src.Image),
            !.SecurityContext = deepMergeSecurityContext(@, src.SecurityContext),
            !.Resources = deepMergeResourceRequirements(@, src.Resources),
            !.LogLevel = mergePointers(@, src.LogLevel)])

deepMergeIstioIntegration(dst, src) ==
  mergeStructs(dst, src,
    [dst EXCEPT
       !.IstioProxyContainer = deepMergeIstioContainer(@, src.IstioProxyContainer),
       !.CustomSidecars = mergeCustomSidecars(@, src.CustomSidecars)])

deepMergeEnvoyBootstrap(dst, src) ==
  mergeStructs(dst, src,
    [dst EXCEPT !.LogLevel = mergePointers(@, src.LogLevel),
                !.ComponentLogLevels = deepMergeMaps(@, src.ComponentLogLevels)])

deepMergeEnvoyContainer(dst, src) ==
  mergeStructs(dst, src,
    [dst EXCEPT !.Bootstrap = deepMergeEnvoyBootstrap(@, src.Bootstrap),
                !.Image = deepMergeImage(@, src.Image),
                !.SecurityContext = deepMergeSecurityContext(@, src.SecurityContext),
                !.Resources = deepMergeResourceRequirements(@, src.Resources)])

deepMergeStatsConfig(dst, src) ==
  mergeStructs(dst, src,
    mergeFields(dst, src,
      {"Enabled", "RoutePrefixRewrite", "EnableStatsRoute", "StatsRoutePrefixRewrite"},
      mergePointers))

deepMergeDeployment(dst, src) ==
  mergeStructs(dst, src, [dst EXCEPT !.Replicas = mergePointers(@, src.Replicas)])

deepMergeAIExtensionStats(dst, src) ==
  mergeStructs(dst, src, [dst EXCEPT !.CustomLabels = deepMergeSlices(@, src.CustomLabels)])

deepMergeAIExtension(dst, src) ==
  mergeStructs(dst, src,
    [mergeFields(dst, src, {"Env", "Ports"}, deepMergeSlices)
     EXCEPT !.Enabled = mergePointers(@, src.Enabled),
            !.Image = deepMergeImage(@, src.Image),
            !.SecurityContext = deepMergeSecurityContext(@, src.SecurityContext),
            !.Resources = deepMergeResourceRequirements(@, src.Resources),
            !.Stats = deepMergeAIExtensionStats(@, src.Stats)])

\* The assignments to dst.Spec.Kube when both sides have one.
mergeKube(dst, src) ==
  [dst EXCEPT !.Deployment = deepMergeDeployment(@, src.Deployment),
              !.EnvoyContainer = deepMergeEnvoyContainer(@, src.EnvoyContainer),
              !.SdsContainer = deepMergeSdsContainer(@, src.SdsContainer),
              !.PodTemplate = deepMergePodTemplate(@, src.PodTemplate),
              !.Service = deepMergeService(@, src.Service),
              !.ServiceAccount = deepMergeServiceAccount(@, src.ServiceAccount),
              !.Istio = deepMergeIstioIntegration(@, src.Istio),
              !.Stats = deepMergeStatsConfig(@, src.Stats),
              !.AiExtension = deepMergeAIExtension(@, src.AiExtension),
              !.FloatingUserId = mergePointers(@, src.FloatingUserId)]

\* Mutant: a self-managed override leaves the kube part of the default.
mergeInPlaceKeepsKube(dst, src) ==
  CASE src.SelfManaged # Nil -> [dst EXCEPT !.SelfManaged = src.SelfManaged]
    [] src.SelfManaged = Nil /\ src.Kube # Nil /\ dst.Kube # Nil ->
         [dst EXCEPT !.Kube = mergeKube(@, src.Kube)]
    [] OTHER -> dst

(***************************************************************************)
(* deepMergeGatewayParameters works in place and also returns a pointer.   *)
(* Here: what it leaves in dst, and what it returns.  Both arguments are   *)
(* specs, which is all that is merged; its caller never passes nil.        *)
(***************************************************************************)
mergeInPlace(dst, src) ==
  CASE src.SelfManaged # Nil -> [SelfManaged |-> src.SelfManaged, Kube |-> Nil]
    [] src.SelfManaged = Nil /\ src.Kube # Nil /\ dst.Kube # Nil ->
         [dst EXCEPT !.Kube = mergeKube(@, src.Kube)]
    [] OTHER -> dst

deepMergeGatewayParameters(dst, src) ==
  IF src.SelfManaged = Nil /\ src.Kube # Nil /\ dst.Kube = Nil
  THEN src
  ELSE mergeInPlace(dst, src)
=============================================================================
