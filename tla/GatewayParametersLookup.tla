---------------------- MODULE GatewayParametersLookup ----------------------
(***************************************************************************)
(* Deployer.getGatewayParametersForGateway (deployer/deployer.go): which   *)
(* GatewayParameters decide how, and whether, a Gateway is provisioned.    *)
(* It makes three reads of the cluster, which users change between them.   *)
(* Every read returns a copy of the object, so merging into it is private  *)
(* to the call.                                                            *)
(***************************************************************************)
EXTENDS GatewayParametersMerge, FiniteSets

CONSTANTS
  Gateways,       \* Gateways passed in: [namespace, annotation, class]
  ClassNames,     \* GatewayClasses of the cluster
  ParametersRefs, \* values of spec.parametersRef: [Namespace, Name], parts may be Nil
  Keys,           \* GatewayParameters of the cluster: [Namespace, Name]
  KubeConfigs,    \* values of spec.kube
  SelfManaged     \* the value of spec.selfManaged, a struct without fields

VARIABLES
  gatewayClasses,    \* class -> [parametersRef], or Nil
  gatewayParameters, \* key -> spec, or Nil
  pc,                \* where the call is
  gw,                \* its argument
  gwp,               \* parameters that the annotation of gw names, or Nil
  paramRef,          \* reference that its GatewayClass has to the defaults
  result             \* what the last call returned: a spec, or Nil with an error

clusterVars == <<gatewayClasses, gatewayParameters>>
callVars    == <<pc, gw, gwp, paramRef, result>>
vars        == <<clusterVars, callVars>>

\* What the CRD admits: exactly one of kube and selfManaged.
Specs ==
  {[Kube |-> k, SelfManaged |-> Nil] : k \in KubeConfigs} \cup
  {[Kube |-> Nil, SelfManaged |-> SelfManaged]}

Classes == [parametersRef : ParametersRefs \cup {Nil}]

Init ==
  /\ gatewayClasses = [c \in ClassNames |-> Nil]
  /\ gatewayParameters = [k \in Keys |-> Nil]
  /\ pc = "idle"
  /\ gw = Nil
  /\ gwp = Nil
  /\ paramRef = Nil
  /\ result = Nil

-----------------------------------------------------------------------------
(* External: users edit the cluster. *)

EditParameters(k, spec) ==
  /\ gatewayParameters[k] # spec
  /\ gatewayParameters' = [gatewayParameters EXCEPT ![k] = spec]
  /\ UNCHANGED <<gatewayClasses, callVars>>

EditClass(c, class) ==
  /\ gatewayClasses[c] # class
  /\ gatewayClasses' = [gatewayClasses EXCEPT ![c] = class]
  /\ UNCHANGED <<gatewayParameters, callVars>>

\* client.Get of GatewayParameters: Nil when the cluster has none of that key.
GetParameters(k) == IF k \in Keys THEN gatewayParameters[k] ELSE Nil

-----------------------------------------------------------------------------
(* The call *)

Return(r) ==
  /\ pc' = "idle"
  /\ result' = r

\* Up to the lookup of the class: an annotation must name existing parameters in
\* the namespace of the Gateway.
getGatewayParametersForGateway(g) ==
  LET override == GetParameters([Namespace |-> g.namespace, Name |-> g.annotation])
      missing  == g.annotation # Nil /\ override = Nil
  IN /\ pc = "idle"
     /\ gw' = g
     /\ gwp' = IF g.annotation = Nil THEN Nil ELSE override
     /\ paramRef' = Nil
     /\ \/ missing /\ Return(Nil)
        \/ ~missing /\ pc' = "class" /\ result' = Nil
     /\ UNCHANGED clusterVars

\* The GatewayClass, which must have a reference with a name.
getGatewayClassFromGateway ==
  LET class == IF gw.class \in ClassNames THEN gatewayClasses[gw.class] ELSE Nil
      usable == class # Nil /\ class.parametersRef # Nil /\ class.parametersRef.Name # Nil
  IN /\ pc = "class"
     /\ \/ ~usable /\ Return(Nil) /\ UNCHANGED paramRef
        \/ usable /\ paramRef' = class.parametersRef /\ pc' = "default" /\ UNCHANGED result
     /\ UNCHANGED <<clusterVars, gw, gwp>>

\* The default parameters; the override is merged into them in place, and what the
\* merge returns is not used.
getGatewayParametersForGatewayClass ==
  LET default == GetParameters(paramRef) IN
  /\ pc = "default"
  /\ \/ default = Nil /\ Return(Nil)
     \/ /\ default # Nil
        /\ Return(IF gwp = Nil THEN default ELSE mergeInPlace(default, gwp))
  /\ UNCHANGED <<clusterVars, gw, gwp, paramRef>>

Next ==
  \/ \E k \in Keys, spec \in Specs \cup {Nil} : EditParameters(k, spec)
  \/ \E c \in ClassNames, class \in Classes \cup {Nil} : EditClass(c, class)
  \/ \E g \in Gateways : getGatewayParametersForGateway(g)
  \/ getGatewayClassFromGateway
  \/ getGatewayParametersForGatewayClass

Spec == Init /\ [][Next]_vars

-----------------------------------------------------------------------------
(* Properties *)

Found == pc = "idle" /\ result # Nil

\* However defaults and overrides are mixed and changed during the call, the result
\* satisfies the rule the CRD imposes on each of them (only one of kube and
\* selfManaged is set), and a Gateway whose own parameters are self-managed is never
\* auto-provisioned: GetObjsToDeploy sees SelfManaged.
ResultHasOneMode ==
  Found => /\ (result.Kube = Nil) # (result.SelfManaged = Nil)
           /\ gwp # Nil /\ gwp.SelfManaged # Nil => result.SelfManaged # Nil

\* The parameters associated with a Gateway take part in its result: asking for a
\* proxy on Kubernetes overrides a self-managed default.
OverrideTakesPart ==
  Found /\ gwp # Nil => (gwp.Kube # Nil => result.Kube # Nil)
=============================================================================
