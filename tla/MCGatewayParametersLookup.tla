--------------------- MODULE MCGatewayParametersLookup ---------------------
(* A small cluster for GatewayParametersLookup. *)
EXTENDS GatewayParametersLookup, GatewayParametersTypes

default  == [Namespace |-> "system", Name |-> "default"]
override == [Namespace |-> "ns", Name |-> "own"]
MCKeys == {default, override}

\* References to the default, to one without a namespace, and without a name.
MCRefs ==
  {default, [Namespace |-> Nil, Name |-> "default"], [Namespace |-> "system", Name |-> Nil]}

MCClasses == {"fgateway"}

\* Gateways with and without parameters of their own, of a class and without one.
MCGateways ==
  [namespace : {"ns"}, annotation : {Nil, "own"}, class : {"fgateway", Nil}]

NoConfig == [f \in DOMAIN KubernetesProxyConfig |-> Nil]
MCKubeConfigs ==
  {NoConfig, [NoConfig EXCEPT !.FloatingUserId = "yes"],
   [NoConfig EXCEPT !.Deployment = [Replicas |-> "two"]]}
=============================================================================
