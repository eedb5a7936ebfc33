------------------------ MODULE MCGatewayController ------------------------
(* One Gateway with its Service, its class, a default and parameters of its own. *)
EXTENDS GatewayController, GatewayParametersTypes

default  == [Namespace |-> "system", Name |-> "default"]
override == [Namespace |-> "ns", Name |-> "own"]
MCKeys == {default, override}
MCRefs == {default}
MCClasses == {"fgateway"}
MCNames == {[Namespace |-> "ns", Name |-> "gw"]}
MCGateways == [namespace : {"ns"}, annotation : {Nil, "own"}, class : {"fgateway"}]
NoConfig == [f \in DOMAIN KubernetesProxyConfig |-> Nil]
MCKubeConfigs == {NoConfig}
Kube == [Kube |-> NoConfig, SelfManaged |-> Nil]
Self == [Kube |-> Nil, SelfManaged |-> SelfManaged]

LoadBalancer(ingress) ==
  [Type |-> "LoadBalancer", ClusterIPs |-> <<"c1">>, ClusterIP |-> "c1", Ingress |-> ingress]

\* A load balancer before and after it has addresses, and Services without one.
MCServiceSpecs ==
  {LoadBalancer(<<>>),
   LoadBalancer(<<[Hostname |-> "h", IP |-> "i1"], [Hostname |-> Nil, IP |-> "i2"]>>),
   [Type |-> "ClusterIP", Ingress |-> <<>>, ClusterIPs |-> <<>>, ClusterIP |-> "c2"]}

\* The Gateway's Service has no addresses yet; everything else takes a change.
MCClusters ==
  [gatewayClasses : {"fgateway" :> [parametersRef |-> default]},
   gatewayParameters : {(default :> p[1]) @@ (override :> p[2]) :
                          p \in {<<Kube, Kube>>, <<Self, Kube>>}},
   gateways : [MCNames -> MCGateways],
   services : {[k \in MCNames |-> [controller |-> 1, spec |-> LoadBalancer(<<>>)]]}]
=============================================================================
