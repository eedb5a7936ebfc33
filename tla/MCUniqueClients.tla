-------------------------- MODULE MCUniqueClients --------------------------
(* Small instances of UniqueClients for TLC. *)
EXTENDS UniqueClients, TLC

CONSTANTS s1, s2, s3

MCStreams == {s1, s2, s3}
TwoStreams == {s1, s2}
Symmetry == Permutations(TwoStreams)

gw    == "fleezesd-kube-gateway-api"
MCGatewayPrefix == {gw}
MCRoles == {<<gw, "ns", "gw1">>, <<"other">>}
TwoGateways == {<<gw, "ns", "gw1">>, <<gw, "ns", "gw2">>}

podA == [Name |-> <<"a">>, Namespace |-> <<"ns">>]
OnePod == {podA}
NoPodRefs == {}

\* Well-formed ids of the pods and one without a namespace.
IdsOf(refs) == {r.Name \o r.Namespace : r \in refs}
WellFormedId == IdsOf(OnePod)
OneNodeId == IdsOf(OnePod) \cup {<<"a">>}

MCLabelSets == {"l1", "l2"}
MCLocalities == {"z1"}
TwoLocalities == {"z1", "z2"}
InjectiveHash == [l \in MCLabelSets |-> IF l = "l1" THEN 1 ELSE 2]

NoFetches == {}
MCFetches == {[id |-> <<"a", "ns">>, role |-> <<gw, "ns", "gw1">>]}
=============================================================================
