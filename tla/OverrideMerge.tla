--------------------------- MODULE OverrideMerge ---------------------------
(***************************************************************************)
(* One call of deepMergeGatewayParameters for two objects of kind kube,    *)
(* against a reference definition that is written from the schema: an      *)
(* override changes exactly the fields it sets, each by its own rule.      *)
(*                                                                         *)
(* The default is a copy of an object in the cache of the client, as deep  *)
(* as DeepCopy makes it, and the merge writes into it.                     *)
(***************************************************************************)
EXTENDS GatewayParametersMerge, GatewayParametersCopy, SequencesExt

CONSTANTS Defaults, Overrides   \* values of spec.kube on either side

VARIABLES
  dst, src, \* spec.kube of the two objects, as they were read
  merged,   \* dst.Spec.Kube after the merge, Nil before
  cached    \* Spec.Kube of the object in the cache, of which dst is a copy

vars == <<dst, src, merged, cached>>

-----------------------------------------------------------------------------
(* Configurations *)

Root == struct(KubernetesProxyConfig)

IsStruct(t) == t.kind \in {"struct", "inline"}

\* Fields of k8s.io/api/core/v1 that no function of merge.go mentions, and the struct
\* that is merged wrongly.
NotMerged ==
  {"Claims", "AppArmorProfile", "SupplementalGroupsPolicy", "SELinuxChangePolicy",
   "WindowsOptions"}

\* Values v of a field f that merge.go merges as its comments say: it takes the length of a
\* map or slice where they speak of nil, except for commands.
Documented(f, t, v) ==
  /\ f \in NotMerged => v = Nil
  /\ t.kind \in {"map", "slice"} /\ f # "Command" => v # <<>>

\* What a value of type t looks like if Below says it of the fields; values is "any", or
\* "documented" if nothing else may be set.
Shape(t, c, values, Below(_, _, _)) ==
  \/ t.kind = "struct" /\ c = Nil
  \/ /\ IsStruct(t)
     /\ c = [f \in DOMAIN t.fields |-> c[f]]
     /\ \A f \in DOMAIN t.fields :
          /\ Below(t.fields[f], c[f], values)
          /\ values = "documented" => Documented(f, t.fields[f], c[f])
  \/ ~IsStruct(t)

\* Structs nest five deep.
Shape0(t, c, values) == ~IsStruct(t)
Shape1(t, c, values) == Shape(t, c, values, Shape0)
Shape2(t, c, values) == Shape(t, c, values, Shape1)
Shape3(t, c, values) == Shape(t, c, values, Shape2)
Shape4(t, c, values) == Shape(t, c, values, Shape3)

IsConfig(c, values) == c # Nil /\ Shape(Root, c, values, Shape4)

ASSUME ConfigsAssumption == \A c \in Defaults \cup Overrides : IsConfig(c, "any")

-----------------------------------------------------------------------------
(* Paths into a configuration *)

\* The type at the end of a path.
TypeAt(path) == FoldLeft(LAMBDA t, f : t.fields[f], Root, path)

\* The zero value of a type, and of a struct that is not nil.
ZeroFields(t) ==
  [f \in DOMAIN t.fields |->
     CASE t.fields[f].kind = "value" -> Zero
       [] t.fields[f].kind = "inline" ->
            [g \in DOMAIN t.fields[f].fields |-> Nil]
       [] OTHER -> Nil]

Get(cfg, path) == FoldLeft(LAMBDA c, f : IF c = Nil THEN Nil ELSE c[f], cfg, path)

\* cfg with v at the end of path; the structs on the way are created if need be.
Put(cfg, path, v) ==
  LET n == Len(path)
      old(i) == LET c == Get(cfg, SubSeq(path, 1, i))
                IN IF c = Nil THEN ZeroFields(TypeAt(SubSeq(path, 1, i))) ELSE c
      new[i \in 0..n] == IF i = n THEN v
                         ELSE [old(i) EXCEPT ![path[i + 1]] = new[i + 1]]
  IN new[0]

-----------------------------------------------------------------------------
Init ==
  /\ dst \in Defaults /\ src \in Overrides
  /\ merged = Nil
  /\ cached = dst

\* The references in spec.kube that the copy shares with the cache; <<>> is kube itself.
Shared == {Tail(p) : p \in {q \in CopyGatewayParameters : Head(q) = "Kube"}}

\* What the merge writes through the references in paths: structs are filled in place,
\* and so is a map to which entries are added.  A pointer to a scalar is replaced, and
\* a slice grows behind the elements that the cache sees.
WriteThrough(paths, new) ==
  LET written == {p \in paths :
                    /\ Get(dst, p) # Nil
                    /\ \/ TypeAt(p).kind = "struct"
                       \/ TypeAt(p).kind = "map" /\ Get(src, p) \notin {Nil, <<>>}}
  IN FoldSet(LAMBDA p, c : Put(c, p, Get(new, p)), dst, written)

Managed(kube) == [Kube |-> kube, SelfManaged |-> Nil]

Merge ==
  /\ merged = Nil
  /\ merged' = deepMergeGatewayParameters(Managed(dst), Managed(src)).Kube
  /\ cached' = WriteThrough(Shared, merged')
  /\ UNCHANGED <<dst, src>>

Next == Merge

Spec == Init /\ [][Next]_vars

-----------------------------------------------------------------------------
(* Reference *)

\* Fields that a Gateway may not override once the default has set them.
Protected == {"IstioDiscoveryAddress", "IstioMetaMeshId", "IstioMetaClusterId"}

\* What field f of type t, which is no struct, becomes, as the comments of merge.go have it:
\* nil leaves the default, and of two that are not nil the entries of maps are added and
\* slices appended.  Scalars, the commands of probes and the sidecars are replaced.
Combine(f, t, d, s) ==
  LET keeps == \/ s = (IF t.kind = "value" THEN Zero ELSE Nil)
               \/ f \in Protected /\ d # Nil
      adds == t.kind = "map" /\ d # Nil
      appends == t.kind = "slice" /\ f \notin {"Command", "CustomSidecars"} /\ d # Nil
  IN CASE keeps -> d
       [] ~keeps /\ adds ->
            [k \in DOMAIN d \cup DOMAIN s |-> IF k \in DOMAIN s THEN s[k] ELSE d[k]]
       [] ~keeps /\ appends -> d \o s
       [] OTHER -> s

\* What a field of any type becomes, if Below says it of the fields of a struct.
Override(f, t, d, s, Below(_, _, _, _)) ==
  CASE ~IsStruct(t) -> Combine(f, t, d, s)
    [] t.kind = "struct" /\ s = Nil -> d
    [] t.kind = "struct" /\ s # Nil /\ d = Nil -> s
    [] OTHER -> [g \in DOMAIN t.fields |-> Below(g, t.fields[g], d[g], s[g])]

Override1(f, t, d, s) == Override(f, t, d, s, Combine)
Override2(f, t, d, s) == Override(f, t, d, s, Override1)
Override3(f, t, d, s) == Override(f, t, d, s, Override2)
Override4(f, t, d, s) == Override(f, t, d, s, Override3)

Overridden(d, s) == Override("Kube", Root, d, s, Override4)

\* A merge is local: each field that the override sets is combined by its rule, at any
\* depth and next to any others, and nothing else of the default changes, appears or is
\* lost, in merge.go's more than thirty functions and two hundred fields.
MergeIsLocal == merged # Nil => merged = Overridden(dst, src)

\* The merge changes nothing in the cache: all that it writes through, at any depth, the
\* generated copies have given memory of its own.  Otherwise the parameters of one
\* Gateway would become defaults of all Gateways of the class.
CacheUntouched == cached = dst
=============================================================================
