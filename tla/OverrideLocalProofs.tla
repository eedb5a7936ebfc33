------------------------ MODULE OverrideLocalProofs ------------------------
(***************************************************************************)
(* Every function of merge.go computes what the schema says of its struct, *)
(* so that a merge is local for any default and any override that sets     *)
(* only what merge.go merges.                                              *)
(***************************************************************************)
EXTENDS OverrideMerge, TLAPS

-----------------------------------------------------------------------------
(* The rules for one field *)

\* Fields without a rule of their own.
Plain(f) == f \notin Protected \cup {"Command", "CustomSidecars"}

\* Combine is, for each kind of field, what the rule of merge.go for that kind computes.
LEMMA Rules ==
  ASSUME NEW f, NEW d, NEW s
  PROVE  /\ Plain(f) => /\ mergePointers(d, s) = Combine(f, ptr, d, s)
                        /\ mergeComparable(d, s) = Combine(f, value, d, s)
                        /\ s # <<>> => /\ deepMergeMaps(d, s) = Combine(f, map, d, s)
                                       /\ deepMergeSlices(d, s) = Combine(f, slice, d, s)
         /\ f \in Protected => keepDefault(d, s) = Combine(f, ptr, d, s)
<1> USE DEF Combine, Plain, ptr, value, map, slice
<1>1. Plain(f) => mergePointers(d, s) = Combine(f, ptr, d, s)
  BY DEF mergePointers
<1>2. Plain(f) => mergeComparable(d, s) = Combine(f, value, d, s)
  BY DEF mergeComparable
<1>3. Plain(f) /\ s # <<>> => deepMergeMaps(d, s) = Combine(f, map, d, s)
  BY DEF deepMergeMaps
<1>4. Plain(f) /\ s # <<>> => deepMergeSlices(d, s) = Combine(f, slice, d, s)
  BY DEF deepMergeSlices
<1>5. f \in Protected => keepDefault(d, s) = Combine(f, ptr, d, s)
  BY DEF keepDefault, Protected
<1> QED
  BY <1>1, <1>2, <1>3, <1>4, <1>5

\* The two slices that are not appended.
LEMMA SliceRules ==
  ASSUME NEW d, NEW s
  PROVE  /\ overrideSlices(d, s) = Combine("Command", slice, d, s)
         /\ s # <<>> => mergeCustomSidecars(d, s) = Combine("CustomSidecars", slice, d, s)
  BY DEF overrideSlices, mergeCustomSidecars, Combine, slice, Protected

\* A field that the override does not set is left alone.
LEMMA NotSet ==
  ASSUME NEW f, NEW d
  PROVE  Combine(f, ptr, d, Nil) = d /\ Combine(f, slice, d, Nil) = d
  BY DEF Combine, ptr, slice

-----------------------------------------------------------------------------
(* Levels *)

\* What becomes of a field k levels above the deepest, and what its two values look like.
At(k, f, t, d, s) ==
  CASE k = 0 -> Combine(f, t, d, s)
    [] k = 1 -> Override1(f, t, d, s)
    [] k = 2 -> Override2(f, t, d, s)
    [] k = 3 -> Override3(f, t, d, s)
    [] k = 4 -> Override4(f, t, d, s)
    [] k = 5 -> Override(f, t, d, s, Override4)

ShapeAt(k, t, c, values) ==
  CASE k = 0 -> Shape0(t, c, values)
    [] k = 1 -> Shape1(t, c, values)
    [] k = 2 -> Shape2(t, c, values)
    [] k = 3 -> Shape3(t, c, values)
    [] k = 4 -> Shape4(t, c, values)
    [] k = 5 -> Shape(t, c, values, Shape4)

Fits(k, t, d, s) == ShapeAt(k, t, d, "any") /\ ShapeAt(k, t, s, "documented")

Record(type, c) == c = [f \in DOMAIN type |-> c[f]]

Fields(k, type, d, s) == [f \in DOMAIN type |-> At(k - 1, f, type[f], d[f], s[f])]

LEMMA Levels ==
  ASSUME NEW f, NEW t, NEW d, NEW s
  PROVE  /\ At(0, f, t, d, s) = Combine(f, t, d, s)
         /\ At(1, f, t, d, s) = Override1(f, t, d, s)
         /\ At(2, f, t, d, s) = Override2(f, t, d, s)
         /\ At(3, f, t, d, s) = Override3(f, t, d, s)
         /\ At(4, f, t, d, s) = Override4(f, t, d, s)
         /\ At(5, f, t, d, s) = Override(f, t, d, s, Override4)
<1> DEFINE top == Override(f, t, d, s, Override4)
<1> HIDE DEF top
<1>1. At(5, f, t, d, s) = top
  BY DEF At, top
<1> QED
  BY <1>1 DEF At, top

\* A field that is no struct is combined by its rule at every level.
LEMMA LeafAt ==
  ASSUME NEW k \in 0..5, NEW f, NEW t, NEW d, NEW s, ~IsStruct(t)
  PROVE  At(k, f, t, d, s) = Combine(f, t, d, s)
<1> USE Levels DEF Override, IsStruct
<1>0. CASE k = 0
  BY <1>0
<1>1. CASE k = 1
  BY <1>1 DEF Override1
<1>2. CASE k = 2
  BY <1>2 DEF Override2
<1>3. CASE k = 3
  BY <1>3 DEF Override3
<1>4. CASE k = 4
  BY <1>4 DEF Override4
<1>5. CASE k = 5
  BY <1>5
<1> QED
  BY <1>0, <1>1, <1>2, <1>3, <1>4, <1>5

\* A struct is merged field by field, one level below.
LEMMA StructAt ==
  ASSUME NEW k \in 1..5, NEW f, NEW type, NEW d, NEW s
  PROVE  /\ At(k, f, struct(type), d, s) = mergeStructs(d, s, Fields(k, type, d, s))
         /\ At(k, f, inline(type), d, s) = Fields(k, type, d, s)
<1>a. /\ struct(type).kind = "struct" /\ struct(type).fields = type
      /\ inline(type).kind = "inline" /\ inline(type).fields = type
  BY DEF struct, inline
<1> USE <1>a, Levels DEF Override, IsStruct, Fields, mergeStructs
<1>1. CASE k = 1
  BY <1>1 DEF Override1
<1>2. CASE k = 2
  BY <1>2 DEF Override2
<1>3. CASE k = 3
  BY <1>3 DEF Override3
<1>4. CASE k = 4
  BY <1>4 DEF Override4
<1>5. CASE k = 5
  BY <1>5
<1> QED
  BY <1>1, <1>2, <1>3, <1>4, <1>5

\* If a value has its shape, so have its fields.
LEMMA ShapeBelow ==
  ASSUME NEW k \in 0..5, NEW t, NEW c, NEW values, ShapeAt(k, t, c, values),
         IsStruct(t), t.kind = "inline" \/ c # Nil
  PROVE  /\ k \in 1..5 /\ Record(t.fields, c)
         /\ \A f \in DOMAIN t.fields :
              /\ ShapeAt(k - 1, t.fields[f], c[f], values)
              /\ values = "documented" => Documented(f, t.fields[f], c[f])
<1> USE DEF ShapeAt, Shape, Record
<1>0. CASE k = 0
  BY <1>0 DEF Shape0
<1>1. CASE k = 1
  BY <1>1 DEF Shape1
<1>2. CASE k = 2
  BY <1>2 DEF Shape2
<1>3. CASE k = 3
  BY <1>3 DEF Shape3
<1>4. CASE k = 4
  BY <1>4 DEF Shape4
<1>5. CASE k = 5
  BY <1>5
<1> HIDE DEF ShapeAt, Shape, Record
<1> QED
  BY <1>0, <1>1, <1>2, <1>3, <1>4, <1>5

\* The same for the two values of a struct, neither of which is nil.
Below(k, type, d, s) ==
  /\ k - 1 \in 0..5 /\ Record(type, d)
  /\ \A f \in DOMAIN type : /\ Fits(k - 1, type[f], d[f], s[f])
                            /\ f \in NotMerged => s[f] = Nil
                            /\ type[f] \in {map, slice} /\ f # "Command" => s[f] # <<>>

LEMMA FitsBelow ==
  ASSUME NEW k \in 0..5, NEW type, NEW d, NEW s,
         \/ Fits(k, struct(type), d, s) /\ d # Nil /\ s # Nil
         \/ Fits(k, inline(type), d, s)
  PROVE  k \in 1..5 /\ Below(k, type, d, s)
<1>1. \A t \in {struct(type), inline(type)} : IsStruct(t) /\ t.fields = type
  BY DEF struct, inline, IsStruct
<1>2. map.kind = "map" /\ slice.kind = "slice"
  BY DEF map, slice
<1>3. ASSUME NEW t \in {struct(type), inline(type)}, Fits(k, t, d, s),
             t.kind = "inline" \/ (d # Nil /\ s # Nil)
      PROVE  k \in 1..5 /\ Below(k, type, d, s)
  <2>1. ShapeAt(k, t, d, "any") /\ ShapeAt(k, t, s, "documented") /\ IsStruct(t) /\ t.fields = type
    BY <1>1, <1>3 DEF Fits
  <2>2. /\ k \in 1..5 /\ Record(type, d)
        /\ \A f \in DOMAIN type : ShapeAt(k - 1, type[f], d[f], "any")
    BY <1>3, <2>1, ShapeBelow
  <2>3. \A f \in DOMAIN type : /\ ShapeAt(k - 1, type[f], s[f], "documented")
                              /\ Documented(f, type[f], s[f])
    BY <1>3, <2>1, ShapeBelow
  <2>4. ASSUME NEW f \in DOMAIN type
        PROVE  /\ f \in NotMerged => s[f] = Nil
               /\ type[f] \in {map, slice} /\ f # "Command" => s[f] # <<>>
    <3>1. Documented(f, type[f], s[f])
      BY <2>3
    <3>2. CASE type[f] \in {map, slice}
      BY <1>2, <3>1, <3>2 DEF Documented
    <3>3. CASE type[f] \notin {map, slice}
      BY <3>1, <3>3 DEF Documented
    <3> QED
      BY <3>2, <3>3
  <2> QED
    BY <2>2, <2>3, <2>4 DEF Fits, Below
<1>4. CASE Fits(k, struct(type), d, s) /\ d # Nil /\ s # Nil
  BY <1>3, <1>4
<1>5. CASE Fits(k, inline(type), d, s)
  <2>1. inline(type).kind = "inline"
    BY DEF inline
  <2> QED
    BY <1>3, <1>5, <2>1
<1> QED
  BY <1>4, <1>5

\* There are no structs at the deepest level.
LEMMA FitsAbove ==
  ASSUME NEW k \in 0..5, NEW type, NEW d, NEW s, Fits(k, struct(type), d, s)
  PROVE  k \in 1..5
<1>1. IsStruct(struct(type))
  BY DEF struct, IsStruct
<1>2. CASE k = 0
  BY <1>1, <1>2 DEF Fits, ShapeAt, Shape, Shape0
<1> QED
  BY <1>2

\* Fields that are no structs, at any level.
LEMMA LeafRules ==
  ASSUME NEW k \in 0..5, NEW f, NEW d, NEW s
  PROVE  /\ Plain(f) => /\ At(k, f, ptr, d, s) = mergePointers(d, s)
                        /\ At(k, f, value, d, s) = mergeComparable(d, s)
                        /\ s # <<>> => /\ At(k, f, map, d, s) = deepMergeMaps(d, s)
                                       /\ At(k, f, slice, d, s) = deepMergeSlices(d, s)
         /\ f \in Protected => At(k, f, ptr, d, s) = keepDefault(d, s)
         /\ At(k, "Command", slice, d, s) = overrideSlices(d, s)
         /\ s # <<>> => At(k, "CustomSidecars", slice, d, s) = mergeCustomSidecars(d, s)
         /\ At(k, f, ptr, d, Nil) = d /\ At(k, f, slice, d, Nil) = d
<1>1. \A t \in {ptr, value, map, slice} : ~IsStruct(t)
  BY DEF ptr, value, map, slice, IsStruct
<1>2. \A t \in {ptr, value, map, slice} :
        \A u, v : At(k, f, t, u, v) = Combine(f, t, u, v)
  BY <1>1, LeafAt
<1>3. \A g, u, v : At(k, g, slice, u, v) = Combine(g, slice, u, v)
  BY <1>1, LeafAt
<1> QED
  BY <1>2, <1>3, Rules, SliceRules, NotSet

\* Windows options that the override does not set are left alone.
LEMMA WindowsNotSet ==
  ASSUME NEW k \in 0..5, NEW f, NEW d,
         Fits(k, struct(WindowsSecurityContextOptions), d, Nil)
  PROVE  At(k, f, struct(WindowsSecurityContextOptions), d, Nil)
           = deepMergeWindowsSecurityContextOptions(d, Nil)
  BY FitsAbove, StructAt DEF mergeStructs, deepMergeWindowsSecurityContextOptions

-----------------------------------------------------------------------------
(* Functions for pods and containers *)

\* deepMergeSELinuxOptions, field by field.
LEMMA SELinuxLocal ==
  ASSUME NEW k \in 0..5, NEW f, NEW d, NEW s, Fits(k, struct(SELinuxOptions), d, s)
  PROVE  deepMergeSELinuxOptions(d, s) = At(k, f, struct(SELinuxOptions), d, s)
<1> DEFINE r == Fields(k, SELinuxOptions, d, s)
<1>1. ASSUME d # Nil, s # Nil PROVE deepMergeSELinuxOptions(d, s) = r
  <2>1. k \in 1..5 /\ Below(k, SELinuxOptions, d, s)
    BY <1>1, FitsBelow
  <2>2. Record(SELinuxOptions, d) /\ Record(SELinuxOptions, r)
    BY <2>1 DEF Fields, Below, Record
  <2>3. \A g \in {"User", "Role", "Type", "Level"} :
             r[g] = mergeComparable(d[g], s[g])
    BY <2>1, LeafRules DEF Fields, Below, SELinuxOptions, Plain, Protected
  <2> HIDE DEF r
  <2> QED
    BY <1>1, <2>2, <2>3
    DEF mergeFields, mergeStructs, Record, SELinuxOptions, deepMergeSELinuxOptions
<1> QED
  BY <1>1, StructAt, FitsAbove DEF mergeStructs, deepMergeSELinuxOptions

\* deepMergeSeccompProfile, field by field.
LEMMA SeccompLocal ==
  ASSUME NEW k \in 0..5, NEW f, NEW d, NEW s, Fits(k, struct(SeccompProfile), d, s)
  PROVE  deepMergeSeccompProfile(d, s) = At(k, f, struct(SeccompProfile), d, s)
<1> DEFINE r == Fields(k, SeccompProfile, d, s)
<1>1. ASSUME d # Nil, s # Nil PROVE deepMergeSeccompProfile(d, s) = r
  <2>1. k \in 1..5 /\ Below(k, SeccompProfile, d, s)
    BY <1>1, FitsBelow
  <2>2. Record(SeccompProfile, d) /\ Record(SeccompProfile, r)
    BY <2>1 DEF Fields, Below, Record
  <2>3. /\ r.Type = mergeComparable(d.Type, s.Type)
        /\ r.LocalhostProfile = mergePointers(d.LocalhostProfile, s.LocalhostProfile)
    BY <2>1, LeafRules DEF Fields, Below, SeccompProfile, Plain, Protected
  <2> HIDE DEF r
  <2> QED
    BY <1>1, <2>2, <2>3
    DEF mergeStructs, Record, SeccompProfile, deepMergeSeccompProfile
<1> QED
  BY <1>1, StructAt, FitsAbove DEF mergeStructs, deepMergeSeccompProfile

\* deepMergeCapabilities, field by field.
LEMMA CapabilitiesLocal ==
  ASSUME NEW k \in 0..5, NEW f, NEW d, NEW s, Fits(k, struct(Capabilities), d, s)
  PROVE  deepMergeCapabilities(d, s) = At(k, f, struct(Capabilities), d, s)
<1> DEFINE r == Fields(k, Capabilities, d, s)
<1>1. ASSUME d # Nil, s # Nil PROVE deepMergeCapabilities(d, s) = r
  <2>1. k \in 1..5 /\ Below(k, Capabilities, d, s)
    BY <1>1, FitsBelow
  <2>2. Record(Capabilities, d) /\ Record(Capabilities, r)
    BY <2>1 DEF Fields, Below, Record
  <2>3. \A g \in {"Add", "Drop"} : r[g] = deepMergeSlices(d[g], s[g])
    BY <2>1, LeafRules DEF Fields, Below, Capabilities, Plain, Protected
  <2> HIDE DEF r
  <2> QED
    BY <1>1, <2>2, <2>3
    DEF mergeFields, mergeStructs, Record, Capabilities, deepMergeCapabilities
<1> QED
  BY <1>1, StructAt, FitsAbove DEF mergeStructs, deepMergeCapabilities

\* deepMergePodSecurityContext: three fields are not merged.
LEMMA PodSecurityLocal ==
  ASSUME NEW k \in 0..5, NEW f, NEW d, NEW s, Fits(k, struct(PodSecurityContext), d, s)
  PROVE  deepMergePodSecurityContext(d, s) = At(k, f, struct(PodSecurityContext), d, s)
<1> DEFINE r == Fields(k, PodSecurityContext, d, s)
<1>1. ASSUME d # Nil, s # Nil PROVE deepMergePodSecurityContext(d, s) = r
  <2>1. k \in 1..5 /\ Below(k, PodSecurityContext, d, s)
    BY <1>1, FitsBelow
  <2>2. Record(PodSecurityContext, d) /\ Record(PodSecurityContext, r)
    BY <2>1 DEF Fields, Below, Record
  <2>3. /\ \A g \in {"RunAsUser", "RunAsGroup", "RunAsNonRoot", "FSGroup",
                    "FSGroupChangePolicy"} :
             r[g] = mergePointers(d[g], s[g])
        /\ \A g \in {"SupplementalGroups", "Sysctls"} :
             r[g] = deepMergeSlices(d[g], s[g])
        /\ r.SupplementalGroupsPolicy = d.SupplementalGroupsPolicy
        /\ r.AppArmorProfile = d.AppArmorProfile
        /\ r.SELinuxChangePolicy = d.SELinuxChangePolicy
    BY <2>1, LeafRules DEF Fields, Below, PodSecurityContext, Plain, Protected, NotMerged
  <2>4. r.SELinuxOptions = deepMergeSELinuxOptions(d.SELinuxOptions, s.SELinuxOptions)
    BY <2>1, SELinuxLocal DEF Fields, Below, PodSecurityContext
  <2>5. r.SeccompProfile = deepMergeSeccompProfile(d.SeccompProfile, s.SeccompProfile)
    BY <2>1, SeccompLocal DEF Fields, Below, PodSecurityContext
  <2>6. r.WindowsOptions =
          deepMergeWindowsSecurityContextOptions(d.WindowsOptions, s.WindowsOptions)
    BY <2>1, WindowsNotSet DEF Fields, Below, NotMerged, PodSecurityContext
  <2> HIDE DEF r
  <2> QED
    BY <1>1, <2>2, <2>3, <2>4, <2>5, <2>6
    DEF mergeFields, mergeStructs, Record, PodSecurityContext, deepMergePodSecurityContext
<1> QED
  BY <1>1, StructAt, FitsAbove DEF mergeStructs, deepMergePodSecurityContext

\* deepMergeSecurityContext: AppArmorProfile is not merged.
LEMMA SecurityLocal ==
  ASSUME NEW k \in 0..5, NEW f, NEW d, NEW s, Fits(k, struct(SecurityContext), d, s)
  PROVE  deepMergeSecurityContext(d, s) = At(k, f, struct(SecurityContext), d, s)
<1> DEFINE r == Fields(k, SecurityContext, d, s)
<1>1. ASSUME d # Nil, s # Nil PROVE deepMergeSecurityContext(d, s) = r
  <2>1. k \in 1..5 /\ Below(k, SecurityContext, d, s)
    BY <1>1, FitsBelow
  <2>2. Record(SecurityContext, d) /\ Record(SecurityContext, r)
    BY <2>1 DEF Fields, Below, Record
  <2>3. /\ \A g \in {"RunAsUser", "RunAsGroup", "RunAsNonRoot", "Privileged",
                    "ReadOnlyRootFilesystem", "AllowPrivilegeEscalation",
                    "ProcMount"} :
             r[g] = mergePointers(d[g], s[g])
        /\ r.AppArmorProfile = d.AppArmorProfile
    BY <2>1, LeafRules DEF Fields, Below, SecurityContext, Plain, Protected, NotMerged
  <2>4. r.Capabilities = deepMergeCapabilities(d.Capabilities, s.Capabilities)
    BY <2>1, CapabilitiesLocal DEF Fields, Below, SecurityContext
  <2>5. r.SELinuxOptions = deepMergeSELinuxOptions(d.SELinuxOptions, s.SELinuxOptions)
    BY <2>1, SELinuxLocal DEF Fields, Below, SecurityContext
  <2>6. r.SeccompProfile = deepMergeSeccompProfile(d.SeccompProfile, s.SeccompProfile)
    BY <2>1, SeccompLocal DEF Fields, Below, SecurityContext
  <2>7. r.WindowsOptions =
          deepMergeWindowsSecurityContextOptions(d.WindowsOptions, s.WindowsOptions)
    BY <2>1, WindowsNotSet DEF Fields, Below, NotMerged, SecurityContext
  <2> HIDE DEF r
  <2> QED
    BY <1>1, <2>2, <2>3, <2>4, <2>5, <2>6, <2>7
    DEF mergeFields, mergeStructs, Record, SecurityContext, deepMergeSecurityContext
<1> QED
  BY <1>1, StructAt, FitsAbove DEF mergeStructs, deepMergeSecurityContext

\* deepMergeResourceRequirements: Claims is not merged.
LEMMA ResourcesLocal ==
  ASSUME NEW k \in 0..5, NEW f, NEW d, NEW s, Fits(k, struct(ResourceRequirements), d, s)
  PROVE  deepMergeResourceRequirements(d, s) = At(k, f, struct(ResourceRequirements), d, s)
<1> DEFINE r == Fields(k, ResourceRequirements, d, s)
<1>1. ASSUME d # Nil, s # Nil PROVE deepMergeResourceRequirements(d, s) = r
  <2>1. k \in 1..5 /\ Below(k, ResourceRequirements, d, s)
    BY <1>1, FitsBelow
  <2>2. Record(ResourceRequirements, d) /\ Record(ResourceRequirements, r)
    BY <2>1 DEF Fields, Below, Record
  <2>3. /\ \A g \in {"Limits", "Requests"} : r[g] = deepMergeMaps(d[g], s[g])
        /\ r.Claims = d.Claims
    BY <2>1, LeafRules DEF Fields, Below, ResourceRequirements, Plain, Protected, NotMerged
  <2> HIDE DEF r
  <2> QED
    BY <1>1, <2>2, <2>3
    DEF mergeFields, mergeStructs, Record, ResourceRequirements,
        deepMergeResourceRequirements
<1> QED
  BY <1>1, StructAt, FitsAbove DEF mergeStructs, deepMergeResourceRequirements

\* deepMergeImage, field by field.
LEMMA ImageLocal ==
  ASSUME NEW k \in 0..5, NEW f, NEW d, NEW s, Fits(k, struct(Image), d, s)
  PROVE  deepMergeImage(d, s) = At(k, f, struct(Image), d, s)
<1> DEFINE r == Fields(k, Image, d, s)
<1>1. ASSUME d # Nil, s # Nil PROVE deepMergeImage(d, s) = r
  <2>1. k \in 1..5 /\ Below(k, Image, d, s)
    BY <1>1, FitsBelow
  <2>2. Record(Image, d) /\ Record(Image, r)
    BY <2>1 DEF Fields, Below, Record
  <2>3. \A g \in {"Registry", "Repository", "Tag", "Digest", "PullPolicy"} :
             r[g] = mergePointers(d[g], s[g])
    BY <2>1, LeafRules DEF Fields, Below, Image, Plain, Protected
  <2> HIDE DEF r
  <2> QED
    BY <1>1, <2>2, <2>3
    DEF mergeFields, mergeStructs, Record, Image, deepMergeImage
<1> QED
  BY <1>1, StructAt, FitsAbove DEF mergeStructs, deepMergeImage

\* deepMergeNodeSelector, field by field.
LEMMA NodeSelectorLocal ==
  ASSUME NEW k \in 0..5, NEW f, NEW d, NEW s, Fits(k, struct(NodeSelector), d, s)
  PROVE  deepMergeNodeSelector(d, s) = At(k, f, struct(NodeSelector), d, s)
<1> DEFINE r == Fields(k, NodeSelector, d, s)
<1>1. ASSUME d # Nil, s # Nil PROVE deepMergeNodeSelector(d, s) = r
  <2>1. k \in 1..5 /\ Below(k, NodeSelector, d, s)
    BY <1>1, FitsBelow
  <2>2. Record(NodeSelector, d) /\ Record(NodeSelector, r)
    BY <2>1 DEF Fields, Below, Record
  <2>3. r.NodeSelectorTerms = deepMergeSlices(d.NodeSelectorTerms, s.NodeSelectorTerms)
    BY <2>1, LeafRules DEF Fields, Below, NodeSelector, Plain, Protected
  <2> HIDE DEF r
  <2> QED
    BY <1>1, <2>2, <2>3
    DEF mergeFields, mergeStructs, Record, NodeSelector, deepMergeNodeSelector
<1> QED
  BY <1>1, StructAt, FitsAbove DEF mergeStructs, deepMergeNodeSelector

\* deepMergeNodeAffinity, field by field.
LEMMA NodeAffinityLocal ==
  ASSUME NEW k \in 0..5, NEW f, NEW d, NEW s, Fits(k, struct(NodeAffinity), d, s)
  PROVE  deepMergeNodeAffinity(d, s) = At(k, f, struct(NodeAffinity), d, s)
<1> DEFINE r == Fields(k, NodeAffinity, d, s)
<1>1. ASSUME d # Nil, s # Nil PROVE deepMergeNodeAffinity(d, s) = r
  <2>1. k \in 1..5 /\ Below(k, NodeAffinity, d, s)
    BY <1>1, FitsBelow
  <2>2. Record(NodeAffinity, d) /\ Record(NodeAffinity, r)
    BY <2>1 DEF Fields, Below, Record
  <2>3. \A g \in {"PreferredDuringSchedulingIgnoredDuringExecution"} :
             r[g] = deepMergeSlices(d[g], s[g])
    BY <2>1, LeafRules DEF Fields, Below, NodeAffinity, Plain, Protected
  <2>4. r.RequiredDuringSchedulingIgnoredDuringExecution =
          deepMergeNodeSelector(d.RequiredDuringSchedulingIgnoredDuringExecution,
                                s.RequiredDuringSchedulingIgnoredDuringExecution)
    BY <2>1, NodeSelectorLocal DEF Fields, Below, NodeAffinity
  <2> HIDE DEF r
  <2> QED
    BY <1>1, <2>2, <2>3, <2>4
    DEF mergeStructs, Record, NodeAffinity, deepMergeNodeAffinity
<1> QED
  BY <1>1, StructAt, FitsAbove DEF mergeStructs, deepMergeNodeAffinity

\* deepMergePodAffinity and deepMergePodAntiAffinity, field by field.
LEMMA PodAffinityLocal ==
  ASSUME NEW k \in 0..5, NEW f, NEW d, NEW s, Fits(k, struct(PodAffinity), d, s)
  PROVE  /\ deepMergePodAffinity(d, s) = At(k, f, struct(PodAffinity), d, s)
         /\ deepMergePodAntiAffinity(d, s) = At(k, f, struct(PodAffinity), d, s)
<1> DEFINE r == Fields(k, PodAffinity, d, s)
<1>1. ASSUME d # Nil, s # Nil
      PROVE   deepMergePodAffinity(d, s) = r /\ deepMergePodAntiAffinity(d, s) = r
  <2>1. k \in 1..5 /\ Below(k, PodAffinity, d, s)
    BY <1>1, FitsBelow
  <2>2. Record(PodAffinity, d) /\ Record(PodAffinity, r)
    BY <2>1 DEF Fields, Below, Record
  <2>3. \A g \in {"RequiredDuringSchedulingIgnoredDuringExecution",
                    "PreferredDuringSchedulingIgnoredDuringExecution"} :
             r[g] = deepMergeSlices(d[g], s[g])
    BY <2>1, LeafRules DEF Fields, Below, PodAffinity, Plain, Protected
  <2> HIDE DEF r
  <2> QED
    BY <1>1, <2>2, <2>3
    DEF mergeFields, mergeStructs, Record, PodAffinity, deepMergePodAffinity,
        deepMergePodAntiAffinity, AffinityTerms
<1> QED
  BY <1>1, StructAt, FitsAbove
  DEF mergeStructs, deepMergePodAffinity, deepMergePodAntiAffinity

\* deepMergeAffinity, field by field.
LEMMA AffinityLocal ==
  ASSUME NEW k \in 0..5, NEW f, NEW d, NEW s, Fits(k, struct(Affinity), d, s)
  PROVE  deepMergeAffinity(d, s) = At(k, f, struct(Affinity), d, s)
<1> DEFINE r == Fields(k, Affinity, d, s)
<1>1. ASSUME d # Nil, s # Nil PROVE deepMergeAffinity(d, s) = r
  <2>1. k \in 1..5 /\ Below(k, Affinity, d, s)
    BY <1>1, FitsBelow
  <2>2. Record(Affinity, d) /\ Record(Affinity, r)
    BY <2>1 DEF Fields, Below, Record
  <2>3. r.NodeAffinity = deepMergeNodeAffinity(d.NodeAffinity, s.NodeAffinity)
    BY <2>1, NodeAffinityLocal DEF Fields, Below, Affinity
  <2>4. r.PodAffinity = deepMergePodAffinity(d.PodAffinity, s.PodAffinity)
    BY <2>1, PodAffinityLocal DEF Fields, Below, Affinity
  <2>5. r.PodAntiAffinity =
          deepMergePodAntiAffinity(d.PodAntiAffinity, s.PodAntiAffinity)
    BY <2>1, PodAffinityLocal DEF Fields, Below, Affinity
  <2> HIDE DEF r
  <2> QED
    BY <1>1, <2>2, <2>3, <2>4, <2>5
    DEF mergeStructs, Record, Affinity, deepMergeAffinity
<1> QED
  BY <1>1, StructAt, FitsAbove DEF mergeStructs, deepMergeAffinity

-----------------------------------------------------------------------------
(* Functions for probes *)

\* deepMergeExecAction: a command is replaced, not appended to.
LEMMA ExecLocal ==
  ASSUME NEW k \in 0..5, NEW f, NEW d, NEW s, Fits(k, struct(ExecAction), d, s)
  PROVE  deepMergeExecAction(d, s) = At(k, f, struct(ExecAction), d, s)
<1> DEFINE r == Fields(k, ExecAction, d, s)
<1>1. ASSUME d # Nil, s # Nil PROVE deepMergeExecAction(d, s) = r
  <2>1. k \in 1..5 /\ Below(k, ExecAction, d, s)
    BY <1>1, FitsBelow
  <2>2. Record(ExecAction, d) /\ Record(ExecAction, r)
    BY <2>1 DEF Fields, Below, Record
  <2>3. r.Command = overrideSlices(d.Command, s.Command)
    BY <2>1, LeafRules DEF Fields, Below, ExecAction, Plain, Protected
  <2> HIDE DEF r
  <2> QED
    BY <1>1, <2>2, <2>3
    DEF mergeStructs, Record, ExecAction, deepMergeExecAction
<1> QED
  BY <1>1, StructAt, FitsAbove DEF mergeStructs, deepMergeExecAction

\* deepMergeHTTPGetAction, field by field.
LEMMA HTTPGetLocal ==
  ASSUME NEW k \in 0..5, NEW f, NEW d, NEW s, Fits(k, struct(HTTPGetAction), d, s)
  PROVE  deepMergeHTTPGetAction(d, s) = At(k, f, struct(HTTPGetAction), d, s)
<1> DEFINE r == Fields(k, HTTPGetAction, d, s)
<1>1. ASSUME d # Nil, s # Nil PROVE deepMergeHTTPGetAction(d, s) = r
  <2>1. k \in 1..5 /\ Below(k, HTTPGetAction, d, s)
    BY <1>1, FitsBelow
  <2>2. Record(HTTPGetAction, d) /\ Record(HTTPGetAction, r)
    BY <2>1 DEF Fields, Below, Record
  <2>3. /\ \A g \in {"Path", "Host", "Scheme", "Port"} :
             r[g] = mergeComparable(d[g], s[g])
        /\ r.HTTPHeaders = deepMergeSlices(d.HTTPHeaders, s.HTTPHeaders)
    BY <2>1, LeafRules DEF Fields, Below, HTTPGetAction, Plain, Protected
  <2> HIDE DEF r
  <2> QED
    BY <1>1, <2>2, <2>3
    DEF mergeIntOrString, mergeFields, mergeStructs, Record, HTTPGetAction,
        deepMergeHTTPGetAction
<1> QED
  BY <1>1, StructAt, FitsAbove DEF mergeStructs, deepMergeHTTPGetAction

\* deepMergeTCPSocketAction, field by field.
LEMMA TCPSocketLocal ==
  ASSUME NEW k \in 0..5, NEW f, NEW d, NEW s, Fits(k, struct(TCPSocketAction), d, s)
  PROVE  deepMergeTCPSocketAction(d, s) = At(k, f, struct(TCPSocketAction), d, s)
<1> DEFINE r == Fields(k, TCPSocketAction, d, s)
<1>1. ASSUME d # Nil, s # Nil PROVE deepMergeTCPSocketAction(d, s) = r
  <2>1. k \in 1..5 /\ Below(k, TCPSocketAction, d, s)
    BY <1>1, FitsBelow
  <2>2. Record(TCPSocketAction, d) /\ Record(TCPSocketAction, r)
    BY <2>1 DEF Fields, Below, Record
  <2>3. \A g \in {"Port", "Host"} : r[g] = mergeComparable(d[g], s[g])
    BY <2>1, LeafRules DEF Fields, Below, TCPSocketAction, Plain, Protected
  <2> HIDE DEF r
  <2> QED
    BY <1>1, <2>2, <2>3
    DEF mergeIntOrString, mergeStructs, Record, TCPSocketAction, deepMergeTCPSocketAction
<1> QED
  BY <1>1, StructAt, FitsAbove DEF mergeStructs, deepMergeTCPSocketAction

\* deepMergeGRPCAction, field by field.
LEMMA GRPCLocal ==
  ASSUME NEW k \in 0..5, NEW f, NEW d, NEW s, Fits(k, struct(GRPCAction), d, s)
  PROVE  deepMergeGRPCAction(d, s) = At(k, f, struct(GRPCAction), d, s)
<1> DEFINE r == Fields(k, GRPCAction, d, s)
<1>1. ASSUME d # Nil, s # Nil PROVE deepMergeGRPCAction(d, s) = r
  <2>1. k \in 1..5 /\ Below(k, GRPCAction, d, s)
    BY <1>1, FitsBelow
  <2>2. Record(GRPCAction, d) /\ Record(GRPCAction, r)
    BY <2>1 DEF Fields, Below, Record
  <2>3. /\ r.Port = mergeComparable(d.Port, s.Port)
        /\ r.Service = mergePointers(d.Service, s.Service)
    BY <2>1, LeafRules DEF Fields, Below, GRPCAction, Plain, Protected
  <2> HIDE DEF r
  <2> QED
    BY <1>1, <2>2, <2>3
    DEF mergeStructs, Record, GRPCAction, deepMergeGRPCAction
<1> QED
  BY <1>1, StructAt, FitsAbove DEF mergeStructs, deepMergeGRPCAction

\* deepMergeProbeHandler: the one struct that is held by value, so that neither side is nil.
LEMMA HandlerLocal ==
  ASSUME NEW k \in 0..5, NEW f, NEW d, NEW s, Fits(k, inline(ProbeHandler), d, s)
  PROVE  deepMergeProbeHandler(d, s) = At(k, f, inline(ProbeHandler), d, s)
<1> DEFINE r == Fields(k, ProbeHandler, d, s)
<1>1. k \in 1..5 /\ Below(k, ProbeHandler, d, s)
  BY FitsBelow
<1>2. Record(ProbeHandler, d) /\ Record(ProbeHandler, r)
  BY <1>1 DEF Fields, Below, Record
<1>3. r.Exec = deepMergeExecAction(d.Exec, s.Exec)
  BY <1>1, ExecLocal DEF Fields, Below, ProbeHandler
<1>4. r.HTTPGet = deepMergeHTTPGetAction(d.HTTPGet, s.HTTPGet)
  BY <1>1, HTTPGetLocal DEF Fields, Below, ProbeHandler
<1>5. r.TCPSocket = deepMergeTCPSocketAction(d.TCPSocket, s.TCPSocket)
  BY <1>1, TCPSocketLocal DEF Fields, Below, ProbeHandler
<1>6. r.GRPC = deepMergeGRPCAction(d.GRPC, s.GRPC)
  BY <1>1, GRPCLocal DEF Fields, Below, ProbeHandler
<1> HIDE DEF r
<1>7. deepMergeProbeHandler(d, s) = r
  BY <1>2, <1>3, <1>4, <1>5, <1>6 DEF Record, ProbeHandler, deepMergeProbeHandler
<1> QED
  BY <1>1, <1>7, StructAt DEF r

\* deepMergeProbe, field by field.
LEMMA ProbeLocal ==
  ASSUME NEW k \in 0..5, NEW f, NEW d, NEW s, Fits(k, struct(Probe), d, s)
  PROVE  deepMergeProbe(d, s) = At(k, f, struct(Probe), d, s)
<1> DEFINE r == Fields(k, Probe, d, s)
<1>1. ASSUME d # Nil, s # Nil PROVE deepMergeProbe(d, s) = r
  <2>1. k \in 1..5 /\ Below(k, Probe, d, s)
    BY <1>1, FitsBelow
  <2>2. Record(Probe, d) /\ Record(Probe, r)
    BY <2>1 DEF Fields, Below, Record
  <2>3. /\ \A g \in {"InitialDelaySeconds", "TimeoutSeconds", "PeriodSeconds",
                    "SuccessThreshold", "FailureThreshold"} :
             r[g] = mergeComparable(d[g], s[g])
        /\ \A g \in {"TerminationGracePeriodSeconds"} : r[g] = mergePointers(d[g], s[g])
    BY <2>1, LeafRules DEF Fields, Below, Probe, Plain, Protected
  <2>4. r.ProbeHandler = deepMergeProbeHandler(d.ProbeHandler, s.ProbeHandler)
    BY <2>1, HandlerLocal DEF Fields, Below, Probe
  <2> HIDE DEF r
  <2> QED
    BY <1>1, <2>2, <2>3, <2>4
    DEF mergeFields, mergeStructs, Record, Probe, deepMergeProbe
<1> QED
  BY <1>1, StructAt, FitsAbove DEF mergeStructs, deepMergeProbe

-----------------------------------------------------------------------------
(* Functions for the parts of a proxy *)

\* deepMergeGracefulShutdown, field by field.
LEMMA GracefulShutdownLocal ==
  ASSUME NEW k \in 0..5, NEW f, NEW d, NEW s, Fits(k, struct(GracefulShutdownSpec), d, s)
  PROVE  deepMergeGracefulShutdown(d, s) = At(k, f, struct(GracefulShutdownSpec), d, s)
<1> DEFINE r == Fields(k, GracefulShutdownSpec, d, s)
<1>1. ASSUME d # Nil, s # Nil PROVE deepMergeGracefulShutdown(d, s) = r
  <2>1. k \in 1..5 /\ Below(k, GracefulShutdownSpec, d, s)
    BY <1>1, FitsBelow
  <2>2. Record(GracefulShutdownSpec, d) /\ Record(GracefulShutdownSpec, r)
    BY <2>1 DEF Fields, Below, Record
  <2>3. \A g \in {"Enabled", "SleepTimeSeconds"} : r[g] = mergePointers(d[g], s[g])
    BY <2>1, LeafRules DEF Fields, Below, GracefulShutdownSpec, Plain, Protected
  <2> HIDE DEF r
  <2> QED
    BY <1>1, <2>2, <2>3
    DEF mergeFields, mergeStructs, Record, GracefulShutdownSpec, deepMergeGracefulShutdown
<1> QED
  BY <1>1, StructAt, FitsAbove DEF mergeStructs, deepMergeGracefulShutdown

\* deepMergePodTemplate, field by field.
LEMMA PodLocal ==
  ASSUME NEW k \in 0..5, NEW f, NEW d, NEW s, Fits(k, struct(Pod), d, s)
  PROVE  deepMergePodTemplate(d, s) = At(k, f, struct(Pod), d, s)
<1> DEFINE r == Fields(k, Pod, d, s)
<1>1. ASSUME d # Nil, s # Nil PROVE deepMergePodTemplate(d, s) = r
  <2>1. k \in 1..5 /\ Below(k, Pod, d, s)
    BY <1>1, FitsBelow
  <2>2. Record(Pod, d) /\ Record(Pod, r)
    BY <2>1 DEF Fields, Below, Record
  <2>3. /\ \A g \in {"ExtraLabels", "ExtraAnnotations", "NodeSelector"} :
             r[g] = deepMergeMaps(d[g], s[g])
        /\ \A g \in {"ImagePullSecrets", "Tolerations"} :
             r[g] = deepMergeSlices(d[g], s[g])
        /\ \A g \in {"TerminationGracePeriodSeconds"} : r[g] = mergePointers(d[g], s[g])
    BY <2>1, LeafRules DEF Fields, Below, Pod, Plain, Protected
  <2>4. r.SecurityContext =
          deepMergePodSecurityContext(d.SecurityContext, s.SecurityContext)
    BY <2>1, PodSecurityLocal DEF Fields, Below, Pod
  <2>5. r.Affinity = deepMergeAffinity(d.Affinity, s.Affinity)
    BY <2>1, AffinityLocal DEF Fields, Below, Pod
  <2>6. r.GracefulShutdown =
          deepMergeGracefulShutdown(d.GracefulShutdown, s.GracefulShutdown)
    BY <2>1, GracefulShutdownLocal DEF Fields, Below, Pod
  <2>7. r.ReadinessProbe = deepMergeProbe(d.ReadinessProbe, s.ReadinessProbe)
    BY <2>1, ProbeLocal DEF Fields, Below, Pod
  <2>8. r.LivenessProbe = deepMergeProbe(d.LivenessProbe, s.LivenessProbe)
    BY <2>1, ProbeLocal DEF Fields, Below, Pod
  <2> HIDE DEF r
  <2> QED
    BY <1>1, <2>2, <2>3, <2>4, <2>5, <2>6, <2>7, <2>8
    DEF mergeFields, mergeStructs, Record, Pod, deepMergePodTemplate
<1> QED
  BY <1>1, StructAt, FitsAbove DEF mergeStructs, deepMergePodTemplate

\* deepMergeService, field by field.
LEMMA ServiceLocal ==
  ASSUME NEW k \in 0..5, NEW f, NEW d, NEW s, Fits(k, struct(Service), d, s)
  PROVE  deepMergeService(d, s) = At(k, f, struct(Service), d, s)
<1> DEFINE r == Fields(k, Service, d, s)
<1>1. ASSUME d # Nil, s # Nil PROVE deepMergeService(d, s) = r
  <2>1. k \in 1..5 /\ Below(k, Service, d, s)
    BY <1>1, FitsBelow
  <2>2. Record(Service, d) /\ Record(Service, r)
    BY <2>1 DEF Fields, Below, Record
  <2>3. /\ \A g \in {"Type", "ClusterIP"} : r[g] = mergePointers(d[g], s[g])
        /\ \A g \in {"ExtraLabels", "ExtraAnnotations"} :
             r[g] = deepMergeMaps(d[g], s[g])
    BY <2>1, LeafRules DEF Fields, Below, Service, Plain, Protected
  <2> HIDE DEF r
  <2> QED
    BY <1>1, <2>2, <2>3
    DEF mergeFields, mergeStructs, Record, Service, deepMergeService
<1> QED
  BY <1>1, StructAt, FitsAbove DEF mergeStructs, deepMergeService

\* deepMergeServiceAccount, field by field.
LEMMA ServiceAccountLocal ==
  ASSUME NEW k \in 0..5, NEW f, NEW d, NEW s, Fits(k, struct(ServiceAccount), d, s)
  PROVE  deepMergeServiceAccount(d, s) = At(k, f, struct(ServiceAccount), d, s)
<1> DEFINE r == Fields(k, ServiceAccount, d, s)
<1>1. ASSUME d # Nil, s # Nil PROVE deepMergeServiceAccount(d, s) = r
  <2>1. k \in 1..5 /\ Below(k, ServiceAccount, d, s)
    BY <1>1, FitsBelow
  <2>2. Record(ServiceAccount, d) /\ Record(ServiceAccount, r)
    BY <2>1 DEF Fields, Below, Record
  <2>3. \A g \in {"ExtraLabels", "ExtraAnnotations"} :
             r[g] = deepMergeMaps(d[g], s[g])
    BY <2>1, LeafRules DEF Fields, Below, ServiceAccount, Plain, Protected
  <2> HIDE DEF r
  <2> QED
    BY <1>1, <2>2, <2>3
    DEF mergeFields, mergeStructs, Record, ServiceAccount, deepMergeServiceAccount
<1> QED
  BY <1>1, StructAt, FitsAbove DEF mergeStructs, deepMergeServiceAccount

\* deepMergeSdsBootstrap, field by field.
LEMMA SdsBootstrapLocal ==
  ASSUME NEW k \in 0..5, NEW f, NEW d, NEW s, Fits(k, struct(SdsBootstrap), d, s)
  PROVE  deepMergeSdsBootstrap(d, s) = At(k, f, struct(SdsBootstrap), d, s)
<1> DEFINE r == Fields(k, SdsBootstrap, d, s)
<1>1. ASSUME d # Nil, s # Nil PROVE deepMergeSdsBootstrap(d, s) = r
  <2>1. k \in 1..5 /\ Below(k, SdsBootstrap, d, s)
    BY <1>1, FitsBelow
  <2>2. Record(SdsBootstrap, d) /\ Record(SdsBootstrap, r)
    BY <2>1 DEF Fields, Below, Record
  <2>3. r.LogLevel = mergePointers(d.LogLevel, s.LogLevel)
    BY <2>1, LeafRules DEF Fields, Below, SdsBootstrap, Plain, Protected
  <2> HIDE DEF r
  <2> QED
    BY <1>1, <2>2, <2>3
    DEF mergeStructs, Record, SdsBootstrap, deepMergeSdsBootstrap
<1> QED
  BY <1>1, StructAt, FitsAbove DEF mergeStructs, deepMergeSdsBootstrap

\* deepMergeSdsContainer, field by field.
LEMMA SdsLocal ==
  ASSUME NEW k \in 0..5, NEW f, NEW d, NEW s, Fits(k, struct(SdsContainer), d, s)
  PROVE  deepMergeSdsContainer(d, s) = At(k, f, struct(SdsContainer), d, s)
<1> DEFINE r == Fields(k, SdsContainer, d, s)
<1>1. ASSUME d # Nil, s # Nil PROVE deepMergeSdsContainer(d, s) = r
  <2>1. k \in 1..5 /\ Below(k, SdsContainer, d, s)
    BY <1>1, FitsBelow
  <2>2. Record(SdsContainer, d) /\ Record(SdsContainer, r)
    BY <2>1 DEF Fields, Below, Record
  <2>3. r.Image = deepMergeImage(d.Image, s.Image)
    BY <2>1, ImageLocal DEF Fields, Below, SdsContainer
  <2>4. r.SecurityContext =
          deepMergeSecurityContext(d.SecurityContext, s.SecurityContext)
    BY <2>1, SecurityLocal DEF Fields, Below, SdsContainer
  <2>5. r.Resources = deepMergeResourceRequirements(d.Resources, s.Resources)
    BY <2>1, ResourcesLocal DEF Fields, Below, SdsContainer
  <2>6. r.Bootstrap = deepMergeSdsBootstrap(d.Bootstrap, s.Bootstrap)
    BY <2>1, SdsBootstrapLocal DEF Fields, Below, SdsContainer
  <2> HIDE DEF r
  <2> QED
    BY <1>1, <2>2, <2>3, <2>4, <2>5, <2>6
    DEF mergeStructs, Record, SdsContainer, deepMergeSdsContainer
<1> QED
  BY <1>1, StructAt, FitsAbove DEF mergeStructs, deepMergeSdsContainer

\* deepMergeIstioContainer: three fields keep the default.
LEMMA IstioContainerLocal ==
  ASSUME NEW k \in 0..5, NEW f, NEW d, NEW s, Fits(k, struct(IstioContainer), d, s)
  PROVE  deepMergeIstioContainer(d, s) = At(k, f, struct(IstioContainer), d, s)
<1> DEFINE r == Fields(k, IstioContainer, d, s)
<1>1. ASSUME d # Nil, s # Nil PROVE deepMergeIstioContainer(d, s) = r
  <2>1. k \in 1..5 /\ Below(k, IstioContainer, d, s)
    BY <1>1, FitsBelow
  <2>2. Record(IstioContainer, d) /\ Record(IstioContainer, r)
    BY <2>1 DEF Fields, Below, Record
  <2>3. /\ \A g \in {"IstioDiscoveryAddress", "IstioMetaMeshId", "IstioMetaClusterId"} :
             r[g] = keepDefault(d[g], s[g])
        /\ r.LogLevel = mergePointers(d.LogLevel, s.LogLevel)
    BY <2>1, LeafRules DEF Fields, Below, IstioContainer, Plain, Protected
  <2>4. r.Image = deepMergeImage(d.Image, s.Image)
    BY <2>1, ImageLocal DEF Fields, Below, IstioContainer
  <2>5. r.SecurityContext =
          deepMergeSecurityContext(d.SecurityContext, s.SecurityContext)
    BY <2>1, SecurityLocal DEF Fields, Below, IstioContainer
  <2>6. r.Resources = deepMergeResourceRequirements(d.Resources, s.Resources)
    BY <2>1, ResourcesLocal DEF Fields, Below, IstioContainer
  <2> HIDE DEF r
  <2> QED
    BY <1>1, <2>2, <2>3, <2>4, <2>5, <2>6
    DEF mergeFields, mergeStructs, Record, IstioContainer, deepMergeIstioContainer
<1> QED
  BY <1>1, StructAt, FitsAbove DEF mergeStructs, deepMergeIstioContainer

\* deepMergeIstioIntegration: a list of sidecars is replaced, not appended to.
LEMMA IstioLocal ==
  ASSUME NEW k \in 0..5, NEW f, NEW d, NEW s, Fits(k, struct(IstioIntegration), d, s)
  PROVE  deepMergeIstioIntegration(d, s) = At(k, f, struct(IstioIntegration), d, s)
<1> DEFINE r == Fields(k, IstioIntegration, d, s)
<1>1. ASSUME d # Nil, s # Nil PROVE deepMergeIstioIntegration(d, s) = r
  <2>1. k \in 1..5 /\ Below(k, IstioIntegration, d, s)
    BY <1>1, FitsBelow
  <2>2. Record(IstioIntegration, d) /\ Record(IstioIntegration, r)
    BY <2>1 DEF Fields, Below, Record
  <2>3. r.CustomSidecars = mergeCustomSidecars(d.CustomSidecars, s.CustomSidecars)
    BY <2>1, LeafRules DEF Fields, Below, IstioIntegration, Plain, Protected
  <2>4. r.IstioProxyContainer =
          deepMergeIstioContainer(d.IstioProxyContainer, s.IstioProxyContainer)
    BY <2>1, IstioContainerLocal DEF Fields, Below, IstioIntegration
  <2> HIDE DEF r
  <2> QED
    BY <1>1, <2>2, <2>3, <2>4
    DEF mergeStructs, Record, IstioIntegration, deepMergeIstioIntegration
<1> QED
  BY <1>1, StructAt, FitsAbove DEF mergeStructs, deepMergeIstioIntegration

\* deepMergeEnvoyBootstrap, field by field.
LEMMA EnvoyBootstrapLocal ==
  ASSUME NEW k \in 0..5, NEW f, NEW d, NEW s, Fits(k, struct(EnvoyBootstrap), d, s)
  PROVE  deepMergeEnvoyBootstrap(d, s) = At(k, f, struct(EnvoyBootstrap), d, s)
<1> DEFINE r == Fields(k, EnvoyBootstrap, d, s)
<1>1. ASSUME d # Nil, s # Nil PROVE deepMergeEnvoyBootstrap(d, s) = r
  <2>1. k \in 1..5 /\ Below(k, EnvoyBootstrap, d, s)
    BY <1>1, FitsBelow
  <2>2. Record(EnvoyBootstrap, d) /\ Record(EnvoyBootstrap, r)
    BY <2>1 DEF Fields, Below, Record
  <2>3. /\ r.LogLevel = mergePointers(d.LogLevel, s.LogLevel)
        /\ r.ComponentLogLevels = deepMergeMaps(d.ComponentLogLevels, s.ComponentLogLevels)
    BY <2>1, LeafRules DEF Fields, Below, EnvoyBootstrap, Plain, Protected
  <2> HIDE DEF r
  <2> QED
    BY <1>1, <2>2, <2>3
    DEF mergeStructs, Record, EnvoyBootstrap, deepMergeEnvoyBootstrap
<1> QED
  BY <1>1, StructAt, FitsAbove DEF mergeStructs, deepMergeEnvoyBootstrap

\* deepMergeEnvoyContainer, field by field.
LEMMA EnvoyLocal ==
  ASSUME NEW k \in 0..5, NEW f, NEW d, NEW s, Fits(k, struct(EnvoyContainer), d, s)
  PROVE  deepMergeEnvoyContainer(d, s) = At(k, f, struct(EnvoyContainer), d, s)
<1> DEFINE r == Fields(k, EnvoyContainer, d, s)
<1>1. ASSUME d # Nil, s # Nil PROVE deepMergeEnvoyContainer(d, s) = r
  <2>1. k \in 1..5 /\ Below(k, EnvoyContainer, d, s)
    BY <1>1, FitsBelow
  <2>2. Record(EnvoyContainer, d) /\ Record(EnvoyContainer, r)
    BY <2>1 DEF Fields, Below, Record
  <2>3. r.Bootstrap = deepMergeEnvoyBootstrap(d.Bootstrap, s.Bootstrap)
    BY <2>1, EnvoyBootstrapLocal DEF Fields, Below, EnvoyContainer
  <2>4. r.Image = deepMergeImage(d.Image, s.Image)
    BY <2>1, ImageLocal DEF Fields, Below, EnvoyContainer
  <2>5. r.SecurityContext =
          deepMergeSecurityContext(d.SecurityContext, s.SecurityContext)
    BY <2>1, SecurityLocal DEF Fields, Below, EnvoyContainer
  <2>6. r.Resources = deepMergeResourceRequirements(d.Resources, s.Resources)
    BY <2>1, ResourcesLocal DEF Fields, Below, EnvoyContainer
  <2> HIDE DEF r
  <2> QED
    BY <1>1, <2>2, <2>3, <2>4, <2>5, <2>6
    DEF mergeStructs, Record, EnvoyContainer, deepMergeEnvoyContainer
<1> QED
  BY <1>1, StructAt, FitsAbove DEF mergeStructs, deepMergeEnvoyContainer

\* deepMergeStatsConfig, field by field.
LEMMA StatsLocal ==
  ASSUME NEW k \in 0..5, NEW f, NEW d, NEW s, Fits(k, struct(StatsConfig), d, s)
  PROVE  deepMergeStatsConfig(d, s) = At(k, f, struct(StatsConfig), d, s)
<1> DEFINE r == Fields(k, StatsConfig, d, s)
<1>1. ASSUME d # Nil, s # Nil PROVE deepMergeStatsConfig(d, s) = r
  <2>1. k \in 1..5 /\ Below(k, StatsConfig, d, s)
    BY <1>1, FitsBelow
  <2>2. Record(StatsConfig, d) /\ Record(StatsConfig, r)
    BY <2>1 DEF Fields, Below, Record
  <2>3. \A g \in {"Enabled", "RoutePrefixRewrite", "EnableStatsRoute",
                    "StatsRoutePrefixRewrite"} :
             r[g] = mergePointers(d[g], s[g])
    BY <2>1, LeafRules DEF Fields, Below, StatsConfig, Plain, Protected
  <2> HIDE DEF r
  <2> QED
    BY <1>1, <2>2, <2>3
    DEF mergeFields, mergeStructs, Record, StatsConfig, deepMergeStatsConfig
<1> QED
  BY <1>1, StructAt, FitsAbove DEF mergeStructs, deepMergeStatsConfig

\* deepMergeDeployment, field by field.
LEMMA DeploymentLocal ==
  ASSUME NEW k \in 0..5, NEW f, NEW d, NEW s, Fits(k, struct(ProxyDeployment), d, s)
  PROVE  deepMergeDeployment(d, s) = At(k, f, struct(ProxyDeployment), d, s)
<1> DEFINE r == Fields(k, ProxyDeployment, d, s)
<1>1. ASSUME d # Nil, s # Nil PROVE deepMergeDeployment(d, s) = r
  <2>1. k \in 1..5 /\ Below(k, ProxyDeployment, d, s)
    BY <1>1, FitsBelow
  <2>2. Record(ProxyDeployment, d) /\ Record(ProxyDeployment, r)
    BY <2>1 DEF Fields, Below, Record
  <2>3. r.Replicas = mergePointers(d.Replicas, s.Replicas)
    BY <2>1, LeafRules DEF Fields, Below, ProxyDeployment, Plain, Protected
  <2> HIDE DEF r
  <2> QED
    BY <1>1, <2>2, <2>3
    DEF mergeStructs, Record, ProxyDeployment, deepMergeDeployment
<1> QED
  BY <1>1, StructAt, FitsAbove DEF mergeStructs, deepMergeDeployment

\* deepMergeAIExtensionStats, field by field.
LEMMA AiStatsLocal ==
  ASSUME NEW k \in 0..5, NEW f, NEW d, NEW s, Fits(k, struct(AiExtensionStats), d, s)
  PROVE  deepMergeAIExtensionStats(d, s) = At(k, f, struct(AiExtensionStats), d, s)
<1> DEFINE r == Fields(k, AiExtensionStats, d, s)
<1>1. ASSUME d # Nil, s # Nil PROVE deepMergeAIExtensionStats(d, s) = r
  <2>1. k \in 1..5 /\ Below(k, AiExtensionStats, d, s)
    BY <1>1, FitsBelow
  <2>2. Record(AiExtensionStats, d) /\ Record(AiExtensionStats, r)
    BY <2>1 DEF Fields, Below, Record
  <2>3. r.CustomLabels = deepMergeSlices(d.CustomLabels, s.CustomLabels)
    BY <2>1, LeafRules DEF Fields, Below, AiExtensionStats, Plain, Protected
  <2> HIDE DEF r
  <2> QED
    BY <1>1, <2>2, <2>3
    DEF mergeStructs, Record, AiExtensionStats, deepMergeAIExtensionStats
<1> QED
  BY <1>1, StructAt, FitsAbove DEF mergeStructs, deepMergeAIExtensionStats

\* deepMergeAIExtension, field by field.
LEMMA AiLocal ==
  ASSUME NEW k \in 0..5, NEW f, NEW d, NEW s, Fits(k, struct(AiExtension), d, s)
  PROVE  deepMergeAIExtension(d, s) = At(k, f, struct(AiExtension), d, s)
<1> DEFINE r == Fields(k, AiExtension, d, s)
<1>1. ASSUME d # Nil, s # Nil PROVE deepMergeAIExtension(d, s) = r
  <2>1. k \in 1..5 /\ Below(k, AiExtension, d, s)
    BY <1>1, FitsBelow
  <2>2. Record(AiExtension, d) /\ Record(AiExtension, r)
    BY <2>1 DEF Fields, Below, Record
  <2>3. /\ \A g \in {"Env", "Ports"} : r[g] = deepMergeSlices(d[g], s[g])
        /\ r.Enabled = mergePointers(d.Enabled, s.Enabled)
    BY <2>1, LeafRules DEF Fields, Below, AiExtension, Plain, Protected
  <2>4. r.Image = deepMergeImage(d.Image, s.Image)
    BY <2>1, ImageLocal DEF Fields, Below, AiExtension
  <2>5. r.SecurityContext =
          deepMergeSecurityContext(d.SecurityContext, s.SecurityContext)
    BY <2>1, SecurityLocal DEF Fields, Below, AiExtension
  <2>6. r.Resources = deepMergeResourceRequirements(d.Resources, s.Resources)
    BY <2>1, ResourcesLocal DEF Fields, Below, AiExtension
  <2>7. r.Stats = deepMergeAIExtensionStats(d.Stats, s.Stats)
    BY <2>1, AiStatsLocal DEF Fields, Below, AiExtension
  <2> HIDE DEF r
  <2> QED
    BY <1>1, <2>2, <2>3, <2>4, <2>5, <2>6, <2>7
    DEF mergeFields, mergeStructs, Record, AiExtension, deepMergeAIExtension
<1> QED
  BY <1>1, StructAt, FitsAbove DEF mergeStructs, deepMergeAIExtension

-----------------------------------------------------------------------------
(* The merge *)

\* The assignments to Spec.Kube, five levels above the deepest.
LEMMA KubeLocal ==
  ASSUME NEW d, NEW s, IsConfig(d, "any"), IsConfig(s, "documented")
  PROVE  mergeKube(d, s) = Overridden(d, s)
<1> DEFINE r == Fields(5, KubernetesProxyConfig, d, s)
<1>1. d # Nil /\ s # Nil /\ Fits(5, Root, d, s)
  <2> DEFINE top(c, values) == Shape(Root, c, values, Shape4)
  <2>1. d # Nil /\ s # Nil /\ top(d, "any") /\ top(s, "documented")
    BY DEF IsConfig
  <2>2. \A c, values : ShapeAt(5, Root, c, values) = top(c, values)
    <3> HIDE DEF top
    <3> QED
      BY DEF ShapeAt, top
  <2> HIDE DEF top
  <2> QED
    BY <2>1, <2>2 DEF Fits
<1>2. Below(5, KubernetesProxyConfig, d, s)
  BY <1>1, FitsBelow DEF Root
<1>3. Record(KubernetesProxyConfig, d) /\ Record(KubernetesProxyConfig, r)
  BY <1>2 DEF Fields, Below, Record
<1>4. Overridden(d, s) = r
  <2>1. Overridden(d, s) = At(5, "Kube", Root, d, s)
    BY Levels DEF Overridden
  <2> QED
    BY <1>1, <2>1, StructAt DEF Root, mergeStructs
<1>5. r.FloatingUserId = mergePointers(d.FloatingUserId, s.FloatingUserId)
  BY <1>2, LeafRules DEF Fields, Below, KubernetesProxyConfig, Plain, Protected
<1>6. /\ r.Deployment = deepMergeDeployment(d.Deployment, s.Deployment)
      /\ r.EnvoyContainer = deepMergeEnvoyContainer(d.EnvoyContainer, s.EnvoyContainer)
      /\ r.SdsContainer = deepMergeSdsContainer(d.SdsContainer, s.SdsContainer)
  BY <1>2, DeploymentLocal, EnvoyLocal, SdsLocal DEF Fields, Below, KubernetesProxyConfig
<1>7. /\ r.PodTemplate = deepMergePodTemplate(d.PodTemplate, s.PodTemplate)
      /\ r.Service = deepMergeService(d.Service, s.Service)
      /\ r.ServiceAccount = deepMergeServiceAccount(d.ServiceAccount, s.ServiceAccount)
  BY <1>2, PodLocal, ServiceLocal, ServiceAccountLocal
  DEF Fields, Below, KubernetesProxyConfig
<1>8. /\ r.Istio = deepMergeIstioIntegration(d.Istio, s.Istio)
      /\ r.Stats = deepMergeStatsConfig(d.Stats, s.Stats)
      /\ r.AiExtension = deepMergeAIExtension(d.AiExtension, s.AiExtension)
  BY <1>2, IstioLocal, StatsLocal, AiLocal DEF Fields, Below, KubernetesProxyConfig
<1> HIDE DEF r
<1>9. mergeKube(d, s) = r
  BY <1>3, <1>5, <1>6, <1>7, <1>8 DEF Record, KubernetesProxyConfig, mergeKube
<1> QED
  BY <1>4, <1>9

\* The two objects stay what was read, and the result is what the schema says.
IInv == dst \in Defaults /\ src \in Overrides /\ MergeIsLocal

\* deepMergeGatewayParameters changes exactly the fields that the override sets, each by
\* the rule of its type, at any depth: for any default, any set of fields that the
\* override sets together and any values of them.  The premise leaves out the four fields
\* of Kubernetes that merge.go does not know, the Windows options, which it mixes up, and
\* maps and slices that are empty and not nil, which it does not merge as its comments say.
THEOREM MergesFieldByField ==
  ASSUME \A c \in Overrides : IsConfig(c, "documented")
  PROVE  Spec => []MergeIsLocal
<1>1. Init => IInv
  BY DEF Init, IInv, MergeIsLocal
<1>2. ASSUME IInv, [Next]_vars PROVE IInv'
  <2>1. CASE UNCHANGED vars
    BY <1>2, <2>1 DEF IInv, MergeIsLocal, vars
  <2>2. CASE Merge
    <3>1. IsConfig(dst, "any") /\ IsConfig(src, "documented")
      BY <1>2, ConfigsAssumption DEF IInv
    <3>2. dst # Nil /\ src # Nil /\ mergeKube(dst, src) = Overridden(dst, src)
      BY <3>1, KubeLocal DEF IsConfig
    <3>3. merged' = mergeKube(dst, src) /\ dst' = dst /\ src' = src
      BY <2>2, <3>2 DEF Merge, Managed, deepMergeGatewayParameters, mergeInPlace
    <3> QED
      BY <1>2, <3>2, <3>3 DEF IInv, MergeIsLocal
  <2> QED
    BY <1>2, <2>1, <2>2 DEF Next
<1>3. IInv => MergeIsLocal
  BY DEF IInv
<1> QED
  BY <1>1, <1>2, <1>3, PTL DEF Spec
=============================================================================
