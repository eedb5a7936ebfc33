-------------------------- MODULE MCOverrideMerge --------------------------
(***************************************************************************)
(* Configurations in which at most one field is set, with every kind of    *)
(* value it can have, and configurations in which all fields are set.      *)
(***************************************************************************)
EXTENDS OverrideMerge

\* All paths: to structs and to fields, at most Depth fields deep.
Depth == 6
PathsOfLength[n \in 0..Depth] ==
  IF n = 0 THEN {<<>>}
  ELSE UNION {{Append(p, f) : f \in DOMAIN TypeAt(p).fields} :
                p \in {q \in PathsOfLength[n - 1] : IsStruct(TypeAt(q))}}
Paths == UNION {PathsOfLength[n] : n \in 1..Depth}

WindowsPaths == {p \in Paths : \E i \in 1..Len(p) : p[i] = "WindowsOptions"}

MapPaths == {p \in Paths : TypeAt(p).kind = "map"}

\* Values that a field of side "d" (default) or "s" (override) may have.
Values(t, side) ==
  CASE t.kind \in {"ptr", "value"} -> {side}
    [] t.kind = "map" -> {<<>>, [k |-> side], [k |-> side, l |-> side], side :> side}
    [] t.kind = "slice" -> {<<>>, <<side>>}
    [] OTHER -> {ZeroFields(t)}

Empty == ZeroFields(Root)

\* Everything is set but the fields in absent.
RECURSIVE Full(_, _, _)
Full(t, absent, side) ==
  [f \in DOMAIN t.fields |->
     CASE f \in absent -> Nil
       [] f \notin absent /\ IsStruct(t.fields[f]) -> Full(t.fields[f], absent, side)
       [] f \notin absent /\ t.fields[f].kind = "map" -> [k |-> side]
       [] f \notin absent /\ t.fields[f].kind = "slice" -> <<side>>
       [] OTHER -> side]

OneField(paths, side) ==
  UNION {{Put(Empty, p, v) : v \in Values(TypeAt(p), side)} : p \in paths}

AllDefaults      == {Empty, Full(Root, {}, "d")} \cup OneField(Paths, "d")
LocalOverrides   == {c \in {Empty, Full(Root, NotMerged, "s")} \cup OneField(Paths, "s") :
                       IsConfig(c, "documented")}
WindowsDefaults  == OneField(WindowsPaths, "d")
WindowsOverrides == OneField(WindowsPaths, "s")
MapDefaults      == OneField(MapPaths, "d")
EmptyMaps        == {Put(Empty, p, <<>>) : p \in MapPaths}
=============================================================================
