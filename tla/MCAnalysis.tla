----------------------------- MODULE MCAnalysis -----------------------------
(* Finite instances of Analysis for TLC.  p1 and p2 are in Godot's scan,   *)
(* p3 is in an ignored directory; ranks follow the paths.                  *)
EXTENDS Analysis, TLC

CONSTANTS p1, p2, p3, uid, N, M,
          base,   \* class_name N
          base2,  \* class_name N, with a member preload("uid://...")
          mid,    \* class_name M extends N
          mid2,   \* class_name M, with a member initialized by N.make()
          link,   \* class_name M extends "res://p1", load("uid://...") in a body
          link2,  \* the same interface, with N and load("res://p3") in a body
          leaf    \* uses M in a body

MCRank == (p1 :> 1) @@ (p2 :> 2) @@ (p3 :> 3)
Text(sig, declares, names, inits, body, literals, preloads) ==
  [sig |-> sig, declares |-> declares, names |-> names, inits |-> inits, body |-> body,
   literals |-> literals, preloads |-> preloads]
MCUnit == (base  :> Text(1, N, {}, {}, {}, {}, {})) @@ (base2 :> Text(2, N, {}, {}, {}, {uid}, {uid}))
          @@ (mid   :> Text(3, M, {N}, {}, {}, {}, {}))
          @@ (mid2  :> Text(6, M, {}, {N}, {}, {}, {}))
          @@ (link  :> Text(4, M, {}, {}, {}, {p1}, {uid}))
          @@ (link2 :> Text(4, M, {}, {}, {N}, {p1}, {p3}))
          @@ (leaf  :> Text(5, None, {}, {}, {M}, {}, {}))

NoAutoload   == (N :> None) @@ (M :> None)
WithAutoload == (N :> None) @@ (M :> p2)

Project(t1, t2, t3) == (p1 :> t1) @@ (p2 :> t2) @@ (p3 :> t3)
Chain      == Project(base, mid, leaf)
ByLiteral  == Project(base, link, leaf)
Contested  == Project(base2, link2, base)
(* The autoload M is the script p2, which declares no class M.             *)
AutoloadVersions == (p1 :> {base2}) @@ (p2 :> {base, base2}) @@ (p3 :> {leaf})
AutoloadProjects == {Project(None, base, leaf)}

MCVersions == (p1 :> {base, base2, leaf}) @@ (p2 :> {mid, mid2, link, link2}) @@ (p3 :> {leaf, base})
MCProjects == {Chain, ByLiteral, Contested}
Symmetry == Permutations(Settings)
MCUidMaps  == {uid :> p1}
=============================================================================
