---------------------------- MODULE ProjectIndex ----------------------------
(***************************************************************************)
(* The project index of gdls: interfaces, the class_name registry, the     *)
(* dependency graph, the tables of what each file refers to, and the       *)
(* dirty set and epochs that invalidate analyses                           *)
(* (crates/gd_project/src/{index,registry,depgraph}.rs).                   *)
(*                                                                         *)
(* The index is a value, and each of its operations an operator from an    *)
(* index to an index: Index::txn runs them whole, on one thread.  A FileId *)
(* is the path it was interned for.  A text stands for an interface, which *)
(* Unit describes.                                                         *)
(***************************************************************************)
EXTENDS Naturals

CONSTANTS
  Paths,     \* the .gd paths
  Names,     \* class and autoload names
  Uids,      \* uid:// strings
  Texts,     \* contents of scripts
  Unit,      \* text -> what the index extracts from it
  Rank,      \* path -> its place in Godot's scan order
  Scanned,   \* the paths Godot's own scan reaches
  Autoload,  \* name -> path of the autoload's script, or None
  None

(* What a file exposes is hashed into sig: the class it declares, the names *)
(* in its interface, and of its extends and the initializers whose shape is *)
(* kept the names (inits) and the literals, paths or uids.  What it only    *)
(* depends on is not: body, the identifiers of its function bodies, and     *)
(* preloads, every preload and load literal (body_refs, preload_deps).      *)
UnitType == [sig : Nat, declares : Names \cup {None}, names : SUBSET Names,
             inits : SUBSET Names, body : SUBSET Names,
             literals : SUBSET (Paths \cup Uids), preloads : SUBSET (Paths \cup Uids)]

(* Equal signatures: what is hashed is equal.  Nothing is said of what is   *)
(* not hashed, and a collision of the 64-bit hash is left out.              *)
ASSUME IndexConstants ==
  /\ Unit \in [Texts -> UnitType]
  /\ \A s, t \in Texts : Unit[s].sig = Unit[t].sig =>
       /\ Unit[s].declares = Unit[t].declares
       /\ Unit[s].names = Unit[t].names
       /\ Unit[s].inits = Unit[t].inits
       /\ Unit[s].literals = Unit[t].literals
  /\ Rank \in [Paths -> Nat]
  /\ \A p, q \in Paths : Rank[p] = Rank[q] => p = q
  /\ Scanned \subseteq Paths
  /\ Autoload \in [Names -> Paths \cup {None}]
  /\ None \notin Paths /\ None \notin Texts /\ None \notin Names /\ None \notin Uids
  /\ Paths \cap Uids = {}

(* A table keeps, for a file, the keys it refers to, and for a key, the    *)
(* files that refer to it: DepGraph::{forward, reverse}, file_refs and     *)
(* name_referencers, file_path_refs and path_referencers, uid_refs and     *)
(* uid_referencers.                                                        *)
Table(Keys) == [of : [Paths -> SUBSET Keys], at : [Keys -> SUBSET Paths]]
EmptyTable(Keys) == [of |-> [p \in Paths |-> {}], at |-> [k \in Keys |-> {}]]

(* set_deps, set_name_refs, set_path_refs, set_uid_refs for each file of   *)
(* F: leave the keys referred to before, join the new ones.                *)
Point(table, F, new) ==
  [of |-> [p \in DOMAIN table.of |-> IF p \in F THEN new[p] ELSE table.of[p]],
   at |-> [k \in DOMAIN table.at |->
             {p \in table.at[k] : p \notin F \/ k \notin table.of[p]}
             \cup {p \in F : k \in new[p]}]]

Index == [iface    : [Paths -> Texts \cup {None}],
          declared : [Paths -> Names \cup {None}],
          deps     : Table(Paths),
          names    : Table(Names),
          targets  : Table(Paths),
          uidRefs  : Table(Uids),
          uids     : [Uids -> Paths \cup {None}],
          dirty    : SUBSET Paths,
          epochs   : [Paths -> Nat]]

Live(x) == {p \in Paths : x.iface[p] # None}

(* ClassNameRegistry: a file Godot's scan reaches beats one it does not,   *)
(* then the later in scan order; the greatest declarer owns the name.      *)
Beats(p, q) == IF p \in Scanned <=> q \in Scanned THEN Rank[p] > Rank[q]
               ELSE p \in Scanned
Declarers(x, n) == {p \in Paths : x.declared[p] = n}
Winners(x, n) == {p \in Declarers(x, n) : \A q \in Declarers(x, n) \ {p} : Beats(p, q)}
Owner(x, n) == IF Winners(x, n) = {} THEN None ELSE CHOOSE p \in Winners(x, n) : TRUE

(* Index::deref_uid and resolve_path: a literal names a live file or none. *)
Deref(x, l) == IF l \in Uids THEN x.uids[l] ELSE l
Resolve(x, l) == LET p == Deref(x, l)
                 IN  IF p # None /\ x.iface[p] # None THEN p ELSE None

(* What the file p refers to, and what of it p shows to others.  The names *)
(* of kept initializers are hashed, but found as those of bodies are.      *)
NamesOf(x, p)    == IF x.iface[p] = None THEN {} ELSE Unit[x.iface[p]].names
BodyOf(x, p)     == IF x.iface[p] = None THEN {}
                    ELSE Unit[x.iface[p]].body \cup Unit[x.iface[p]].inits
ShownNames(x, p) == IF x.iface[p] = None THEN {}
                    ELSE Unit[x.iface[p]].names \cup Unit[x.iface[p]].inits
ExposedOf(x, p)  == IF x.iface[p] = None THEN {} ELSE Unit[x.iface[p]].literals
LiteralsOf(x, p) == IF x.iface[p] = None THEN {}
                    ELSE Unit[x.iface[p]].literals \cup Unit[x.iface[p]].preloads

Edges(x, p) == ({Owner(x, n) : n \in NamesOf(x, p) \cup BodyOf(x, p)}
                \cup {Resolve(x, l) : l \in LiteralsOf(x, p)}) \ {None, p}
TargetsOf(x, p) == {Deref(x, l) : l \in LiteralsOf(x, p)} \ {None}

(* Index::recompute_edges for each file of F.                              *)
Relink(x, F) ==
  [x EXCEPT !.deps    = Point(@, F, [p \in F |-> Edges(x, p)]),
            !.names   = Point(@, F, [p \in F |-> NamesOf(x, p)]),
            !.uidRefs = Point(@, F, [p \in F |-> LiteralsOf(x, p) \cap Uids]),
            !.targets = Point(@, F, [p \in F |-> TargetsOf(x, p)])]

Mark(x, F) ==
  [x EXCEPT !.dirty = @ \cup F,
            !.epochs = [p \in Paths |-> IF p \in F THEN @[p] + 1 ELSE @[p]]]

(* Mutant: only the files with an edge of their own are found.             *)
DirectReferencers(x, p) == x.deps.at[p] \ {p}

(* DepGraph::reverse_closure: the files from which p is reached, less p.   *)
ReverseClosure(x, p) ==
  {q \in Paths \ {p} : \A S \in SUBSET Paths :
     (x.deps.at[p] \subseteq S /\ \A r \in S : x.deps.at[r] \subseteq S) => q \in S}

(* Mutant: the names of interfaces only, as before bodies had edges.       *)
InterfaceReferencers(x, N) == UNION {x.names.at[n] : n \in N}

(* Index::relink_referencers for each name of N.  The code goes file by    *)
(* file, and takes each closure with the files after it not yet relinked:  *)
(* such a file is marked with its own closure when its turn comes, so the  *)
(* set marked in the end is the one below.                                 *)
Referencers(x, N) == (UNION {x.names.at[n] : n \in N})
                     \cup {p \in Paths : BodyOf(x, p) \cap N # {}}
RelinkNames(x, N) ==
  LET F == Referencers(x, N)
      y == Relink(x, F)
  IN  IF N = {} THEN x
      ELSE Mark(y, F \cup (UNION {ReverseClosure(y, p) : p \in F})
                     \cup (UNION {Declarers(y, n) : n \in N}))

(* Index::relink_path_referencers and relink_uid_referencers: the files    *)
(* are relinked and marked, those that depend on them are not.             *)
RelinkPath(x, p) == Mark(Relink(x, x.targets.at[p]), x.targets.at[p])
RelinkUids(x, U) == LET F == UNION {x.uidRefs.at[u] : u \in U}
                    IN  Mark(Relink(x, F), F)

(* What insert_declaration and remove_by_path report: the names whose      *)
(* owner changed.                                                          *)
Moved(x, y) == {n \in Names : Owner(x, n) # Owner(y, n)}

SetInterface(x, p, t) ==
  [x EXCEPT !.iface[p] = t, !.declared[p] = Unit[t].declares]

(* Mutant: dependents are marked whether or not the signature changed.     *)
OnFileTouched(x, p, t) ==
  LET set   == SetInterface(x, p, t)
      own   == Mark(Relink(set, {p}), {p})
      named == RelinkNames(Mark(own, ReverseClosure(own, p)), Moved(x, set))
  IN  IF x.iface[p] = None THEN RelinkPath(named, p) ELSE named

OnFileChanged(x, p, t) ==
  LET set   == SetInterface(x, p, t)
      own   == Mark(Relink(set, {p}), {p})
      same  == x.iface[p] # None /\ Unit[x.iface[p]].sig = Unit[t].sig
      deps  == IF same THEN own ELSE Mark(own, ReverseClosure(own, p))
      named == RelinkNames(deps, Moved(x, set))
  IN  IF x.iface[p] = None THEN RelinkPath(named, p) ELSE named

(* DepGraph::remove and the three set_*_refs with nothing.                 *)
Detach(x, p) ==
  LET none == [f \in {p} |-> {}]
      out  == Point(x.deps, {p}, none)
  IN  [x EXCEPT !.iface[p] = None,
                !.deps = [of |-> [f \in Paths |-> out.of[f] \ {p}],
                          at |-> [out.at EXCEPT ![p] = {}]],
                !.names = Point(@, {p}, none),
                !.targets = Point(@, {p}, none),
                !.uidRefs = Point(@, {p}, none),
                !.dirty = @ \ {p}]

OnFileRemoved(x, p) ==
  LET undeclared == [x EXCEPT !.declared[p] = None]
      marked == Mark(undeclared, ReverseClosure(x, p))
  IN  RelinkNames(Detach(marked, p), Moved(x, undeclared))

(* Index::set_uid_map, and sync_uid_for_resource through it.               *)
SetUids(x, m) ==
  RelinkUids([x EXCEPT !.uids = m], {u \in Uids : x.uids[u] # m[u]})

TakeDirty(x) == [x EXCEPT !.dirty = {}]

(* Index::build: every interface, then every edge.  Nothing is dirty.      *)
ColdIndex(files, uids) ==
  LET x == [iface |-> files,
            declared |-> [p \in Paths |-> IF files[p] = None THEN None
                                          ELSE Unit[files[p]].declares],
            deps |-> EmptyTable(Paths), names |-> EmptyTable(Names),
            targets |-> EmptyTable(Paths), uidRefs |-> EmptyTable(Uids),
            uids |-> uids, dirty |-> {}, epochs |-> [p \in Paths |-> 0]]
  IN  Relink(x, Live(x))
-----------------------------------------------------------------------------
(* Index::verify: both directions of every table agree, every declarer is  *)
(* known, and only live files are referencers.                             *)
Mirrored(table) == \A p \in DOMAIN table.of, k \in DOMAIN table.at :
                     k \in table.of[p] <=> p \in table.at[k]
Verified(x) ==
  /\ Mirrored(x.deps) /\ Mirrored(x.names) /\ Mirrored(x.targets) /\ Mirrored(x.uidRefs)
  /\ \A p \in Paths \ Live(x) :
       /\ x.declared[p] = None
       /\ x.deps.of[p] = {} /\ x.deps.at[p] = {}
       /\ x.names.of[p] = {} /\ x.targets.of[p] = {} /\ x.uidRefs.of[p] = {}
  /\ x.dirty \subseteq Live(x)

(* The incrementally kept index is the one a cold build of the same files  *)
(* would give.                                                             *)
Linked(x, p) ==
  /\ x.declared[p] = Unit[x.iface[p]].declares
  /\ x.deps.of[p] = Edges(x, p)
  /\ x.names.of[p] = NamesOf(x, p)
  /\ x.targets.of[p] = TargetsOf(x, p)
  /\ x.uidRefs.of[p] = LiteralsOf(x, p) \cap Uids
AllLinked(x) == \A p \in Live(x) : Linked(x, p)
=============================================================================
