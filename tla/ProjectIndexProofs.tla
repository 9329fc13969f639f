------------------------- MODULE ProjectIndexProofs -------------------------
(***************************************************************************)
(* Proofs about the operations of ProjectIndex, for every set of files,    *)
(* names, uids and texts: an operation that starts from a verified index   *)
(* in which every live file is linked ends in one.                         *)
(***************************************************************************)
EXTENDS ProjectIndex, TLAPS

(* A verified index, some of whose files may await relinking.              *)
Sound(x) == x \in Index /\ Verified(x)

(* What Linked says of the tables, and of the registry; TabledBut: every   *)
(* live file outside F has its tables right.                               *)
Tabled(x, p) == /\ x.deps.of[p] = Edges(x, p)
                /\ x.names.of[p] = NamesOf(x, p)
                /\ x.targets.of[p] = TargetsOf(x, p)
                /\ x.uidRefs.of[p] = LiteralsOf(x, p) \cap Uids
TabledBut(x, F) == \A p \in Live(x) \ F : Tabled(x, p)
AllDeclared(x) == \A p \in Live(x) : x.declared[p] = Unit[x.iface[p]].declares

(* The files p refers to are the same in both.                             *)
OfSame(x, y, p) == /\ y.deps.of[p] = x.deps.of[p] /\ y.names.of[p] = x.names.of[p]
                   /\ y.targets.of[p] = x.targets.of[p] /\ y.uidRefs.of[p] = x.uidRefs.of[p]

(* Epochs never go back, and those of S moved on.                          *)
Marked(x, y, S) == /\ \A p \in Paths : y.epochs[p] \in Nat /\ y.epochs[p] >= x.epochs[p]
                   /\ \A p \in S : y.epochs[p] > x.epochs[p]

(* What edges are computed from.                                           *)
SameFacts(x, y) == /\ y.iface = x.iface
                   /\ y.declared = x.declared
                   /\ y.uids = x.uids
SameTables(x, y) == /\ y.deps = x.deps /\ y.names = x.names
                    /\ y.targets = x.targets /\ y.uidRefs = x.uidRefs
-----------------------------------------------------------------------------
(* Types of what an index yields                                           *)

LEMMA NoneApart == None \notin Paths /\ None \notin Texts /\ None \notin Names
                   /\ None \notin Uids
BY IndexConstants DEF IndexConstants

LEMMA UnitFields ==
  ASSUME NEW t \in Texts
  PROVE  /\ Unit[t].sig \in Nat /\ Unit[t].declares \in Names \cup {None}
         /\ Unit[t].names \subseteq Names /\ Unit[t].body \subseteq Names
         /\ Unit[t].inits \subseteq Names
         /\ Unit[t].literals \subseteq Paths \cup Uids
         /\ Unit[t].preloads \subseteq Paths \cup Uids
<1>1. Unit[t] \in UnitType
  BY IndexConstants DEF IndexConstants
<1> QED
  BY <1>1 DEF UnitType

LEMMA SameSignature ==
  ASSUME NEW s \in Texts, NEW t \in Texts, Unit[s].sig = Unit[t].sig
  PROVE  /\ Unit[s].declares = Unit[t].declares
         /\ Unit[s].names = Unit[t].names /\ Unit[s].inits = Unit[t].inits
         /\ Unit[s].literals = Unit[t].literals
BY IndexConstants DEF IndexConstants

(* What a file exposes is among what it refers to.                         *)
LEMMA ExposedIsReferred ==
  ASSUME NEW x, NEW p
  PROVE  /\ ExposedOf(x, p) \subseteq LiteralsOf(x, p)
         /\ ShownNames(x, p) \subseteq NamesOf(x, p) \cup BodyOf(x, p)
         /\ NamesOf(x, p) \subseteq ShownNames(x, p)
BY DEF ExposedOf, LiteralsOf, ShownNames, NamesOf, BodyOf

LEMMA IndexFields ==
  ASSUME NEW x \in Index
  PROVE  /\ x.iface \in [Paths -> Texts \cup {None}]
         /\ x.declared \in [Paths -> Names \cup {None}]
         /\ x.deps \in Table(Paths) /\ x.names \in Table(Names)
         /\ x.targets \in Table(Paths) /\ x.uidRefs \in Table(Uids)
         /\ x.uids \in [Uids -> Paths \cup {None}]
         /\ x.dirty \subseteq Paths /\ x.epochs \in [Paths -> Nat]
BY DEF Index

LEMMA ReferenceTypes ==
  ASSUME NEW x \in Index, NEW p \in Paths
  PROVE  /\ NamesOf(x, p) \subseteq Names /\ BodyOf(x, p) \subseteq Names
         /\ LiteralsOf(x, p) \subseteq Paths \cup Uids
         /\ TargetsOf(x, p) \subseteq Paths
<1>1. x.iface[p] \in Texts \cup {None} /\ x.uids \in [Uids -> Paths \cup {None}]
  BY IndexFields
<1>2. LiteralsOf(x, p) \subseteq Paths \cup Uids
  BY <1>1, UnitFields DEF LiteralsOf
<1>3. NamesOf(x, p) \subseteq Names /\ BodyOf(x, p) \subseteq Names
  BY <1>1, UnitFields DEF NamesOf, BodyOf
<1>4. \A l \in LiteralsOf(x, p) : Deref(x, l) \in Paths \cup {None}
  BY <1>1, <1>2 DEF Deref
<1> QED
  BY <1>2, <1>3, <1>4 DEF TargetsOf

LEMMA OwnerDeclares ==
  ASSUME NEW x \in Index, NEW n \in Names
  PROVE  Owner(x, n) = None \/ (Owner(x, n) \in Paths /\ x.declared[Owner(x, n)] = n)
<1>1. CASE Winners(x, n) = {}
  BY <1>1 DEF Owner
<1>2. CASE Winners(x, n) # {}
  <2>1. Owner(x, n) \in Winners(x, n)
    BY <1>2 DEF Owner
  <2> QED
    BY <2>1 DEF Winners, Declarers
<1> QED
  BY <1>1, <1>2

(* Two indexes with the same facts compute the same edges.                 *)
LEMMA FactsDecide ==
  ASSUME NEW x, NEW y, SameFacts(x, y)
  PROVE  /\ Live(y) = Live(x)
         /\ \A n : Owner(y, n) = Owner(x, n) /\ Declarers(y, n) = Declarers(x, n)
         /\ \A l : Deref(y, l) = Deref(x, l) /\ Resolve(y, l) = Resolve(x, l)
         /\ \A p : /\ NamesOf(y, p) = NamesOf(x, p) /\ BodyOf(y, p) = BodyOf(x, p)
                   /\ LiteralsOf(y, p) = LiteralsOf(x, p)
<1>1. \A n : Declarers(y, n) = Declarers(x, n)
  BY DEF SameFacts, Declarers
<1>2. ASSUME NEW n PROVE Owner(y, n) = Owner(x, n)
  <2>1. Declarers(y, n) = Declarers(x, n)
    BY <1>1
  <2>2. Winners(y, n) = Winners(x, n)
    BY <2>1 DEF Winners
  <2> QED
    BY <2>2 DEF Owner
<1>3. \A l : Deref(y, l) = Deref(x, l)
  BY DEF SameFacts, Deref
<1>4. \A l : Resolve(y, l) = Resolve(x, l)
  BY <1>3 DEF SameFacts, Resolve
<1> QED
  BY <1>1, <1>2, <1>3, <1>4 DEF SameFacts, Live, NamesOf, BodyOf, LiteralsOf

LEMMA FactsDecideEdges ==
  ASSUME NEW x, NEW y, SameFacts(x, y), NEW p
  PROVE  Edges(y, p) = Edges(x, p) /\ TargetsOf(y, p) = TargetsOf(x, p)
<1>1. {Owner(y, n) : n \in NamesOf(y, p) \cup BodyOf(y, p)}
      = {Owner(x, n) : n \in NamesOf(x, p) \cup BodyOf(x, p)}
  BY FactsDecide
<1>2. {Resolve(y, l) : l \in LiteralsOf(y, p)} = {Resolve(x, l) : l \in LiteralsOf(x, p)}
  BY FactsDecide
<1>3. {Deref(y, l) : l \in LiteralsOf(y, p)} = {Deref(x, l) : l \in LiteralsOf(x, p)}
  BY FactsDecide
<1> QED
  BY <1>1, <1>2, <1>3 DEF Edges, TargetsOf

LEMMA DeadIsClean ==
  ASSUME NEW x, Sound(x), NEW p \in Paths \ Live(x)
  PROVE  /\ x.iface[p] = None /\ x.declared[p] = None
         /\ x.deps.of[p] = {} /\ x.deps.at[p] = {}
         /\ x.names.of[p] = {} /\ x.targets.of[p] = {} /\ x.uidRefs.of[p] = {}
BY DEF Sound, Verified, Live

(* An edge leads to another live file.                                     *)
LEMMA EdgesAreLive ==
  ASSUME NEW x, Sound(x), NEW p \in Paths
  PROVE  Edges(x, p) \subseteq Live(x) \ {p}
<1> USE DEF Sound
<1>1. ASSUME NEW n \in NamesOf(x, p) \cup BodyOf(x, p), Owner(x, n) # None
      PROVE  Owner(x, n) \in Live(x)
  <2>1. n \in Names
    BY ReferenceTypes
  <2>2. Owner(x, n) \in Paths /\ x.declared[Owner(x, n)] = n
    BY <1>1, <2>1, OwnerDeclares
  <2> QED
    BY <2>1, <2>2, NoneApart, DeadIsClean
<1>2. ASSUME NEW l \in LiteralsOf(x, p), Resolve(x, l) # None
      PROVE  Resolve(x, l) \in Live(x)
  <2>1. Deref(x, l) \in Paths \cup {None}
    BY ReferenceTypes, IndexFields DEF Deref
  <2> QED
    BY <1>2, <2>1 DEF Resolve, Live
<1> QED
  BY <1>1, <1>2 DEF Edges
-----------------------------------------------------------------------------
(* The steps an operation is made of                                       *)

(* Out is the table with the files of F pointing at new keys.              *)
Pointed(Keys, table, F, new, out) ==
  /\ out \in Table(Keys) /\ Mirrored(out)
  /\ \A p \in F : out.of[p] = new[p]
  /\ \A p \in Paths \ F : out.of[p] = table.of[p]

LEMMA PointMirrors ==
  ASSUME NEW Keys, NEW table \in Table(Keys), Mirrored(table),
         NEW F \in SUBSET Paths, NEW new \in [F -> SUBSET Keys]
  PROVE  Pointed(Keys, table, F, new, Point(table, F, new))
<1> DEFINE out == Point(table, F, new)
<1>1. table.of \in [Paths -> SUBSET Keys] /\ table.at \in [Keys -> SUBSET Paths]
  BY DEF Table
<1>2. \A p \in Paths, k \in Keys : k \in table.of[p] <=> p \in table.at[k]
  BY <1>1 DEF Mirrored
<1>3. /\ out.of = [p \in Paths |-> IF p \in F THEN new[p] ELSE table.of[p]]
      /\ out.at = [k \in Keys |-> {p \in table.at[k] : p \notin F \/ k \notin table.of[p]}
                                  \cup {p \in F : k \in new[p]}]
      /\ out = [of |-> out.of, at |-> out.at]
  BY <1>1 DEF Point
<1>4. \A p \in F : out.of[p] = new[p]
  BY <1>3
<1>5. \A p \in Paths \ F : out.of[p] = table.of[p]
  BY <1>3
<1>6. ASSUME NEW k \in Keys
      PROVE  out.at[k] = (table.at[k] \ F) \cup {p \in F : k \in new[p]}
  <2>1. out.at[k] = {p \in table.at[k] : p \notin F \/ k \notin table.of[p]}
                    \cup {p \in F : k \in new[p]}
    BY <1>3
  <2>2. {p \in table.at[k] : p \notin F \/ k \notin table.of[p]} = table.at[k] \ F
    BY <1>1, <1>2
  <2> QED
    BY <2>1, <2>2
<1>7. \A p \in Paths : out.of[p] \in SUBSET Keys
  BY <1>1, <1>4, <1>5
<1>8. \A k \in Keys : out.at[k] \in SUBSET Paths
  BY <1>1, <1>6
<1>9. out.of \in [Paths -> SUBSET Keys] /\ out.at \in [Keys -> SUBSET Paths]
  BY <1>3, <1>7, <1>8
<1>10. out \in Table(Keys)
  BY <1>3, <1>9 DEF Table
<1>11. ASSUME NEW p \in Paths, NEW k \in Keys
       PROVE  k \in out.of[p] <=> p \in out.at[k]
  <2>1. CASE p \in F
    BY <2>1, <1>4, <1>6
  <2>2. CASE p \notin F
    BY <2>2, <1>2, <1>5, <1>6
  <2> QED
    BY <2>1, <2>2
<1>12. Mirrored(out)
  BY <1>9, <1>11 DEF Mirrored
<1> QED
  BY <1>4, <1>5, <1>10, <1>12 DEF Pointed

(* Relinking live files keeps an index sound, links them, and changes      *)
(* nothing for the others.                                                 *)
LEMMA RelinkLinks ==
  ASSUME NEW x, Sound(x), NEW F \in SUBSET Live(x)
  PROVE  /\ Sound(Relink(x, F))
         /\ SameFacts(x, Relink(x, F))
         /\ Relink(x, F).dirty = x.dirty /\ Relink(x, F).epochs = x.epochs
         /\ \A p \in F : /\ Relink(x, F).deps.of[p] = Edges(x, p)
                         /\ Relink(x, F).names.of[p] = NamesOf(x, p)
                         /\ Relink(x, F).targets.of[p] = TargetsOf(x, p)
                         /\ Relink(x, F).uidRefs.of[p] = LiteralsOf(x, p) \cap Uids
         /\ \A p \in Paths \ F : /\ Relink(x, F).deps.of[p] = x.deps.of[p]
                                 /\ Relink(x, F).names.of[p] = x.names.of[p]
                                 /\ Relink(x, F).targets.of[p] = x.targets.of[p]
                                 /\ Relink(x, F).uidRefs.of[p] = x.uidRefs.of[p]
<1> DEFINE y == Relink(x, F)
           newDeps == [p \in F |-> Edges(x, p)]
           newNames == [p \in F |-> NamesOf(x, p)]
           newUids == [p \in F |-> LiteralsOf(x, p) \cap Uids]
           newTargets == [p \in F |-> TargetsOf(x, p)]
<1>1. x \in Index /\ Verified(x) /\ F \in SUBSET Paths
  BY DEF Sound, Live
<1>2. /\ newDeps \in [F -> SUBSET Paths] /\ newNames \in [F -> SUBSET Names]
      /\ newUids \in [F -> SUBSET Uids] /\ newTargets \in [F -> SUBSET Paths]
  BY <1>1, ReferenceTypes, EdgesAreLive DEF Live
<1>3. /\ x.deps \in Table(Paths) /\ x.names \in Table(Names)
      /\ x.targets \in Table(Paths) /\ x.uidRefs \in Table(Uids)
  BY <1>1, IndexFields
<1>4. /\ Mirrored(x.deps) /\ Mirrored(x.names) /\ Mirrored(x.targets) /\ Mirrored(x.uidRefs)
  BY <1>1 DEF Verified
<1>5. /\ y.deps = Point(x.deps, F, newDeps) /\ y.names = Point(x.names, F, newNames)
      /\ y.targets = Point(x.targets, F, newTargets)
      /\ y.uidRefs = Point(x.uidRefs, F, newUids)
      /\ y.iface = x.iface /\ y.declared = x.declared /\ y.uids = x.uids
      /\ y.dirty = x.dirty /\ y.epochs = x.epochs
  BY <1>1 DEF Relink, Index
<1> HIDE DEF newDeps, newNames, newUids, newTargets
<1>6. /\ y.deps \in Table(Paths) /\ Mirrored(y.deps)
      /\ \A p \in F : y.deps.of[p] = newDeps[p]
      /\ \A p \in Paths \ F : y.deps.of[p] = x.deps.of[p]
  <2>1. F \in SUBSET Paths /\ newDeps \in [F -> SUBSET Paths]
    BY <1>1, <1>2
  <2>2. x.deps \in Table(Paths) /\ Mirrored(x.deps)
    BY <1>3, <1>4
  <2>3. Pointed(Paths, x.deps, F, newDeps, Point(x.deps, F, newDeps))
    BY <2>1, <2>2, PointMirrors
  <2> QED
    BY <2>3, <1>5 DEF Pointed
<1>7. /\ y.names \in Table(Names) /\ Mirrored(y.names)
      /\ \A p \in F : y.names.of[p] = newNames[p]
      /\ \A p \in Paths \ F : y.names.of[p] = x.names.of[p]
  <2>1. F \in SUBSET Paths /\ newNames \in [F -> SUBSET Names]
    BY <1>1, <1>2
  <2>2. x.names \in Table(Names) /\ Mirrored(x.names)
    BY <1>3, <1>4
  <2>3. Pointed(Names, x.names, F, newNames, Point(x.names, F, newNames))
    BY <2>1, <2>2, PointMirrors
  <2> QED
    BY <2>3, <1>5 DEF Pointed
<1>8. /\ y.targets \in Table(Paths) /\ Mirrored(y.targets)
      /\ \A p \in F : y.targets.of[p] = newTargets[p]
      /\ \A p \in Paths \ F : y.targets.of[p] = x.targets.of[p]
  <2>1. F \in SUBSET Paths /\ newTargets \in [F -> SUBSET Paths]
    BY <1>1, <1>2
  <2>2. x.targets \in Table(Paths) /\ Mirrored(x.targets)
    BY <1>3, <1>4
  <2>3. Pointed(Paths, x.targets, F, newTargets, Point(x.targets, F, newTargets))
    BY <2>1, <2>2, PointMirrors
  <2> QED
    BY <2>3, <1>5 DEF Pointed
<1>9. /\ y.uidRefs \in Table(Uids) /\ Mirrored(y.uidRefs)
      /\ \A p \in F : y.uidRefs.of[p] = newUids[p]
      /\ \A p \in Paths \ F : y.uidRefs.of[p] = x.uidRefs.of[p]
  <2>1. F \in SUBSET Paths /\ newUids \in [F -> SUBSET Uids]
    BY <1>1, <1>2
  <2>2. x.uidRefs \in Table(Uids) /\ Mirrored(x.uidRefs)
    BY <1>3, <1>4
  <2>3. Pointed(Uids, x.uidRefs, F, newUids, Point(x.uidRefs, F, newUids))
    BY <2>1, <2>2, PointMirrors
  <2> QED
    BY <2>3, <1>5 DEF Pointed
<1>10. y \in Index
  <2>1. y = [x EXCEPT !.deps = y.deps, !.names = y.names, !.uidRefs = y.uidRefs,
                      !.targets = y.targets]
    BY <1>5 DEF Relink, newDeps, newNames, newUids, newTargets
  <2>2. [x EXCEPT !.deps = y.deps, !.names = y.names, !.uidRefs = y.uidRefs,
                  !.targets = y.targets] \in Index
    BY <1>1, <1>6, <1>7, <1>8, <1>9 DEF Index
  <2> QED
    BY <2>1, <2>2
<1>11. Live(y) = Live(x)
  BY <1>5 DEF Live
<1>12. ASSUME NEW p \in Paths \ Live(y)
       PROVE  /\ y.declared[p] = None
              /\ y.deps.of[p] = {} /\ y.deps.at[p] = {}
              /\ y.names.of[p] = {} /\ y.targets.of[p] = {} /\ y.uidRefs.of[p] = {}
  <2>1. p \in Paths \ F
    BY <1>11
  <2>2. \A q \in Paths : p \notin y.deps.of[q]
    <3>1. \A q \in F : p \notin newDeps[q]
      BY <1>1, <1>11, EdgesAreLive DEF newDeps
    <3>2. \A q \in Paths \ F : p \notin x.deps.of[q]
      BY <1>1, <1>3, <1>4, <1>11, DeadIsClean DEF Mirrored, Table
    <3> QED
      BY <3>1, <3>2, <1>6
  <2>3. x.deps.at[p] = {} /\ x.deps.of[p] = {} /\ x.names.of[p] = {} /\ x.targets.of[p] = {}
        /\ x.uidRefs.of[p] = {} /\ x.declared[p] = None
    BY <1>11, DeadIsClean
  <2>4. y.deps.at[p] = {}
    BY <2>2, <1>6 DEF Mirrored, Table
  <2> QED
    BY <2>1, <2>3, <2>4, <1>5, <1>6, <1>7, <1>8, <1>9
<1>13. y.dirty \subseteq Live(y)
  BY <1>1, <1>5, <1>11 DEF Verified
<1>14. Verified(y)
  BY <1>6, <1>7, <1>8, <1>9, <1>12, <1>13 DEF Verified
<1> QED
  BY <1>5, <1>6, <1>7, <1>8, <1>9, <1>10, <1>14
     DEF SameFacts, Sound, newDeps, newNames, newUids, newTargets

LEMMA MarkKeeps ==
  ASSUME NEW x, Sound(x), NEW F \in SUBSET Live(x)
  PROVE  /\ Sound(Mark(x, F))
         /\ SameFacts(x, Mark(x, F)) /\ SameTables(x, Mark(x, F))
         /\ \A p \in F : Mark(x, F).epochs[p] = x.epochs[p] + 1
         /\ \A p \in Paths \ F : Mark(x, F).epochs[p] = x.epochs[p]
         /\ Mark(x, F).dirty = x.dirty \cup F
<1> DEFINE y == Mark(x, F)
<1>1. x \in Index /\ Verified(x) /\ F \subseteq Paths
  BY DEF Sound, Live
<1>2. /\ y.iface = x.iface /\ y.declared = x.declared /\ y.uids = x.uids
      /\ y.deps = x.deps /\ y.names = x.names /\ y.targets = x.targets /\ y.uidRefs = x.uidRefs
      /\ y.dirty = x.dirty \cup F
      /\ y.epochs = [p \in Paths |-> IF p \in F THEN x.epochs[p] + 1 ELSE x.epochs[p]]
  BY <1>1 DEF Mark, Index
<1>3. y.epochs \in [Paths -> Nat]
  BY <1>1, <1>2, IndexFields
<1>4. y \in Index
  <2>1. x.dirty \cup F \in SUBSET Paths
    BY <1>1, IndexFields
  <2> QED
    BY <2>1, <1>1, <1>2, <1>3 DEF Mark, Index
<1>5. Verified(y)
  BY <1>1, <1>2 DEF Verified, Live
<1> QED
  BY <1>1, <1>2, <1>4, <1>5 DEF Sound, SameFacts, SameTables

LEMMA RelinkTables ==
  ASSUME NEW x, Sound(x), NEW F \in SUBSET Live(x), NEW G, TabledBut(x, G)
  PROVE  TabledBut(Relink(x, F), G \ F)
<1> DEFINE y == Relink(x, F)
<1>1. SameFacts(x, y)
  BY RelinkLinks
<1>2. ASSUME NEW p \in Live(y) \ (G \ F)
      PROVE  Tabled(y, p)
  <2>1. p \in Live(x) /\ p \in Paths
    BY <1>1, FactsDecide DEF Live
  <2>2. Edges(y, p) = Edges(x, p) /\ TargetsOf(y, p) = TargetsOf(x, p)
    BY <1>1, FactsDecideEdges
  <2>3. NamesOf(y, p) = NamesOf(x, p) /\ LiteralsOf(y, p) = LiteralsOf(x, p)
    BY <1>1, FactsDecide
  <2>4. CASE p \in F
    BY <2>2, <2>3, <2>4, RelinkLinks DEF Tabled
  <2>5. CASE p \notin F
    <3>1. Tabled(x, p)
      BY <2>1, <2>5 DEF TabledBut
    <3> QED
      BY <2>1, <2>2, <2>3, <2>5, <3>1, RelinkLinks DEF Tabled
  <2> QED
    BY <2>4, <2>5
<1> QED
  BY <1>2 DEF TabledBut

LEMMA TablesFollow ==
  ASSUME NEW x, NEW y, SameFacts(x, y), SameTables(x, y), NEW G, TabledBut(x, G)
  PROVE  TabledBut(y, G)
<1>1. ASSUME NEW p \in Live(y) \ G
      PROVE  Tabled(y, p)
  <2>1. Tabled(x, p)
    BY FactsDecide DEF TabledBut
  <2>2. Edges(y, p) = Edges(x, p) /\ TargetsOf(y, p) = TargetsOf(x, p)
    BY FactsDecideEdges
  <2>3. NamesOf(y, p) = NamesOf(x, p) /\ LiteralsOf(y, p) = LiteralsOf(x, p)
    BY FactsDecide
  <2> QED
    BY <2>1, <2>2, <2>3 DEF Tabled, SameTables
<1> QED
  BY <1>1 DEF TabledBut

(* The closure holds the files with an edge to p or to a file of it, all   *)
(* of them live.                                                           *)
LEMMA ClosureIsLive ==
  ASSUME NEW x, Sound(x), NEW p \in Paths
  PROVE  ReverseClosure(x, p) \subseteq Live(x) \ {p}
<1>1. \A r \in Paths : x.deps.at[r] \subseteq Live(x)
  <2> TAKE r \in Paths
  <2>1. x.deps \in Table(Paths) /\ Mirrored(x.deps)
    BY IndexFields DEF Sound, Verified
  <2>2. ASSUME NEW q \in x.deps.at[r]
        PROVE  q \in Live(x)
    <3>1. q \in Paths /\ r \in x.deps.of[q]
      BY <2>1, <2>2 DEF Table, Mirrored
    <3> QED
      BY <3>1, DeadIsClean
  <2> QED
    BY <2>2
<1>2. Live(x) \subseteq Paths
  BY DEF Live
<1> QED
  BY <1>1, <1>2 DEF ReverseClosure

LEMMA ClosureClosed ==
  ASSUME NEW x, NEW p \in Paths, NEW q \in Paths \ {p},
         q \in x.deps.at[p] \/ \E r \in ReverseClosure(x, p) : q \in x.deps.at[r]
  PROVE  q \in ReverseClosure(x, p)
<1> SUFFICES ASSUME NEW S \in SUBSET Paths, x.deps.at[p] \subseteq S,
                    \A r \in S : x.deps.at[r] \subseteq S
             PROVE  q \in S
  BY DEF ReverseClosure
<1>1. ReverseClosure(x, p) \subseteq S
  BY DEF ReverseClosure
<1> QED
  BY <1>1

LEMMA ReferencersAreLive ==
  ASSUME NEW x, Sound(x), NEW N \in SUBSET Names
  PROVE  Referencers(x, N) \subseteq Live(x)
<1>1. x.names \in Table(Names) /\ Mirrored(x.names)
  BY IndexFields DEF Sound, Verified
<1>2. ASSUME NEW n \in N, NEW q \in x.names.at[n]
      PROVE  q \in Live(x)
  <2>1. q \in Paths /\ n \in x.names.of[q]
    BY <1>1, <1>2 DEF Table, Mirrored
  <2> QED
    BY <2>1, DeadIsClean
<1>3. ASSUME NEW q \in Paths, BodyOf(x, q) # {}
      PROVE  q \in Live(x)
  BY <1>3 DEF BodyOf, Live
<1> DEFINE A == UNION {x.names.at[n] : n \in N}
           B == {p \in Paths : BodyOf(x, p) \cap N # {}}
<1>4. A \subseteq Live(x)
  BY <1>2
<1>5. B \subseteq Live(x)
  BY <1>3
<1>6. Referencers(x, N) = A \cup B
  BY DEF Referencers
<1> HIDE DEF A, B
<1> QED
  BY <1>4, <1>5, <1>6

(* relink_referencers relinks the referencers of N, and marks them and     *)
(* every file that reaches them.                                           *)
LEMMA RelinkNamesLinks ==
  ASSUME NEW x, Sound(x), NEW N \in SUBSET Names, NEW G, TabledBut(x, G)
  PROVE  /\ Sound(RelinkNames(x, N))
         /\ SameFacts(x, RelinkNames(x, N))
         /\ TabledBut(RelinkNames(x, N), G \ Referencers(x, N))
         /\ \A q \in Paths \ Referencers(x, N) : OfSame(x, RelinkNames(x, N), q)
         /\ Marked(x, RelinkNames(x, N), Referencers(x, N))
         /\ \A q \in Referencers(x, N) :
              Marked(x, RelinkNames(x, N), ReverseClosure(Relink(x, Referencers(x, N)), q))
<1> DEFINE F == Referencers(x, N)
           y == Relink(x, F)
           S == F \cup (UNION {ReverseClosure(y, p) : p \in F})
                  \cup (UNION {Declarers(y, n) : n \in N})
           z == RelinkNames(x, N)
<1>1. F \in SUBSET Live(x)
  BY ReferencersAreLive
<1>2. Sound(y) /\ SameFacts(x, y) /\ y.epochs = x.epochs
  BY <1>1, RelinkLinks
<1>3. TabledBut(y, G \ F)
  BY <1>1, RelinkTables
<1>4. \A p \in Paths : x.epochs[p] \in Nat
  BY IndexFields DEF Sound
<1>5. CASE N = {}
  <2>1. z = x
    BY <1>5 DEF RelinkNames
  <2>2. F = {}
    <3>1. {p \in Paths : BodyOf(x, p) \cap N # {}} = {}
      BY <1>5
    <3>2. UNION {x.names.at[n] : n \in N} = {}
      BY <1>5
    <3> QED
      BY <3>1, <3>2 DEF Referencers
  <2>3. SameFacts(x, x)
    BY DEF SameFacts
  <2> QED
    BY <1>4, <1>5, <2>1, <2>2, <2>3 DEF TabledBut, Marked, OfSame
<1>6. CASE N # {}
  <2>1. z = Mark(y, S)
    BY <1>6 DEF RelinkNames
  <2>2. S \in SUBSET Live(y)
    <3>1. Live(y) = Live(x)
      BY <1>2, FactsDecide
    <3>2. \A p \in F : ReverseClosure(y, p) \subseteq Live(y)
      BY <1>1, <1>2, ClosureIsLive DEF Live
    <3>3. \A n \in N : Declarers(y, n) \subseteq Live(y)
      BY <1>2, NoneApart, DeadIsClean DEF Declarers
    <3> DEFINE A == UNION {ReverseClosure(y, p) : p \in F}
               B == UNION {Declarers(y, n) : n \in N}
    <3>4. A \subseteq Live(y)
      BY <3>2
    <3>5. B \subseteq Live(y)
      BY <3>3
    <3>6. S = F \cup A \cup B
      OBVIOUS
    <3> HIDE DEF A, B, S, F
    <3> QED
      BY <1>1, <3>1, <3>4, <3>5, <3>6
  <2> HIDE DEF S
  <2>3. /\ Sound(z) /\ SameFacts(y, z) /\ SameTables(y, z)
        /\ \A p \in S : z.epochs[p] = y.epochs[p] + 1
        /\ \A p \in Paths \ S : z.epochs[p] = y.epochs[p]
    BY <1>2, <2>1, <2>2, MarkKeeps
  <2>4. TabledBut(z, G \ F)
    BY <1>3, <2>3, TablesFollow
  <2>5. SameFacts(x, z)
    BY <1>2, <2>3 DEF SameFacts
  <2>6. Marked(x, z, S)
    <3>1. S \subseteq Paths
      BY <2>2 DEF Live
    <3> QED
      BY <1>2, <1>4, <2>3, <3>1 DEF Marked
  <2>7. F \subseteq S /\ \A q \in F : ReverseClosure(y, q) \subseteq S
    BY DEF S
  <2>8. \A q \in Paths \ F : OfSame(x, z, q)
    BY <1>1, <2>3, RelinkLinks DEF OfSame, SameTables
  <2> QED
    BY <2>3, <2>4, <2>5, <2>6, <2>7, <2>8 DEF Marked
<1> QED
  BY <1>5, <1>6
-----------------------------------------------------------------------------
(* A file is changed                                                       *)

Own(x, p, t) == Mark(Relink(SetInterface(x, p, t), {p}), {p})
SameSig(x, p, t) == x.iface[p] # None /\ Unit[x.iface[p]].sig = Unit[t].sig
Spread(x, p, t) == IF SameSig(x, p, t) THEN Own(x, p, t)
                   ELSE Mark(Own(x, p, t), ReverseClosure(Own(x, p, t), p))
Renamed(x, p, t) == Moved(x, SetInterface(x, p, t))
Named(x, p, t) == RelinkNames(Spread(x, p, t), Renamed(x, p, t))

LEMMA ChangedInSteps ==
  ASSUME NEW x, NEW p, NEW t
  PROVE  OnFileChanged(x, p, t) =
           IF x.iface[p] = None THEN RelinkPath(Named(x, p, t), p) ELSE Named(x, p, t)
BY DEF OnFileChanged, Own, SameSig, Spread, Renamed, Named

LEMMA MarkedChain ==
  ASSUME NEW x, NEW y, NEW z, NEW S, NEW T,
         \A p \in Paths : x.epochs[p] \in Nat,
         S \subseteq Paths, T \subseteq Paths, Marked(x, y, S), Marked(y, z, T)
  PROVE  Marked(x, z, S) /\ Marked(x, z, T)
BY DEF Marked

LEMMA MarkMarks ==
  ASSUME NEW x, Sound(x), NEW F \in SUBSET Live(x)
  PROVE  Marked(x, Mark(x, F), F)
<1>1. \A p \in Paths : x.epochs[p] \in Nat
  BY IndexFields DEF Sound
<1>2. F \subseteq Paths
  BY DEF Live
<1> QED
  BY <1>1, <1>2, MarkKeeps DEF Marked

(* Edges are the same when what they are computed from is.                 *)
LEMMA EdgesAgree ==
  ASSUME NEW x, NEW y, NEW q,
         NamesOf(y, q) = NamesOf(x, q), BodyOf(y, q) = BodyOf(x, q),
         LiteralsOf(y, q) = LiteralsOf(x, q),
         \A n \in NamesOf(x, q) \cup BodyOf(x, q) : Owner(y, n) = Owner(x, n),
         \A l \in LiteralsOf(x, q) : Resolve(y, l) = Resolve(x, l)
  PROVE  Edges(y, q) = Edges(x, q)
<1>1. {Owner(y, n) : n \in NamesOf(y, q) \cup BodyOf(y, q)}
      = {Owner(x, n) : n \in NamesOf(x, q) \cup BodyOf(x, q)}
  OBVIOUS
<1>2. {Resolve(y, l) : l \in LiteralsOf(y, q)} = {Resolve(x, l) : l \in LiteralsOf(x, q)}
  OBVIOUS
<1> QED
  BY <1>1, <1>2 DEF Edges

LEMMA TargetsAgree ==
  ASSUME NEW x, NEW y, NEW q, LiteralsOf(y, q) = LiteralsOf(x, q),
         \A l \in LiteralsOf(x, q) : Deref(y, l) = Deref(x, l)
  PROVE  TargetsOf(y, q) = TargetsOf(x, q)
<1>1. {Deref(y, l) : l \in LiteralsOf(y, q)} = {Deref(x, l) : l \in LiteralsOf(x, q)}
  OBVIOUS
<1> QED
  BY <1>1 DEF TargetsOf

InterfaceSet(x, p, t, y) ==
  /\ Sound(y) /\ SameTables(x, y) /\ y.uids = x.uids /\ y.epochs = x.epochs
  /\ y.iface = [x.iface EXCEPT ![p] = t]
  /\ y.declared = [x.declared EXCEPT ![p] = Unit[t].declares]
  /\ Live(y) = Live(x) \cup {p}

LEMMA SetInterfaceKeeps ==
  ASSUME NEW x, Sound(x), NEW p \in Paths, NEW t \in Texts
  PROVE  InterfaceSet(x, p, t, SetInterface(x, p, t))
<1> DEFINE set == SetInterface(x, p, t)
<1>1. x \in Index /\ Verified(x)
  BY DEF Sound
<1>2. Unit[t].declares \in Names \cup {None}
  BY UnitFields
<1>3. /\ set.iface = [x.iface EXCEPT ![p] = t]
      /\ set.declared = [x.declared EXCEPT ![p] = Unit[t].declares]
      /\ set.deps = x.deps /\ set.names = x.names /\ set.targets = x.targets
      /\ set.uidRefs = x.uidRefs /\ set.uids = x.uids
      /\ set.dirty = x.dirty /\ set.epochs = x.epochs
  <2>1. set = [x EXCEPT !.iface = [x.iface EXCEPT ![p] = t],
                        !.declared = [x.declared EXCEPT ![p] = Unit[t].declares]]
    BY DEF SetInterface
  <2> HIDE DEF set
  <2> DEFINE i == [x.iface EXCEPT ![p] = t]
             d == [x.declared EXCEPT ![p] = Unit[t].declares]
  <2>2. set = [x EXCEPT !.iface = i, !.declared = d]
    BY <2>1
  <2> HIDE DEF i, d
  <2>3. /\ set.iface = i /\ set.declared = d
        /\ set.deps = x.deps /\ set.names = x.names /\ set.targets = x.targets
        /\ set.uidRefs = x.uidRefs /\ set.uids = x.uids
        /\ set.dirty = x.dirty /\ set.epochs = x.epochs
    BY <1>1, <2>2 DEF Index
  <2> QED
    BY <2>3 DEF i, d
<1>4. set \in Index
  BY <1>1, <1>2 DEF SetInterface, Index
<1>5. Live(set) = Live(x) \cup {p}
  BY <1>1, <1>3, IndexFields, NoneApart DEF Live
<1>6. Verified(set)
  <2>1. ASSUME NEW q \in Paths \ Live(set)
        PROVE  /\ set.declared[q] = None
               /\ set.deps.of[q] = {} /\ set.deps.at[q] = {}
               /\ set.names.of[q] = {} /\ set.targets.of[q] = {} /\ set.uidRefs.of[q] = {}
    <3>1. q # p /\ q \in Paths \ Live(x)
      BY <1>5
    <3> QED
      BY <3>1, <1>1, <1>3, DeadIsClean, IndexFields
  <2> QED
    BY <1>1, <1>3, <1>5, <2>1 DEF Verified
<1> QED
  BY <1>3, <1>4, <1>5, <1>6 DEF Sound, SameTables, InterfaceSet

(* A file whose references neither moved nor came to life keeps its        *)
(* tables, and its edges, when p is given another text.                    *)
LEMMA SetInterfaceFrame ==
  ASSUME NEW x, Sound(x), TabledBut(x, {}), NEW p \in Paths, NEW t \in Texts,
         NEW q \in Live(x) \ {p},
         q \notin Referencers(SetInterface(x, p, t), Renamed(x, p, t)),
         x.iface[p] = None => p \notin TargetsOf(x, q)
  PROVE  /\ Edges(SetInterface(x, p, t), q) = Edges(x, q)
         /\ Tabled(SetInterface(x, p, t), q)
<1> DEFINE set == SetInterface(x, p, t)
           N == Renamed(x, p, t)
<1>1. x \in Index /\ q \in Paths /\ q # p /\ Tabled(x, q)
  BY DEF Sound, Live, TabledBut
<1>2. /\ set.iface = [x.iface EXCEPT ![p] = t] /\ set.uids = x.uids /\ SameTables(x, set)
  <2>1. InterfaceSet(x, p, t, set)
    BY SetInterfaceKeeps
  <2> QED
    BY <2>1 DEF InterfaceSet
<1>3. set.iface[q] = x.iface[q] /\ set.iface[p] = t
  BY <1>1, <1>2, IndexFields
<1>4. /\ NamesOf(set, q) = NamesOf(x, q) /\ BodyOf(set, q) = BodyOf(x, q)
      /\ LiteralsOf(set, q) = LiteralsOf(x, q)
  BY <1>3 DEF NamesOf, BodyOf, LiteralsOf
<1>5. \A l : Deref(set, l) = Deref(x, l)
  BY <1>2 DEF Deref
<1>6. ASSUME NEW n \in NamesOf(x, q) \cup BodyOf(x, q)
      PROVE  Owner(set, n) = Owner(x, n)
  <2>1. n \in Names
    BY <1>1, ReferenceTypes
  <2> SUFFICES ASSUME n \in N PROVE FALSE
    BY <2>1 DEF Renamed, Moved
  <2>2. CASE n \in NamesOf(x, q)
    <3>1. q \in set.names.at[n]
      <4>1. x.names \in Table(Names) /\ Mirrored(x.names)
        BY <1>1, IndexFields DEF Sound, Verified
      <4> QED
        BY <1>1, <1>2, <2>1, <2>2, <4>1 DEF Tabled, Mirrored, Table, SameTables
    <3> QED
      BY <3>1 DEF Referencers
  <2>3. CASE n \in BodyOf(x, q)
    <3>1. BodyOf(set, q) \cap N # {}
      BY <1>4, <2>3
    <3> QED
      BY <1>1, <3>1 DEF Referencers
  <2> QED
    BY <2>2, <2>3
<1>7. ASSUME NEW l \in LiteralsOf(x, q)
      PROVE  Resolve(set, l) = Resolve(x, l)
  <2>1. Deref(x, l) \in Paths \cup {None}
    BY <1>1, ReferenceTypes, IndexFields DEF Deref
  <2>2. CASE Deref(x, l) = p
    <3>1. x.iface[p] # None
      BY <2>2, NoneApart DEF TargetsOf
    <3> QED
      BY <1>3, <1>5, <2>2, <3>1, NoneApart DEF Resolve
  <2>3. CASE Deref(x, l) = None
    BY <1>5, <2>3 DEF Resolve
  <2>4. CASE Deref(x, l) \in Paths \ {p}
    <3>1. set.iface[Deref(x, l)] = x.iface[Deref(x, l)]
      BY <1>1, <1>2, <2>4, IndexFields
    <3> QED
      BY <1>5, <3>1 DEF Resolve
  <2> QED
    BY <2>1, <2>2, <2>3, <2>4
<1>8. Edges(set, q) = Edges(x, q)
  BY <1>4, <1>6, <1>7, EdgesAgree
<1>9. TargetsOf(set, q) = TargetsOf(x, q)
  BY <1>4, <1>5, TargetsAgree
<1> QED
  BY <1>1, <1>2, <1>4, <1>8, <1>9 DEF Tabled, SameTables

LEMMA SameFactsFollow ==
  ASSUME NEW x, NEW y, SameFacts(x, y), AllDeclared(x)
  PROVE  AllDeclared(y)
BY FactsDecide DEF AllDeclared, SameFacts

LEMMA TabledLess ==
  ASSUME NEW x, NEW G, NEW H, TabledBut(x, G), G \subseteq H
  PROVE  TabledBut(x, H)
BY DEF TabledBut

(* The files whose tables are out of date once p has its new text: those   *)
(* that refer to a name it moved, and those that waited for it to appear.  *)
Waiting(x, p) == IF x.iface[p] = None THEN {q \in Live(x) : p \in TargetsOf(x, q)} ELSE {}
Outdated(x, p, t) == Referencers(SetInterface(x, p, t), Renamed(x, p, t)) \cup Waiting(x, p)

Good(x) == Sound(x) /\ AllDeclared(x) /\ TabledBut(x, {})

(* The file itself is relinked and marked.                                 *)
Owned(x, p, t, y) ==
  /\ Sound(y) /\ SameFacts(SetInterface(x, p, t), y)
  /\ TabledBut(y, Outdated(x, p, t) \ {p})
  /\ \A q \in Paths \ {p} : OfSame(x, y, q)
  /\ Marked(x, y, {p})

LEMMA OwnKeeps ==
  ASSUME NEW x, Good(x), NEW p \in Paths, NEW t \in Texts
  PROVE  Owned(x, p, t, Own(x, p, t))
<1> DEFINE set == SetInterface(x, p, t)
           linked == Relink(set, {p})
           own == Own(x, p, t)
           G == Outdated(x, p, t)
<1>1. Sound(x) /\ TabledBut(x, {})
  BY DEF Good
<1>2. InterfaceSet(x, p, t, set)
  BY <1>1, SetInterfaceKeeps
<1>3. TabledBut(set, G \cup {p})
  <2>1. ASSUME NEW q \in Live(set) \ (G \cup {p})
        PROVE  Tabled(set, q)
    <3>1. q \in Live(x) \ {p}
      BY <1>2 DEF InterfaceSet
    <3>2. q \notin Referencers(set, Renamed(x, p, t))
      BY DEF Outdated
    <3>3. x.iface[p] = None => p \notin TargetsOf(x, q)
      BY <3>1 DEF Outdated, Waiting
    <3> QED
      BY <1>1, <3>1, <3>2, <3>3, SetInterfaceFrame
  <2> QED
    BY <2>1 DEF TabledBut
<1>4. Sound(set) /\ {p} \in SUBSET Live(set) /\ SameTables(x, set) /\ set.epochs = x.epochs
  BY <1>2 DEF InterfaceSet
<1>5. /\ Sound(linked) /\ SameFacts(set, linked) /\ linked.epochs = set.epochs
      /\ \A q \in Paths \ {p} : OfSame(set, linked, q)
  BY <1>4, RelinkLinks DEF OfSame
<1>6. TabledBut(linked, G \ {p})
  <2>1. TabledBut(linked, (G \cup {p}) \ {p})
    BY <1>3, <1>4, RelinkTables
  <2> QED
    BY <2>1 DEF TabledBut
<1>7. own = Mark(linked, {p}) /\ {p} \in SUBSET Live(linked)
  BY <1>4, <1>5, FactsDecide DEF Own
<1>8. Sound(own) /\ SameFacts(linked, own) /\ SameTables(linked, own)
  BY <1>5, <1>7, MarkKeeps
<1>9. TabledBut(own, G \ {p})
  BY <1>6, <1>8, TablesFollow
<1>10. Marked(linked, own, {p})
  BY <1>5, <1>7, MarkMarks
<1>11. Marked(x, own, {p})
  BY <1>4, <1>5, <1>10 DEF Marked
<1>12. SameFacts(set, own)
  BY <1>5, <1>8 DEF SameFacts
<1>13. \A q \in Paths \ {p} : OfSame(x, own, q)
  BY <1>4, <1>5, <1>8 DEF OfSame, SameTables
<1> QED
  BY <1>8, <1>9, <1>11, <1>12, <1>13 DEF Owned

LEMMA SpreadKeeps ==
  ASSUME NEW x, Good(x), NEW p \in Paths, NEW t \in Texts
  PROVE  /\ Owned(x, p, t, Spread(x, p, t))
         /\ ~ SameSig(x, p, t) =>
               Marked(x, Spread(x, p, t), ReverseClosure(Own(x, p, t), p))
<1> DEFINE own == Own(x, p, t)
           C == ReverseClosure(own, p)
           spread == Spread(x, p, t)
<1>1. Owned(x, p, t, own)
  BY OwnKeeps
<1>2. CASE SameSig(x, p, t)
  BY <1>1, <1>2 DEF Spread
<1>3. CASE ~ SameSig(x, p, t)
  <2>1. spread = Mark(own, C)
    BY <1>3 DEF Spread
  <2>2. Sound(own)
    BY <1>1 DEF Owned
  <2>3. C \in SUBSET Live(own) /\ C \subseteq Paths /\ {p} \subseteq Paths
    BY <2>2, ClosureIsLive DEF Live
  <2>4. Sound(spread) /\ SameFacts(own, spread) /\ SameTables(own, spread)
    BY <2>1, <2>2, <2>3, MarkKeeps
  <2>5. Marked(own, spread, C)
    BY <2>1, <2>2, <2>3, MarkMarks
  <2>6. \A q \in Paths : x.epochs[q] \in Nat
    BY IndexFields DEF Good, Sound
  <2>7. Marked(x, spread, {p}) /\ Marked(x, spread, C)
    BY <1>1, <2>3, <2>5, <2>6, MarkedChain DEF Owned
  <2>8. TabledBut(spread, Outdated(x, p, t) \ {p})
    BY <1>1, <2>4, TablesFollow DEF Owned
  <2>9. SameFacts(SetInterface(x, p, t), spread)
    BY <1>1, <2>4 DEF Owned, SameFacts
  <2>10. \A q \in Paths \ {p} : OfSame(x, spread, q)
    BY <1>1, <2>4 DEF Owned, OfSame, SameTables
  <2> QED
    BY <2>4, <2>7, <2>8, <2>9, <2>10 DEF Owned
<1> QED
  BY <1>2, <1>3

(* The names it moved are settled: what remains waits for p to appear.     *)
Settles(x, p, t, y) ==
  /\ Sound(y) /\ SameFacts(SetInterface(x, p, t), y)
  /\ TabledBut(y, {q \in Waiting(x, p) \ {p} : p \in y.targets.of[q]})
  /\ Marked(x, y, {p})

LEMMA RenamedIsNames ==
  ASSUME NEW x, NEW p, NEW t
  PROVE  Renamed(x, p, t) \in SUBSET Names
BY DEF Renamed, Moved

(* A referencer in the old tables is one in tables that changed p only.    *)
LEMMA ReferencersCarry ==
  ASSUME NEW x, NEW set, NEW y, NEW p \in Paths, NEW N \in SUBSET Names,
         Sound(set), Sound(y), SameFacts(set, y), SameTables(x, set),
         \A q \in Paths \ {p} : OfSame(x, y, q)
  PROVE  Referencers(set, N) \ {p} \subseteq Referencers(y, N)
<1>1. /\ set.names \in Table(Names) /\ Mirrored(set.names)
      /\ y.names \in Table(Names) /\ Mirrored(y.names)
  BY IndexFields DEF Sound, Verified
<1>2. ASSUME NEW n \in N, NEW q \in set.names.at[n], q # p
      PROVE  q \in Referencers(y, N)
  <2>1. q \in Paths /\ n \in set.names.of[q]
    BY <1>1, <1>2 DEF Table, Mirrored
  <2>2. n \in y.names.of[q]
    BY <1>2, <2>1 DEF OfSame, SameTables
  <2>3. q \in y.names.at[n]
    BY <1>1, <2>1, <2>2 DEF Table, Mirrored
  <2> QED
    BY <2>3 DEF Referencers
<1>3. ASSUME NEW q \in Paths, BodyOf(set, q) \cap N # {}
      PROVE  q \in Referencers(y, N)
  <2>1. BodyOf(y, q) = BodyOf(set, q)
    BY FactsDecide
  <2> QED
    BY <1>3, <2>1 DEF Referencers
<1> QED
  BY <1>2, <1>3 DEF Referencers

LEMMA NamedKeeps ==
  ASSUME NEW x, Good(x), NEW p \in Paths, NEW t \in Texts
  PROVE  Settles(x, p, t, Named(x, p, t))
<1> DEFINE set == SetInterface(x, p, t)
           spread == Spread(x, p, t)
           N == Renamed(x, p, t)
           F == Referencers(spread, N)
           named == Named(x, p, t)
           W == Waiting(x, p)
<1>1. Owned(x, p, t, spread)
  BY SpreadKeeps
<1>2. Sound(spread) /\ N \in SUBSET Names /\ named = RelinkNames(spread, N)
  BY <1>1, RenamedIsNames DEF Owned, Named
<1>3. TabledBut(spread, Outdated(x, p, t) \ {p})
  BY <1>1 DEF Owned
<1>4. /\ Sound(named) /\ SameFacts(spread, named)
      /\ TabledBut(named, (Outdated(x, p, t) \ {p}) \ F)
      /\ \A q \in Paths \ F : OfSame(spread, named, q)
      /\ Marked(spread, named, F)
  BY <1>2, <1>3, RelinkNamesLinks
<1>5. SameFacts(set, named)
  BY <1>1, <1>4 DEF Owned, SameFacts
<1>6. F \subseteq Paths /\ {p} \subseteq Paths
  BY <1>2, ReferencersAreLive DEF Live
<1>7. \A q \in Paths : x.epochs[q] \in Nat
  BY IndexFields DEF Good, Sound
<1>8. Marked(x, named, {p})
  BY <1>1, <1>4, <1>6, <1>7, MarkedChain DEF Owned
<1>9. InterfaceSet(x, p, t, set)
  BY SetInterfaceKeeps DEF Good
<1>10. Referencers(set, N) \ {p} \subseteq F
  <2>1. Sound(set) /\ SameTables(x, set)
    BY <1>9 DEF InterfaceSet
  <2>2. SameFacts(set, spread) /\ \A q \in Paths \ {p} : OfSame(x, spread, q)
    BY <1>1 DEF Owned
  <2> QED
    BY <1>2, <2>1, <2>2, ReferencersCarry
<1>11. ASSUME NEW q \in (Outdated(x, p, t) \ {p}) \ F
       PROVE  q \in W \ {p} /\ p \in named.targets.of[q]
  <2>1. q \in W \ {p}
    BY <1>10, <1>11 DEF Outdated
  <2>2. q \in Live(x) /\ p \in TargetsOf(x, q) /\ q \in Paths
    BY <2>1 DEF Waiting, Live
  <2>3. p \in x.targets.of[q]
    BY <2>2 DEF Good, TabledBut, Tabled
  <2>4. OfSame(x, spread, q) /\ OfSame(spread, named, q)
    BY <1>1, <1>4, <1>11, <2>1, <2>2 DEF Owned
  <2> QED
    BY <2>1, <2>3, <2>4 DEF OfSame
<1>12. TabledBut(named, {q \in W \ {p} : p \in named.targets.of[q]})
  BY <1>4, <1>11, TabledLess
<1> QED
  BY <1>4, <1>5, <1>8, <1>12 DEF Settles

LEMMA RelinkPathKeeps ==
  ASSUME NEW x, Sound(x), NEW p \in Paths, NEW G, TabledBut(x, G),
         \A q \in G : q \in Paths /\ p \in x.targets.of[q]
  PROVE  /\ Sound(RelinkPath(x, p)) /\ SameFacts(x, RelinkPath(x, p))
         /\ TabledBut(RelinkPath(x, p), {})
         /\ Marked(x, RelinkPath(x, p), x.targets.at[p])
<1> DEFINE A == x.targets.at[p]
           y == Relink(x, A)
           z == RelinkPath(x, p)
<1>1. x.targets \in Table(Paths) /\ Mirrored(x.targets)
  BY IndexFields DEF Sound, Verified
<1>2. A \in SUBSET Live(x)
  <2>1. ASSUME NEW q \in A PROVE q \in Live(x)
    <3>1. q \in Paths /\ p \in x.targets.of[q]
      BY <1>1, <2>1 DEF Table, Mirrored
    <3> QED
      BY <3>1, DeadIsClean
  <2> QED
    BY <2>1
<1>3. G \subseteq A
  BY <1>1 DEF Table, Mirrored
<1>4. Sound(y) /\ SameFacts(x, y) /\ y.epochs = x.epochs
  BY <1>2, RelinkLinks
<1>5. TabledBut(y, {})
  <2>1. TabledBut(y, G \ A)
    BY <1>2, RelinkTables
  <2> QED
    BY <1>3, <2>1 DEF TabledBut
<1>6. z = Mark(y, A) /\ A \in SUBSET Live(y)
  BY <1>2, <1>4, FactsDecide DEF RelinkPath
<1>7. Sound(z) /\ SameFacts(y, z) /\ SameTables(y, z)
  BY <1>4, <1>6, MarkKeeps
<1>8. Marked(y, z, A)
  BY <1>4, <1>6, MarkMarks
<1> QED
  BY <1>4, <1>5, <1>7, <1>8, TablesFollow DEF SameFacts, Marked

LEMMA SetDeclares ==
  ASSUME NEW x, Good(x), NEW p \in Paths, NEW t \in Texts
  PROVE  AllDeclared(SetInterface(x, p, t))
<1> DEFINE set == SetInterface(x, p, t)
<1>1. InterfaceSet(x, p, t, set)
  BY SetInterfaceKeeps DEF Good
<1>2. x.iface \in [Paths -> Texts \cup {None}] /\ x.declared \in [Paths -> Names \cup {None}]
  BY IndexFields DEF Good, Sound
<1>3. ASSUME NEW q \in Live(set)
      PROVE  set.declared[q] = Unit[set.iface[q]].declares
  <2>1. q \in Paths
    BY DEF Live
  <2>2. CASE q = p
    BY <1>1, <1>2, <2>2 DEF InterfaceSet
  <2>3. CASE q # p
    <3>1. q \in Live(x) /\ set.iface[q] = x.iface[q] /\ set.declared[q] = x.declared[q]
      BY <1>1, <1>2, <2>1, <2>3 DEF InterfaceSet
    <3> QED
      BY <3>1 DEF Good, AllDeclared
  <2> QED
    BY <2>2, <2>3
<1> QED
  BY <1>3 DEF AllDeclared

(* on_file_changed leaves the index good, p with its text, and p marked.   *)
LEMMA ChangedKeeps ==
  ASSUME NEW x, Good(x), NEW p \in Paths, NEW t \in Texts
  PROVE  /\ Good(OnFileChanged(x, p, t))
         /\ SameFacts(SetInterface(x, p, t), OnFileChanged(x, p, t))
         /\ Marked(x, OnFileChanged(x, p, t), {p})
<1> DEFINE set == SetInterface(x, p, t)
           named == Named(x, p, t)
           z == OnFileChanged(x, p, t)
           G == {q \in Waiting(x, p) \ {p} : p \in named.targets.of[q]}
<1>1. Settles(x, p, t, named)
  BY NamedKeeps
<1>2. Sound(named) /\ SameFacts(set, named) /\ TabledBut(named, G) /\ Marked(x, named, {p})
  BY <1>1 DEF Settles
<1>3. AllDeclared(set)
  BY SetDeclares
<1>4. /\ Sound(z) /\ SameFacts(set, z) /\ TabledBut(z, {}) /\ Marked(x, z, {p})
  <2>1. CASE x.iface[p] = None
    <3>1. z = RelinkPath(named, p)
      BY <2>1, ChangedInSteps
    <3>2. \A q \in G : q \in Paths /\ p \in named.targets.of[q]
      BY DEF Waiting, Live
    <3>3. /\ Sound(z) /\ SameFacts(named, z) /\ TabledBut(z, {})
          /\ Marked(named, z, named.targets.at[p])
      BY <1>2, <3>1, <3>2, RelinkPathKeeps
    <3>4. \A q \in Paths : x.epochs[q] \in Nat
      BY IndexFields DEF Good, Sound
    <3>5. Marked(x, z, {p})
      BY <1>2, <3>3, <3>4 DEF Marked
    <3> QED
      BY <1>2, <3>3, <3>5 DEF SameFacts
  <2>2. CASE x.iface[p] # None
    <3>1. z = named
      BY <2>2, ChangedInSteps
    <3>2. G = {}
      BY <2>2 DEF Waiting
    <3> QED
      BY <1>2, <3>1, <3>2
  <2> QED
    BY <2>1, <2>2
<1> QED
  BY <1>3, <1>4, SameFactsFollow DEF Good
-----------------------------------------------------------------------------
(* A file is removed                                                       *)

Undeclared(x, p) == [x EXCEPT !.declared[p] = None]
Unmarked(x, p) == Mark(Undeclared(x, p), ReverseClosure(x, p))

LEMMA RemovedInSteps ==
  ASSUME NEW x, NEW p
  PROVE  OnFileRemoved(x, p)
           = RelinkNames(Detach(Unmarked(x, p), p), Moved(x, Undeclared(x, p)))
BY DEF OnFileRemoved, Undeclared, Unmarked

LEMMA UndeclaredIsSound ==
  ASSUME NEW x, Sound(x), NEW p \in Paths
  PROVE  /\ Sound(Undeclared(x, p)) /\ SameTables(x, Undeclared(x, p))
         /\ Undeclared(x, p).declared = [x.declared EXCEPT ![p] = None]
         /\ Undeclared(x, p).iface = x.iface /\ Undeclared(x, p).uids = x.uids
         /\ Undeclared(x, p).epochs = x.epochs
<1> DEFINE y == Undeclared(x, p)
           d == [x.declared EXCEPT ![p] = None]
<1>1. x \in Index /\ Verified(x)
  BY DEF Sound
<1>2. y = [x EXCEPT !.declared = d]
  BY DEF Undeclared
<1>3. d \in [Paths -> Names \cup {None}]
  BY <1>1, IndexFields
<1> HIDE DEF y, d
<1>4. /\ y.declared = d /\ y.iface = x.iface /\ y.uids = x.uids /\ y.epochs = x.epochs
      /\ y.deps = x.deps /\ y.names = x.names /\ y.targets = x.targets
      /\ y.uidRefs = x.uidRefs /\ y.dirty = x.dirty
  BY <1>1, <1>2 DEF Index
<1>5. y \in Index
  BY <1>1, <1>2, <1>3 DEF Index
<1>6. Live(y) = Live(x)
  BY <1>4 DEF Live
<1>7. \A q \in Paths : x.declared[q] = None => y.declared[q] = None
  BY <1>1, <1>4, IndexFields DEF d
<1>8. Verified(y)
  BY <1>1, <1>4, <1>6, <1>7 DEF Verified
<1> QED
  BY <1>4, <1>5, <1>8 DEF Sound, SameTables, y, d

(* Detached: p is gone from every file's references to files, and refers   *)
(* to nothing itself.                                                      *)
Detached(x, p, y) ==
  /\ Sound(y) /\ y.declared = x.declared /\ y.uids = x.uids /\ y.epochs = x.epochs
  /\ y.iface = [x.iface EXCEPT ![p] = None]
  /\ Live(y) = Live(x) \ {p}
  /\ \A q \in Paths \ {p} : /\ y.deps.of[q] = x.deps.of[q] \ {p}
                            /\ y.names.of[q] = x.names.of[q]
                            /\ y.targets.of[q] = x.targets.of[q]
                            /\ y.uidRefs.of[q] = x.uidRefs.of[q]

LEMMA DetachKeeps ==
  ASSUME NEW x, Sound(x), NEW p \in Paths, x.declared[p] = None
  PROVE  Detached(x, p, Detach(x, p))
<1> DEFINE none == [f \in {p} |-> {}]
           out == Point(x.deps, {p}, none)
           deps == [of |-> [f \in Paths |-> out.of[f] \ {p}],
                    at |-> [out.at EXCEPT ![p] = {}]]
           names == Point(x.names, {p}, none)
           targets == Point(x.targets, {p}, none)
           uidRefs == Point(x.uidRefs, {p}, none)
           iface == [x.iface EXCEPT ![p] = None]
           dirty == x.dirty \ {p}
           y == Detach(x, p)
<1>1. x \in Index /\ Verified(x)
  BY DEF Sound
<1>2. y = [x EXCEPT !.iface = iface, !.deps = deps, !.names = names, !.targets = targets,
                    !.uidRefs = uidRefs, !.dirty = dirty]
  BY DEF Detach
<1>3. /\ x.deps \in Table(Paths) /\ x.names \in Table(Names)
      /\ x.targets \in Table(Paths) /\ x.uidRefs \in Table(Uids)
      /\ x.iface \in [Paths -> Texts \cup {None}] /\ x.dirty \subseteq Paths
  BY <1>1, IndexFields
<1>4. /\ Mirrored(x.deps) /\ Mirrored(x.names) /\ Mirrored(x.targets) /\ Mirrored(x.uidRefs)
      /\ x.dirty \subseteq Live(x)
  BY <1>1 DEF Verified
<1>5. /\ none \in [{p} -> SUBSET Paths] /\ none \in [{p} -> SUBSET Names]
      /\ none \in [{p} -> SUBSET Uids] /\ {p} \in SUBSET Paths /\ none[p] = {}
  OBVIOUS
<1> HIDE DEF none
<1>6. Pointed(Paths, x.deps, {p}, none, out)
  BY <1>3, <1>4, <1>5, PointMirrors
<1>7. Pointed(Names, x.names, {p}, none, names)
  BY <1>3, <1>4, <1>5, PointMirrors
<1>8. Pointed(Paths, x.targets, {p}, none, targets)
  BY <1>3, <1>4, <1>5, PointMirrors
<1>9. Pointed(Uids, x.uidRefs, {p}, none, uidRefs)
  BY <1>3, <1>4, <1>5, PointMirrors
<1> HIDE DEF out, names, targets, uidRefs
<1>10. /\ out.of \in [Paths -> SUBSET Paths] /\ out.at \in [Paths -> SUBSET Paths]
       /\ \A f, g \in Paths : g \in out.of[f] <=> f \in out.at[g]
       /\ out.of[p] = {} /\ \A f \in Paths \ {p} : out.of[f] = x.deps.of[f]
  BY <1>5, <1>6 DEF Pointed, Table, Mirrored
<1>11. /\ deps.of = [f \in Paths |-> out.of[f] \ {p}] /\ deps.at = [out.at EXCEPT ![p] = {}]
       /\ deps = [of |-> deps.of, at |-> deps.at]
  OBVIOUS
<1> HIDE DEF deps
<1>12. deps.of \in [Paths -> SUBSET Paths] /\ deps.at \in [Paths -> SUBSET Paths]
  BY <1>10, <1>11
<1>13. deps \in Table(Paths)
  BY <1>11, <1>12 DEF Table
<1>14. \A f, g \in Paths : g \in deps.of[f] <=> f \in deps.at[g]
  BY <1>10, <1>11
<1>15. Mirrored(deps)
  BY <1>12, <1>14 DEF Mirrored
<1>16. iface \in [Paths -> Texts \cup {None}] /\ dirty \in SUBSET Paths
  BY <1>3
<1> HIDE DEF iface, dirty, y
<1>17. /\ y.iface = iface /\ y.deps = deps /\ y.names = names /\ y.targets = targets
       /\ y.uidRefs = uidRefs /\ y.dirty = dirty
       /\ y.declared = x.declared /\ y.uids = x.uids /\ y.epochs = x.epochs
  BY <1>1, <1>2 DEF Index
<1>18. names \in Table(Names) /\ targets \in Table(Paths) /\ uidRefs \in Table(Uids)
       /\ Mirrored(names) /\ Mirrored(targets) /\ Mirrored(uidRefs)
  BY <1>7, <1>8, <1>9 DEF Pointed
<1>19. y \in Index
  BY <1>1, <1>2, <1>13, <1>16, <1>18 DEF Index
<1>20. Live(y) = Live(x) \ {p}
  BY <1>3, <1>17 DEF Live, iface
<1>21. \A q \in Paths \ {p} : /\ y.deps.of[q] = x.deps.of[q] \ {p}
                              /\ y.names.of[q] = x.names.of[q]
                              /\ y.targets.of[q] = x.targets.of[q]
                              /\ y.uidRefs.of[q] = x.uidRefs.of[q]
  BY <1>7, <1>8, <1>9, <1>10, <1>11, <1>17 DEF Pointed
<1>22. /\ y.names.of[p] = {} /\ y.targets.of[p] = {} /\ y.uidRefs.of[p] = {}
       /\ y.deps.of[p] = {} /\ y.deps.at[p] = {}
  BY <1>5, <1>7, <1>8, <1>9, <1>10, <1>11, <1>17 DEF Pointed
<1>23. ASSUME NEW q \in Paths \ Live(y)
       PROVE  /\ y.declared[q] = None
              /\ y.deps.of[q] = {} /\ y.deps.at[q] = {}
              /\ y.names.of[q] = {} /\ y.targets.of[q] = {} /\ y.uidRefs.of[q] = {}
  <2>1. CASE q = p
    BY <1>17, <1>22, <2>1
  <2>2. CASE q # p
    <3>1. q \in Paths \ Live(x)
      BY <1>20, <2>2
    <3>2. /\ x.declared[q] = None /\ x.deps.of[q] = {} /\ x.deps.at[q] = {}
          /\ x.names.of[q] = {} /\ x.targets.of[q] = {} /\ x.uidRefs.of[q] = {}
      BY <3>1, DeadIsClean
    <3>3. y.deps.at[q] = {}
      <4>1. \A f \in Paths : q \notin x.deps.of[f]
        BY <1>3, <1>4, <3>2 DEF Table, Mirrored
      <4>2. \A f \in Paths : q \notin out.of[f]
        BY <1>10, <4>1
      <4> QED
        BY <1>10, <1>11, <1>17, <2>2, <4>2
    <3> QED
      BY <1>17, <1>21, <2>2, <3>2, <3>3
  <2> QED
    BY <2>1, <2>2
<1>24. Verified(y)
  <2>1. dirty \subseteq Live(y)
    BY <1>4, <1>20 DEF dirty
  <2> QED
    BY <1>15, <1>17, <1>18, <1>23, <2>1 DEF Verified
<1> QED
  BY <1>17, <1>19, <1>20, <1>21, <1>24 DEF Sound, Detached, y, iface

LEMMA DeclaredDecides ==
  ASSUME NEW x, NEW y, y.declared = x.declared, NEW n
  PROVE  Owner(y, n) = Owner(x, n)
<1>1. Declarers(y, n) = Declarers(x, n)
  BY DEF Declarers
<1>2. Winners(y, n) = Winners(x, n)
  BY <1>1 DEF Winners
<1> QED
  BY <1>2 DEF Owner

(* A file that names nothing p owned has the tables it should have once    *)
(* p is detached.                                                          *)
LEMMA DetachFrame ==
  ASSUME NEW x, Good(x), NEW p \in Paths, NEW d,
         d.declared = [x.declared EXCEPT ![p] = None],
         d.iface = [x.iface EXCEPT ![p] = None], d.uids = x.uids, Sound(d),
         \A q \in Paths \ {p} : /\ d.deps.of[q] = x.deps.of[q] \ {p}
                                /\ d.names.of[q] = x.names.of[q]
                                /\ d.targets.of[q] = x.targets.of[q]
                                /\ d.uidRefs.of[q] = x.uidRefs.of[q],
         NEW q \in Live(x) \ {p},
         q \notin Referencers(d, Moved(x, Undeclared(x, p)))
  PROVE  Tabled(d, q)
<1> DEFINE N == Moved(x, Undeclared(x, p))
<1>1. x \in Index /\ q \in Paths /\ q # p /\ Tabled(x, q)
  BY DEF Good, Sound, Live, TabledBut
<1>2. d.iface[q] = x.iface[q] /\ d.iface[p] = None
  BY <1>1, IndexFields
<1>3. /\ NamesOf(d, q) = NamesOf(x, q) /\ BodyOf(d, q) = BodyOf(x, q)
      /\ LiteralsOf(d, q) = LiteralsOf(x, q)
  BY <1>2 DEF NamesOf, BodyOf, LiteralsOf
<1>4. \A l : Deref(d, l) = Deref(x, l)
  BY DEF Deref
<1>5. ASSUME NEW n \in NamesOf(x, q) \cup BodyOf(x, q)
      PROVE  Owner(d, n) = Owner(x, n) /\ Owner(d, n) # p
  <2>1. n \in Names
    BY <1>1, ReferenceTypes
  <2>2. Undeclared(x, p).declared = d.declared
    BY UndeclaredIsSound DEF Good
  <2>3. Owner(Undeclared(x, p), n) = Owner(d, n)
    BY <2>2, DeclaredDecides
  <2>4. n \notin N
    <3> SUFFICES ASSUME n \in N PROVE FALSE
      OBVIOUS
    <3>1. CASE n \in NamesOf(x, q)
      <4>1. d.names \in Table(Names) /\ Mirrored(d.names)
        BY IndexFields DEF Sound, Verified
      <4>2. n \in d.names.of[q]
        BY <1>1, <3>1 DEF Tabled
      <4>3. q \in d.names.at[n]
        BY <1>1, <2>1, <4>1, <4>2 DEF Table, Mirrored
      <4> QED
        BY <4>3 DEF Referencers
    <3>2. CASE n \in BodyOf(x, q)
      <4>1. BodyOf(d, q) \cap N # {}
        BY <1>3, <3>2
      <4> QED
        BY <1>1, <4>1 DEF Referencers
    <3> QED
      BY <3>1, <3>2
  <2>5. Owner(d, n) = Owner(x, n)
    BY <2>1, <2>3, <2>4 DEF Moved
  <2>6. d \in Index
    BY DEF Sound
  <2>7. d.declared[p] = None
    BY <1>1, IndexFields
  <2>8. Owner(d, n) # p
    <3>1. Owner(d, n) = None \/ d.declared[Owner(d, n)] = n
      BY <2>1, <2>6, OwnerDeclares
    <3> QED
      BY <2>1, <2>7, <3>1, NoneApart
  <2> QED
    BY <2>5, <2>8
<1>6. ASSUME NEW l \in LiteralsOf(x, q)
      PROVE  Resolve(d, l) = IF Resolve(x, l) = p THEN None ELSE Resolve(x, l)
  <2>1. Deref(x, l) \in Paths \cup {None}
    BY <1>1, ReferenceTypes, IndexFields DEF Deref
  <2>2. CASE Deref(x, l) = p
    BY <1>2, <1>4, <2>2, NoneApart DEF Resolve
  <2>3. CASE Deref(x, l) = None
    BY <1>4, <2>3, NoneApart DEF Resolve
  <2>4. CASE Deref(x, l) \in Paths \ {p}
    <3>1. d.iface[Deref(x, l)] = x.iface[Deref(x, l)]
      BY <1>1, <2>4, IndexFields
    <3> QED
      BY <1>4, <2>4, <3>1, NoneApart DEF Resolve
  <2> QED
    BY <2>1, <2>2, <2>3, <2>4
<1>7. Edges(d, q) = Edges(x, q) \ {p}
  <2> DEFINE A == {Owner(d, n) : n \in NamesOf(d, q) \cup BodyOf(d, q)}
             B == {Owner(x, n) : n \in NamesOf(x, q) \cup BodyOf(x, q)}
             C == {Resolve(d, l) : l \in LiteralsOf(d, q)}
             E == {Resolve(x, l) : l \in LiteralsOf(x, q)}
  <2>1. A = B /\ p \notin A
    BY <1>3, <1>5
  <2>2. C \ {None} = (E \ {p}) \ {None}
    <3>1. ASSUME NEW l \in LiteralsOf(x, q), Resolve(d, l) # None
          PROVE  Resolve(d, l) \in E \ {p}
      BY <1>6, <3>1
    <3>2. ASSUME NEW l \in LiteralsOf(x, q), Resolve(x, l) # None, Resolve(x, l) # p
          PROVE  Resolve(x, l) \in C
      <4>1. Resolve(x, l) = Resolve(d, l)
        BY <1>6, <3>2
      <4> QED
        BY <1>3, <4>1
    <3> QED
      BY <1>3, <3>1, <3>2
  <2>3. Edges(d, q) = (A \cup C) \ {None, q} /\ Edges(x, q) = (B \cup E) \ {None, q}
    BY DEF Edges
  <2> HIDE DEF A, B, C, E
  <2> QED
    BY <2>1, <2>2, <2>3
<1>8. TargetsOf(d, q) = TargetsOf(x, q)
  BY <1>3, <1>4, TargetsAgree
<1> QED
  BY <1>1, <1>3, <1>7, <1>8 DEF Tabled

(* The file is gone, and its closure marked.                               *)
Gone(x, p) == Detach(Unmarked(x, p), p)
Removes(x, p, d) ==
  /\ Sound(d) /\ d.uids = x.uids /\ Live(d) = Live(x) \ {p}
  /\ d.declared = [x.declared EXCEPT ![p] = None]
  /\ d.iface = [x.iface EXCEPT ![p] = None]
  /\ \A q \in Paths \ {p} : /\ d.deps.of[q] = x.deps.of[q] \ {p}
                            /\ d.names.of[q] = x.names.of[q]
                            /\ d.targets.of[q] = x.targets.of[q]
                            /\ d.uidRefs.of[q] = x.uidRefs.of[q]
  /\ Marked(x, d, ReverseClosure(x, p))

LEMMA GoneRemoves ==
  ASSUME NEW x, Sound(x), NEW p \in Paths
  PROVE  Removes(x, p, Gone(x, p))
<1> DEFINE und == Undeclared(x, p)
           C == ReverseClosure(x, p)
           un == Unmarked(x, p)
           d == Gone(x, p)
<1>1. /\ Sound(und) /\ SameTables(x, und) /\ und.declared = [x.declared EXCEPT ![p] = None]
      /\ und.iface = x.iface /\ und.uids = x.uids /\ und.epochs = x.epochs
  BY UndeclaredIsSound
<1>2. C \in SUBSET Live(und)
  BY <1>1, ClosureIsLive DEF Live
<1>3. un = Mark(und, C)
  BY DEF Unmarked
<1>4. Sound(un) /\ SameFacts(und, un) /\ SameTables(und, un) /\ Marked(und, un, C)
  BY <1>1, <1>2, <1>3, MarkKeeps, MarkMarks
<1>5. un.declared[p] = None
  BY <1>1, <1>4, IndexFields DEF SameFacts, Sound
<1>6. Detached(un, p, d)
  BY <1>4, <1>5, DetachKeeps DEF Gone
<1>7. Live(un) = Live(x)
  BY <1>1, <1>4 DEF Live, SameFacts
<1>8. Marked(x, d, C)
  BY <1>1, <1>4, <1>6 DEF Marked, Detached
<1> QED
  BY <1>1, <1>4, <1>6, <1>7, <1>8 DEF Detached, SameFacts, SameTables, Removes

(* on_file_removed leaves the index good, without the file.                *)
LEMMA RemovedKeeps ==
  ASSUME NEW x, Good(x), NEW p \in Paths
  PROVE  /\ Good(OnFileRemoved(x, p))
         /\ OnFileRemoved(x, p).iface = [x.iface EXCEPT ![p] = None]
         /\ OnFileRemoved(x, p).declared = [x.declared EXCEPT ![p] = None]
         /\ OnFileRemoved(x, p).uids = x.uids
         /\ Marked(x, OnFileRemoved(x, p), {})
<1> DEFINE d == Gone(x, p)
           N == Moved(x, Undeclared(x, p))
           z == OnFileRemoved(x, p)
<1>1. Sound(x) /\ AllDeclared(x) /\ TabledBut(x, {}) /\ x \in Index
  BY DEF Good, Sound
<1>2. Removes(x, p, d)
  BY <1>1, GoneRemoves
<1>3. TabledBut(d, Referencers(d, N))
  BY <1>2, DetachFrame DEF TabledBut, Removes
<1>4. N \in SUBSET Names /\ z = RelinkNames(d, N) /\ Sound(d)
  BY <1>2, RemovedInSteps DEF Moved, Gone, Removes
<1>5. /\ Sound(z) /\ SameFacts(d, z) /\ Marked(d, z, Referencers(d, N))
      /\ TabledBut(z, Referencers(d, N) \ Referencers(d, N))
  BY <1>3, <1>4, RelinkNamesLinks
<1>6. TabledBut(z, {})
  BY <1>5 DEF TabledBut
<1>7. AllDeclared(d)
  <2>1. ASSUME NEW q \in Live(d)
        PROVE  d.declared[q] = Unit[d.iface[q]].declares
    <3>1. q \in Live(x) /\ q \in Paths /\ q # p
      BY <1>2, <2>1 DEF Live, Removes
    <3>2. d.iface[q] = x.iface[q] /\ d.declared[q] = x.declared[q]
      BY <1>1, <1>2, <3>1, IndexFields DEF Removes
    <3> QED
      BY <1>1, <3>1, <3>2 DEF AllDeclared
  <2> QED
    BY <2>1 DEF AllDeclared
<1>8. AllDeclared(z)
  BY <1>5, <1>7, SameFactsFollow
<1>9. Marked(x, z, {})
  <2>1. \A q \in Paths : x.epochs[q] \in Nat
    BY <1>1, IndexFields
  <2> QED
    BY <1>2, <1>5, <2>1 DEF Marked, Removes
<1> QED
  BY <1>2, <1>5, <1>6, <1>8, <1>9 DEF Good, SameFacts, Removes
-----------------------------------------------------------------------------
(* The uid map, the drain of the dirty set, the cold build                 *)

UidsSet(x, m) == [x EXCEPT !.uids = m]
UidReferencers(x, U) == UNION {x.uidRefs.at[u] : u \in U}
MovedUids(x, m) == UidReferencers(UidsSet(x, m), {u \in Uids : x.uids[u] # m[u]})

LEMMA UidsInSteps ==
  ASSUME NEW x, NEW m
  PROVE  SetUids(x, m) = LET set == UidsSet(x, m)
                             F == UidReferencers(set, {u \in Uids : x.uids[u] # m[u]})
                         IN  Mark(Relink(set, F), F)
BY DEF SetUids, RelinkUids, UidsSet, UidReferencers

UidMapSet(x, m, y) ==
  /\ Sound(y) /\ SameTables(x, y) /\ y.uids = m /\ y.iface = x.iface
  /\ y.declared = x.declared /\ y.epochs = x.epochs

LEMMA UidsSetKeeps ==
  ASSUME NEW x, Sound(x), NEW m \in [Uids -> Paths \cup {None}]
  PROVE  UidMapSet(x, m, UidsSet(x, m))
<1> DEFINE y == UidsSet(x, m)
<1>1. x \in Index /\ Verified(x)
  BY DEF Sound
<1>2. y = [x EXCEPT !.uids = m]
  BY DEF UidsSet
<1> HIDE DEF y
<1>3. /\ y.declared = x.declared /\ y.iface = x.iface /\ y.uids = m /\ y.epochs = x.epochs
      /\ y.deps = x.deps /\ y.names = x.names /\ y.targets = x.targets
      /\ y.uidRefs = x.uidRefs /\ y.dirty = x.dirty
  BY <1>1, <1>2 DEF Index
<1>4. y \in Index
  BY <1>1, <1>2 DEF Index
<1>5. Verified(y)
  BY <1>1, <1>3 DEF Verified, Live
<1> QED
  BY <1>3, <1>4, <1>5 DEF Sound, SameTables, UidMapSet, y

(* A file none of whose uids moved keeps its tables.                       *)
LEMMA UidsFrame ==
  ASSUME NEW x, Good(x), NEW m, NEW y, UidMapSet(x, m, y), NEW q \in Live(x),
         q \notin UidReferencers(y, {u \in Uids : x.uids[u] # m[u]})
  PROVE  Tabled(y, q)
<1>1. x \in Index /\ q \in Paths /\ Tabled(x, q)
  BY DEF Good, Sound, Live, TabledBut
<1>2. SameTables(x, y) /\ y.uids = m /\ y.iface = x.iface /\ y.declared = x.declared
  BY DEF UidMapSet
<1>3. /\ NamesOf(y, q) = NamesOf(x, q) /\ BodyOf(y, q) = BodyOf(x, q)
      /\ LiteralsOf(y, q) = LiteralsOf(x, q)
  BY <1>2 DEF NamesOf, BodyOf, LiteralsOf
<1>4. \A n : Owner(y, n) = Owner(x, n)
  BY <1>2, DeclaredDecides
<1>5. ASSUME NEW l \in LiteralsOf(x, q)
      PROVE  Deref(y, l) = Deref(x, l)
  <2>1. CASE l \in Uids
    <3>1. x.uidRefs \in Table(Uids) /\ Mirrored(x.uidRefs)
      BY <1>1, IndexFields DEF Good, Sound, Verified
    <3>2. l \in x.uidRefs.of[q]
      BY <1>1, <2>1 DEF Tabled
    <3>3. q \in y.uidRefs.at[l]
      BY <1>1, <1>2, <2>1, <3>1, <3>2 DEF Table, Mirrored, SameTables
    <3>4. x.uids[l] = m[l]
      BY <2>1, <3>3 DEF UidReferencers
    <3> QED
      BY <1>2, <2>1, <3>4 DEF Deref
  <2>2. CASE l \notin Uids
    BY <2>2 DEF Deref
  <2> QED
    BY <2>1, <2>2
<1>6. \A l \in LiteralsOf(x, q) : Resolve(y, l) = Resolve(x, l)
  BY <1>2, <1>5 DEF Resolve
<1>7. Edges(y, q) = Edges(x, q)
  BY <1>3, <1>4, <1>6, EdgesAgree
<1>8. TargetsOf(y, q) = TargetsOf(x, q)
  BY <1>3, <1>5, TargetsAgree
<1> QED
  BY <1>1, <1>2, <1>3, <1>7, <1>8 DEF Tabled, SameTables

(* set_uid_map leaves the index good, with the new map.                    *)
LEMMA UidsKeep ==
  ASSUME NEW x, Good(x), NEW m \in [Uids -> Paths \cup {None}]
  PROVE  /\ Good(SetUids(x, m)) /\ SetUids(x, m).uids = m
         /\ SetUids(x, m).iface = x.iface /\ SetUids(x, m).declared = x.declared
         /\ Marked(x, SetUids(x, m), MovedUids(x, m))
<1> DEFINE set == UidsSet(x, m)
           F == MovedUids(x, m)
           y == Relink(set, F)
           z == SetUids(x, m)
<1>1. Sound(x) /\ AllDeclared(x) /\ x \in Index
  BY DEF Good, Sound
<1>2. UidMapSet(x, m, set)
  BY <1>1, UidsSetKeeps
<1>3. /\ Sound(set) /\ SameTables(x, set) /\ set.uids = m /\ set.iface = x.iface
      /\ set.declared = x.declared /\ set.epochs = x.epochs
  BY <1>2 DEF UidMapSet
<1>4. F \in SUBSET Live(set)
  <2>1. set.uidRefs \in Table(Uids) /\ Mirrored(set.uidRefs)
    BY <1>3, IndexFields DEF Sound, Verified
  <2>2. ASSUME NEW u \in Uids, NEW q \in set.uidRefs.at[u]
        PROVE  q \in Live(set)
    <3>1. q \in Paths /\ u \in set.uidRefs.of[q]
      BY <2>1, <2>2 DEF Table, Mirrored
    <3> QED
      BY <1>3, <3>1, DeadIsClean
  <2> QED
    BY <2>2 DEF UidReferencers, MovedUids
<1>5. TabledBut(set, F)
  <2>1. Live(set) = Live(x)
    BY <1>3 DEF Live
  <2> QED
    BY <1>2, <2>1, UidsFrame DEF TabledBut, MovedUids
<1> HIDE DEF F
<1>6. Sound(y) /\ SameFacts(set, y) /\ y.epochs = set.epochs
  BY <1>3, <1>4, RelinkLinks
<1>7. TabledBut(y, {})
  <2>1. TabledBut(y, F \ F)
    BY <1>3, <1>4, <1>5, RelinkTables
  <2> QED
    BY <2>1 DEF TabledBut
<1>8. z = Mark(y, F) /\ F \in SUBSET Live(y)
  BY <1>4, <1>6, FactsDecide, UidsInSteps DEF F, MovedUids
<1>9. Sound(z) /\ SameFacts(y, z) /\ SameTables(y, z) /\ Marked(y, z, F)
  BY <1>6, <1>8, MarkKeeps, MarkMarks
<1>10. TabledBut(z, {})
  BY <1>7, <1>9, TablesFollow
<1>11. z.uids = m /\ z.iface = x.iface /\ z.declared = x.declared
  BY <1>3, <1>6, <1>9 DEF SameFacts
<1>12. AllDeclared(z)
  BY <1>1, <1>11 DEF AllDeclared, Live
<1>13. Marked(x, z, F)
  BY <1>3, <1>6, <1>9 DEF Marked
<1> QED
  BY <1>9, <1>10, <1>11, <1>12, <1>13 DEF Good, F

LEMMA TakeDirtyKeeps ==
  ASSUME NEW x, Good(x)
  PROVE  /\ Good(TakeDirty(x)) /\ SameFacts(x, TakeDirty(x)) /\ SameTables(x, TakeDirty(x))
         /\ TakeDirty(x).epochs = x.epochs /\ TakeDirty(x).dirty = {}
<1> DEFINE y == TakeDirty(x)
<1>1. x \in Index /\ Verified(x) /\ AllDeclared(x) /\ TabledBut(x, {})
  BY DEF Good, Sound
<1>2. y = [x EXCEPT !.dirty = {}]
  BY DEF TakeDirty
<1> HIDE DEF y
<1>3. /\ y.declared = x.declared /\ y.iface = x.iface /\ y.uids = x.uids /\ y.epochs = x.epochs
      /\ y.deps = x.deps /\ y.names = x.names /\ y.targets = x.targets
      /\ y.uidRefs = x.uidRefs /\ y.dirty = {}
  BY <1>1, <1>2 DEF Index
<1>4. y \in Index
  BY <1>1, <1>2 DEF Index
<1>5. Verified(y)
  BY <1>1, <1>3 DEF Verified, Live
<1>6. SameFacts(x, y) /\ SameTables(x, y)
  BY <1>3 DEF SameFacts, SameTables
<1>7. AllDeclared(y) /\ TabledBut(y, {})
  BY <1>1, <1>6, SameFactsFollow, TablesFollow
<1> QED
  BY <1>3, <1>4, <1>5, <1>6, <1>7 DEF Good, Sound, y

(* An index as build finds it: every interface, no edge.                   *)
Bare(files, uids) ==
  [iface |-> files,
   declared |-> [p \in Paths |-> IF files[p] = None THEN None ELSE Unit[files[p]].declares],
   deps |-> EmptyTable(Paths), names |-> EmptyTable(Names),
   targets |-> EmptyTable(Paths), uidRefs |-> EmptyTable(Uids),
   uids |-> uids, dirty |-> {}, epochs |-> [p \in Paths |-> 0]]

LEMMA EmptyTableMirrors ==
  ASSUME NEW Keys
  PROVE  /\ EmptyTable(Keys) \in Table(Keys) /\ Mirrored(EmptyTable(Keys))
         /\ \A p \in Paths : EmptyTable(Keys).of[p] = {}
         /\ \A k \in Keys : EmptyTable(Keys).at[k] = {}
BY DEF EmptyTable, Table, Mirrored

LEMMA ColdKeeps ==
  ASSUME NEW files \in [Paths -> Texts \cup {None}], NEW uids \in [Uids -> Paths \cup {None}]
  PROVE  /\ Good(ColdIndex(files, uids)) /\ ColdIndex(files, uids).iface = files
         /\ ColdIndex(files, uids).uids = uids
<1> DEFINE x == Bare(files, uids)
           z == ColdIndex(files, uids)
<1>1. z = Relink(x, Live(x))
  BY DEF ColdIndex, Bare
<1>2. /\ x.iface = files /\ x.uids = uids /\ x.dirty = {}
      /\ x.declared = [p \in Paths |-> IF files[p] = None THEN None ELSE Unit[files[p]].declares]
      /\ x.deps = EmptyTable(Paths) /\ x.names = EmptyTable(Names)
      /\ x.targets = EmptyTable(Paths) /\ x.uidRefs = EmptyTable(Uids)
  BY DEF Bare
<1>3. x.declared \in [Paths -> Names \cup {None}]
  BY <1>2, UnitFields
<1>4. x \in Index
  <2>1. [p \in Paths |-> 0] \in [Paths -> Nat]
    OBVIOUS
  <2> QED
    BY <1>2, <1>3, <2>1, EmptyTableMirrors DEF Bare, Index
<1>5. Verified(x)
  <2>1. \A p \in Paths \ Live(x) : x.declared[p] = None
    BY <1>2 DEF Live
  <2> QED
    BY <1>2, <2>1, EmptyTableMirrors DEF Verified
<1>6. Sound(x)
  BY <1>4, <1>5 DEF Sound
<1>7. AllDeclared(x)
  BY <1>2 DEF AllDeclared, Live
<1>8. Sound(z) /\ SameFacts(x, z)
  BY <1>1, <1>6, RelinkLinks
<1>9. TabledBut(z, {})
  <2>1. TabledBut(x, Live(x))
    BY DEF TabledBut
  <2>2. TabledBut(z, Live(x) \ Live(x))
    BY <1>1, <1>6, <2>1, RelinkTables
  <2> QED
    BY <2>2 DEF TabledBut
<1>10. AllDeclared(z)
  BY <1>7, <1>8, SameFactsFollow
<1> QED
  BY <1>2, <1>8, <1>9, <1>10 DEF Good, SameFacts

(* What Good says in the words of ProjectIndex.                            *)
LEMMA GoodIsExact ==
  ASSUME NEW x
  PROVE  Good(x) <=> x \in Index /\ Verified(x) /\ AllLinked(x)
BY DEF Good, Sound, AllDeclared, TabledBut, AllLinked, Linked, Tabled
=============================================================================
