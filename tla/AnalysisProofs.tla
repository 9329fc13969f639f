--------------------------- MODULE AnalysisProofs ---------------------------
(***************************************************************************)
(* Theorems of Analysis, for every set of files, names, uids, texts and    *)
(* settings and for every bound: the types, the index that is always the   *)
(* one a cold build would give, and answers that are never stale.          *)
(***************************************************************************)
EXTENDS Analysis, ProjectIndexProofs

(* The index, and what the handlers hand it.                               *)
IndexInv == /\ Good(idx)
            /\ buffer \in [Paths -> Texts \cup {None}]
            /\ reopening \subseteq Open

LEMMA VersionsAreTexts ==
  ASSUME NEW p \in Paths, NEW t \in Versions[p]
  PROVE  t \in Texts
BY AnalysisConstants DEF AnalysisConstants

LEMMA UidMapsAreMaps ==
  ASSUME NEW m \in UidMaps
  PROVE  m \in [Uids -> Paths \cup {None}]
BY AnalysisConstants DEF AnalysisConstants

LEMMA ProjectsAreFiles ==
  ASSUME NEW files \in Projects
  PROVE  files \in [Paths -> Texts \cup {None}]
BY AnalysisConstants DEF AnalysisConstants

(* A handler that publishes: its index is x with the dirty set drained.    *)
LEMMA RepublishIndex ==
  ASSUME NEW x, NEW c, NEW held, NEW Self, NEW opened, Republish(x, c, held, Self, opened),
         Good(x)
  PROVE  Good(idx') /\ SameFacts(x, idx')
BY TakeDirtyKeeps DEF Republish

LEMMA ReplaceUid ==
  ASSUME NEW x \in Index, NEW u \in Uids, NEW p \in Paths \cup {None}
  PROVE  [x.uids EXCEPT ![u] = p] \in [Uids -> Paths \cup {None}]
BY IndexFields

LEMMA IndexInit == Init => IndexInv
<1> SUFFICES ASSUME Init PROVE IndexInv
  OBVIOUS
<1>1. PICK files \in Projects, m \in UidMaps : idx = ColdIndex(files, m)
  BY DEF Init
<1>2. Good(idx)
  BY <1>1, ProjectsAreFiles, UidMapsAreMaps, ColdKeeps
<1>3. buffer \in [Paths -> Texts \cup {None}] /\ reopening = {}
  BY DEF Init
<1> QED
  BY <1>2, <1>3 DEF IndexInv

LEMMA IndexNext == IndexInv /\ [Next]_vars => IndexInv'
<1> SUFFICES ASSUME IndexInv, [Next]_vars PROVE IndexInv'
  OBVIOUS
<1> USE DEF IndexInv
<1>1. ASSUME NEW p \in Paths, NEW t \in Versions[p], Edit(p, t)
      PROVE  IndexInv'
  <2>1. t \in Texts
    BY <1>1, VersionsAreTexts
  <2>2. Good(idx')
    BY <1>1, <2>1, ChangedKeeps, RepublishIndex DEF Edit
  <2>3. buffer' = [buffer EXCEPT ![p] = t] /\ reopening' = {}
    BY <1>1 DEF Edit, Event
  <2> QED
    BY <2>1, <2>2, <2>3
<1>2. ASSUME NEW p \in Paths, NEW t \in Versions[p], FileChanged(p, t)
      PROVE  IndexInv'
  <2>1. t \in Texts
    BY <1>2, VersionsAreTexts
  <2>2. Good(idx')
    BY <1>2, <2>1, ChangedKeeps, RepublishIndex DEF FileChanged
  <2>3. buffer' = buffer /\ reopening' = {}
    BY <1>2 DEF FileChanged, Event
  <2> QED
    BY <2>2, <2>3
<1>3. ASSUME NEW p \in Paths, Close(p)
      PROVE  IndexInv'
  <2>1. PICK x \in {OnFileChanged(idx, p, t) : t \in Versions[p]}
                   \cup {OnFileRemoved(idx, p), idx} :
          Republish(x, Forget(p), [shown EXCEPT ![p] = NoReport], {p}, Open \ {p})
    BY <1>3 DEF Close
  <2>2. Good(x)
    <3>1. CASE x \in {OnFileChanged(idx, p, t) : t \in Versions[p]}
      <4>1. PICK t \in Versions[p] : x = OnFileChanged(idx, p, t)
        BY <3>1
      <4>2. t \in Texts
        BY VersionsAreTexts
      <4> QED
        BY <4>1, <4>2, ChangedKeeps
    <3>2. CASE x = OnFileRemoved(idx, p)
      BY <3>2, RemovedKeeps
    <3>3. CASE x = idx
      BY <3>3
    <3> QED
      BY <2>1, <3>1, <3>2, <3>3
  <2>3. Good(idx')
    BY <2>1, <2>2, RepublishIndex
  <2>4. buffer' = [buffer EXCEPT ![p] = None] /\ reopening' = {}
    BY <1>3 DEF Close, Event
  <2> QED
    BY <2>3, <2>4
<1>4. ASSUME NEW p \in Paths, FileRemoved(p)
      PROVE  IndexInv'
  <2>1. Good(idx')
    BY <1>4, RemovedKeeps, RepublishIndex DEF FileRemoved
  <2>2. buffer' = buffer /\ reopening' = {}
    BY <1>4 DEF FileRemoved, Event
  <2> QED
    BY <2>1, <2>2
<1>5. ASSUME NEW p \in Paths, Reopen(p)
      PROVE  IndexInv'
  <2>1. p \in Open /\ buffer[p] \in Texts
    BY <1>5 DEF Reopen, Open
  <2>2. Good(idx')
    BY <1>5, <2>1, ChangedKeeps DEF Reopen
  <2>3. buffer' = buffer /\ reopening' \subseteq reopening
    BY <1>5 DEF Reopen
  <2>4. Open' = Open
    BY <2>3 DEF Open
  <2> QED
    BY <2>2, <2>3, <2>4
<1>6. ASSUME NEW u \in Uids, NEW p \in Paths \cup {None}, UidChanged(u, p)
      PROVE  IndexInv'
  <2> DEFINE m == [idx.uids EXCEPT ![u] = p]
  <2>1. m \in [Uids -> Paths \cup {None}]
    BY ReplaceUid DEF Good, Sound
  <2>2. Republish(SetUids(idx, m), cache, shown, {}, Open)
    BY <1>6 DEF UidChanged
  <2>3. buffer' = buffer /\ reopening' = {}
    BY <1>6 DEF UidChanged, Event
  <2> HIDE DEF m
  <2>4. Good(idx')
    BY <2>1, <2>2, UidsKeep, RepublishIndex
  <2> QED
    BY <2>3, <2>4
<1>7. ASSUME NEW s \in Settings, NEW m \in UidMaps, Reload(s, m)
      PROVE  IndexInv'
  <2>1. Good(idx')
    BY <1>7, UidMapsAreMaps, UidsKeep DEF Reload
  <2>2. buffer' = buffer /\ reopening' = {}
    BY <1>7 DEF Reload, Event
  <2> QED
    BY <2>1, <2>2
<1>8. ASSUME NEW s \in Settings, NEW files \in Projects, NEW m \in UidMaps,
             ChangeDialect(s, files, m)
      PROVE  IndexInv'
  <2>1. Good(idx')
    BY <1>8, UidMapsAreMaps, ProjectsAreFiles, ColdKeeps DEF ChangeDialect
  <2>2. buffer' = buffer /\ reopening' = Open /\ Open' = Open
    BY <1>8 DEF ChangeDialect, Open
  <2> QED
    BY <2>1, <2>2
<1>9. ASSUME NEW p \in Paths, Pull(p) \/ Analyze(p)
      PROVE  IndexInv'
  <2>1. idx' = idx /\ buffer' = buffer /\ reopening' = reopening
    BY <1>9 DEF Pull, Analyze
  <2> QED
    BY <2>1 DEF Open
<1>10. ASSUME NEW S \in SUBSET Paths, React(S)
       PROVE  IndexInv'
  <2>1. idx' = idx /\ buffer' = buffer /\ reopening' = reopening
    BY <1>10 DEF React
  <2> QED
    BY <2>1 DEF Open
<1>11. CASE UNCHANGED vars
  <2>1. idx' = idx /\ buffer' = buffer /\ reopening' = reopening
    BY <1>11 DEF vars
  <2> QED
    BY <2>1 DEF Open
<1> QED
  BY <1>1, <1>2, <1>3, <1>4, <1>5, <1>6, <1>7, <1>8, <1>9, <1>10, <1>11 DEF Next
-----------------------------------------------------------------------------
(* The types                                                               *)

CountInv == /\ ops \in 0..MaxOps /\ life \in 0..MaxLives /\ generation \in 0..ops
            /\ setting \in Settings /\ hard \in BOOLEAN /\ pull \in BOOLEAN

LEMMA CountInit == Init => CountInv
<1> SUFFICES ASSUME Init PROVE CountInv
  OBVIOUS
<1>1. ops = 0 /\ life = 0 /\ generation = 0 /\ setting \in Settings /\ hard = FALSE
      /\ pull \in BOOLEAN
  BY DEF Init
<1>2. MaxOps \in Nat /\ MaxLives \in Nat
  BY AnalysisConstants DEF AnalysisConstants
<1>3. ops \in 0..MaxOps /\ life \in 0..MaxLives /\ generation \in 0..ops
  BY <1>1, <1>2
<1>4. hard \in BOOLEAN
  BY <1>1
<1> QED
  BY <1>1, <1>3, <1>4 DEF CountInv

LEMMA CountNext == CountInv /\ [Next]_vars => CountInv'
<1> SUFFICES ASSUME CountInv, [Next]_vars PROVE CountInv'
  OBVIOUS
<1> USE AnalysisConstants DEF CountInv, AnalysisConstants, Event
<1>1. ASSUME NEW p \in Paths, NEW t \in Versions[p], Edit(p, t) \/ FileChanged(p, t)
      PROVE  CountInv'
  BY <1>1 DEF Edit, FileChanged
<1>2. ASSUME NEW p \in Paths, Close(p) \/ FileRemoved(p)
      PROVE  CountInv'
  BY <1>2 DEF Close, FileRemoved
<1>3. ASSUME NEW p \in Paths, Reopen(p) \/ Pull(p) \/ Analyze(p)
      PROVE  CountInv'
  BY <1>3 DEF Reopen, Pull, Analyze
<1>4. ASSUME NEW u \in Uids, NEW p \in Paths \cup {None}, UidChanged(u, p)
      PROVE  CountInv'
  BY <1>4 DEF UidChanged
<1>5. ASSUME NEW s \in Settings, NEW m \in UidMaps, Reload(s, m)
      PROVE  CountInv'
  BY <1>5 DEF Reload
<1>6. ASSUME NEW s \in Settings, NEW files \in Projects, NEW m \in UidMaps,
             ChangeDialect(s, files, m)
      PROVE  CountInv'
  BY <1>6 DEF ChangeDialect
<1>7. ASSUME NEW S \in SUBSET Paths, React(S)
      PROVE  CountInv'
  BY <1>7 DEF React
<1>8. CASE UNCHANGED vars
  BY <1>8 DEF vars
<1> QED
  BY <1>1, <1>2, <1>3, <1>4, <1>5, <1>6, <1>7, <1>8 DEF Next

(* What is open is indexed as its buffer has it; the client holds nothing  *)
(* for what is closed.                                                     *)
OpenIndexed == \A p \in Open \ reopening : idx.iface[p] = buffer[p]
OnPaths(f) == f = [p \in Paths |-> f[p]]
ClosedUnheld == /\ OnPaths(buffer) /\ OnPaths(shown)
                /\ refresh \subseteq Open /\ \A p \in Paths \ Open : shown[p] = NoReport

LEMMA PublishHolds ==
  ASSUME NEW x, NEW c, NEW S, NEW s, NEW held, OnPaths(held), Publish(x, c, S, s, held)
  PROVE  OnPaths(shown') /\ \A p \in Paths \ S : shown'[p] = held[p]
BY DEF Publish, OnPaths

LEMMA RepublishHolds ==
  ASSUME NEW x, NEW c, NEW held, OnPaths(held), NEW Self, NEW opened,
         Republish(x, c, held, Self, opened)
  PROVE  /\ OnPaths(shown')
         /\ \A p \in Paths \ opened : shown'[p] = held[p]
         /\ refresh' \subseteq opened
<1>1. Publish(x, c, (Self \cup x.dirty) \cap opened, setting, held)
  BY DEF Republish
<1>2. OnPaths(shown') /\ \A p \in Paths \ ((Self \cup x.dirty) \cap opened) : shown'[p] = held[p]
  BY <1>1, PublishHolds
<1>3. refresh' \subseteq opened
  BY DEF Republish
<1> QED
  BY <1>2, <1>3

LEMMA RepublishAllHolds ==
  ASSUME NEW x, NEW c, NEW s, OnPaths(shown), RepublishAll(x, c, s)
  PROVE  /\ OnPaths(shown')
         /\ \A p \in Paths \ Open : shown'[p] = shown[p]
         /\ refresh' \subseteq Open
BY PublishHolds DEF RepublishAll

LEMMA ClosedUnheldInit == Init => ClosedUnheld
BY DEF Init, ClosedUnheld, Open, OnPaths

LEMMA ExceptOnPaths ==
  ASSUME NEW f, OnPaths(f), NEW p \in Paths, NEW v
  PROVE  /\ OnPaths([f EXCEPT ![p] = v])
         /\ [f EXCEPT ![p] = v][p] = v
         /\ \A q \in Paths \ {p} : [f EXCEPT ![p] = v][q] = f[q]
BY DEF OnPaths

LEMMA ClosedUnheldNext == ClosedUnheld /\ [Next]_vars => ClosedUnheld'
<1> SUFFICES ASSUME ClosedUnheld, [Next]_vars PROVE ClosedUnheld'
  OBVIOUS
<1>0. /\ OnPaths(buffer) /\ OnPaths(shown) /\ refresh \subseteq Open
      /\ \A p \in Paths \ Open : shown[p] = NoReport
  BY DEF ClosedUnheld
<1>1. ASSUME NEW p \in Paths, NEW t \in Versions[p], Edit(p, t)
      PROVE  ClosedUnheld'
  <2>1. OnPaths(buffer') /\ Open' = Open \cup {p}
    <3>1. buffer' = [buffer EXCEPT ![p] = t] /\ t # None
      BY <1>1, VersionsAreTexts, NoneApart DEF Edit
    <3>2. /\ OnPaths(buffer') /\ buffer'[p] # None
          /\ \A q \in Paths \ {p} : buffer'[q] = buffer[q]
      BY <1>0, <3>1 DEF OnPaths
    <3> QED
      BY <3>2 DEF Open
  <2>2. /\ OnPaths(shown') /\ \A q \in Paths \ (Open \cup {p}) : shown'[q] = shown[q]
        /\ refresh' \subseteq Open \cup {p}
    BY <1>0, <1>1, RepublishHolds DEF Edit
  <2> QED
    BY <1>0, <2>1, <2>2 DEF ClosedUnheld
<1>2. ASSUME NEW p \in Paths, Close(p)
      PROVE  ClosedUnheld'
  <2> DEFINE held == [shown EXCEPT ![p] = NoReport]
  <2>1. OnPaths(buffer') /\ Open' = Open \ {p}
    <3>1. buffer' = [buffer EXCEPT ![p] = None]
      BY <1>2 DEF Close
    <3>2. /\ OnPaths(buffer') /\ buffer'[p] = None
          /\ \A q \in Paths \ {p} : buffer'[q] = buffer[q]
      BY <1>0, <3>1 DEF OnPaths
    <3> QED
      BY <3>2 DEF Open
  <2>2. OnPaths(held) /\ held[p] = NoReport /\ \A q \in Paths \ {p} : held[q] = shown[q]
    BY <1>0, ExceptOnPaths
  <2>3. \E x : Republish(x, Forget(p), held, {p}, Open \ {p})
    BY <1>2 DEF Close
  <2> HIDE DEF held
  <2>4. /\ OnPaths(shown') /\ \A q \in Paths \ (Open \ {p}) : shown'[q] = held[q]
        /\ refresh' \subseteq Open \ {p}
    BY <2>2, <2>3, RepublishHolds
  <2> QED
    BY <1>0, <2>1, <2>2, <2>4 DEF ClosedUnheld
<1>3. ASSUME NEW p \in Paths, FileRemoved(p) \/ \E t \in Versions[p] : FileChanged(p, t)
      PROVE  ClosedUnheld'
  <2>1. buffer' = buffer /\ Open' = Open
    BY <1>3 DEF FileRemoved, FileChanged, Open
  <2>2. /\ OnPaths(shown') /\ \A q \in Paths \ Open : shown'[q] = shown[q]
        /\ refresh' \subseteq Open
    BY <1>0, <1>3, RepublishHolds DEF FileRemoved, FileChanged
  <2> QED
    BY <1>0, <2>1, <2>2 DEF ClosedUnheld
<1>4. ASSUME NEW u \in Uids, NEW p \in Paths \cup {None}, UidChanged(u, p)
      PROVE  ClosedUnheld'
  <2>1. buffer' = buffer /\ Open' = Open
    BY <1>4 DEF UidChanged, Open
  <2>2. /\ OnPaths(shown') /\ \A q \in Paths \ Open : shown'[q] = shown[q]
        /\ refresh' \subseteq Open
    BY <1>0, <1>4, RepublishHolds DEF UidChanged
  <2> QED
    BY <1>0, <2>1, <2>2 DEF ClosedUnheld
<1>5. ASSUME NEW x, NEW c, NEW s, buffer' = buffer,
             RepublishAll(x, c, s) \/ UNCHANGED <<shown, refresh>>
      PROVE  ClosedUnheld'
  <2>1. Open' = Open
    BY <1>5 DEF Open
  <2>2. /\ OnPaths(shown') /\ \A q \in Paths \ Open : shown'[q] = shown[q]
        /\ refresh' \subseteq Open
    BY <1>0, <1>5, RepublishAllHolds
  <2> QED
    BY <1>0, <1>5, <2>1, <2>2 DEF ClosedUnheld
<1>6. ASSUME NEW p \in Paths, Reopen(p) PROVE ClosedUnheld'
  BY <1>5, <1>6 DEF Reopen
<1>7. ASSUME NEW s \in Settings, NEW m \in UidMaps, Reload(s, m) PROVE ClosedUnheld'
  BY <1>5, <1>7 DEF Reload
<1>8. ASSUME NEW s \in Settings, NEW f \in Projects, NEW m \in UidMaps,
             ChangeDialect(s, f, m)
      PROVE  ClosedUnheld'
  BY <1>5, <1>8 DEF ChangeDialect
<1>9. ASSUME NEW p \in Paths, Pull(p)
      PROVE  ClosedUnheld'
  <2>1. buffer' = buffer /\ Open' = Open /\ p \in Open /\ refresh' \subseteq refresh
    BY <1>9 DEF Pull, Open
  <2>2. shown' = shown \/ \E v : shown' = [shown EXCEPT ![p] = v]
    BY <1>9 DEF Pull
  <2>3. OnPaths(shown') /\ \A q \in Paths \ {p} : shown'[q] = shown[q]
    BY <1>0, <2>2, ExceptOnPaths
  <2> QED
    BY <1>0, <2>1, <2>3 DEF ClosedUnheld
<1>10. ASSUME NEW p \in Paths, Analyze(p) PROVE ClosedUnheld'
  BY <1>5, <1>10 DEF Analyze
<1>11. ASSUME NEW S \in SUBSET Paths, React(S) PROVE ClosedUnheld'
  BY <1>5, <1>11 DEF React
<1>12. CASE UNCHANGED vars
  BY <1>5, <1>12 DEF vars
<1> QED
  BY <1>1, <1>2, <1>3, <1>4, <1>6, <1>7, <1>8, <1>9, <1>10, <1>11, <1>12 DEF Next

LEMMA ChangedIface ==
  ASSUME NEW x, Good(x), NEW p \in Paths, NEW t \in Texts
  PROVE  /\ OnFileChanged(x, p, t).iface[p] = t
         /\ \A q \in Paths \ {p} : OnFileChanged(x, p, t).iface[q] = x.iface[q]
<1>1. SameFacts(SetInterface(x, p, t), OnFileChanged(x, p, t))
  BY ChangedKeeps
<1>2. InterfaceSet(x, p, t, SetInterface(x, p, t))
  BY SetInterfaceKeeps DEF Good
<1>3. OnFileChanged(x, p, t).iface = [x.iface EXCEPT ![p] = t]
  BY <1>1, <1>2 DEF SameFacts, InterfaceSet
<1>4. x.iface \in [Paths -> Texts \cup {None}]
  BY IndexFields DEF Good, Sound
<1> QED
  BY <1>3, <1>4

LEMMA RepublishIface ==
  ASSUME NEW x, NEW c, NEW held, NEW Self, NEW opened, Republish(x, c, held, Self, opened),
         Good(x)
  PROVE  idx'.iface = x.iface
BY RepublishIndex DEF SameFacts

LEMMA OpenIndexedInit == Init => OpenIndexed
BY DEF Init, OpenIndexed, Open

LEMMA OpenIndexedNext == IndexInv /\ OpenIndexed /\ [Next]_vars => OpenIndexed'
<1> SUFFICES ASSUME IndexInv, OpenIndexed, [Next]_vars PROVE OpenIndexed'
  OBVIOUS
<1>0. /\ Good(idx) /\ buffer \in [Paths -> Texts \cup {None}] /\ reopening \subseteq Open
      /\ \A p \in Open \ reopening : idx.iface[p] = buffer[p]
      /\ idx.iface \in [Paths -> Texts \cup {None}]
  BY IndexFields DEF IndexInv, OpenIndexed, Good, Sound
<1>1. ASSUME NEW p \in Paths, NEW t \in Versions[p], Edit(p, t)
      PROVE  OpenIndexed'
  <2>1. t \in Texts /\ Republish(OnFileChanged(idx, p, t), cache, shown, {p}, Open \cup {p})
    BY <1>1, VersionsAreTexts DEF Edit
  <2>2. idx'.iface = OnFileChanged(idx, p, t).iface
    BY <1>0, <2>1, ChangedKeeps, RepublishIface
  <2>3. idx'.iface[p] = t /\ \A q \in Paths \ {p} : idx'.iface[q] = idx.iface[q]
    BY <1>0, <2>1, <2>2, ChangedIface
  <2>4. buffer' = [buffer EXCEPT ![p] = t] /\ reopening = {} /\ reopening' = {}
    BY <1>1 DEF Edit, Event
  <2> QED
    BY <1>0, <2>3, <2>4 DEF OpenIndexed, Open
<1>2. ASSUME NEW p \in Paths, NEW t \in Versions[p], FileChanged(p, t)
      PROVE  OpenIndexed'
  <2>1. t \in Texts /\ Republish(OnFileChanged(idx, p, t), cache, shown, {}, Open)
    BY <1>2, VersionsAreTexts DEF FileChanged
  <2>2. idx'.iface = OnFileChanged(idx, p, t).iface
    BY <1>0, <2>1, ChangedKeeps, RepublishIface
  <2>3. \A q \in Paths \ {p} : idx'.iface[q] = idx.iface[q]
    BY <1>0, <2>1, <2>2, ChangedIface
  <2>4. buffer' = buffer /\ p \notin Open /\ reopening' = reopening
    BY <1>2 DEF FileChanged
  <2> QED
    BY <1>0, <2>3, <2>4 DEF OpenIndexed, Open
<1>3. ASSUME NEW p \in Paths, Close(p)
      PROVE  OpenIndexed'
  <2>1. PICK x \in {OnFileChanged(idx, p, t) : t \in Versions[p]}
                   \cup {OnFileRemoved(idx, p), idx} :
          Republish(x, Forget(p), [shown EXCEPT ![p] = NoReport], {p}, Open \ {p})
    BY <1>3 DEF Close
  <2>2. Good(x) /\ \A q \in Paths \ {p} : x.iface[q] = idx.iface[q]
    <3>1. CASE x \in {OnFileChanged(idx, p, t) : t \in Versions[p]}
      <4>1. PICK t \in Versions[p] : x = OnFileChanged(idx, p, t)
        BY <3>1
      <4>2. t \in Texts
        BY VersionsAreTexts
      <4> QED
        BY <1>0, <4>1, <4>2, ChangedKeeps, ChangedIface
    <3>2. CASE x = OnFileRemoved(idx, p)
      <4>1. Good(x) /\ x.iface = [idx.iface EXCEPT ![p] = None]
        BY <1>0, <3>2, RemovedKeeps
      <4> QED
        BY <1>0, <4>1
    <3>3. CASE x = idx
      BY <1>0, <3>3
    <3> QED
      BY <2>1, <3>1, <3>2, <3>3
  <2>3. idx'.iface = x.iface
    BY <2>1, <2>2, RepublishIface
  <2>4. buffer' = [buffer EXCEPT ![p] = None] /\ reopening' = reopening
    BY <1>3 DEF Close
  <2> QED
    BY <1>0, <2>2, <2>3, <2>4 DEF OpenIndexed, Open
<1>4. ASSUME NEW p \in Paths, FileRemoved(p)
      PROVE  OpenIndexed'
  <2>1. Republish(OnFileRemoved(idx, p), Forget(p), shown, {}, Open)
    BY <1>4 DEF FileRemoved
  <2>2. idx'.iface = [idx.iface EXCEPT ![p] = None]
    <3> DEFINE x == OnFileRemoved(idx, p)
    <3>1. Good(x) /\ x.iface = [idx.iface EXCEPT ![p] = None]
      BY <1>0, RemovedKeeps
    <3>2. idx'.iface = x.iface
      BY <2>1, <3>1, RepublishIface
    <3> QED
      BY <3>1, <3>2
  <2>3. buffer' = buffer /\ p \notin Open /\ reopening' = reopening
    BY <1>4 DEF FileRemoved
  <2> QED
    BY <1>0, <2>2, <2>3 DEF OpenIndexed, Open
<1>5. ASSUME NEW p \in Paths, Reopen(p)
      PROVE  OpenIndexed'
  <2>1. buffer[p] \in Texts /\ idx' = OnFileChanged(idx, p, buffer[p])
    BY <1>0, <1>5 DEF Reopen, Open
  <2>2. idx'.iface[p] = buffer[p] /\ \A q \in Paths \ {p} : idx'.iface[q] = idx.iface[q]
    BY <1>0, <2>1, ChangedIface
  <2>3. buffer' = buffer /\ reopening' = reopening \ {p}
    BY <1>5 DEF Reopen
  <2> QED
    BY <1>0, <2>2, <2>3 DEF OpenIndexed, Open
<1>6. ASSUME NEW u \in Uids, NEW p \in Paths \cup {None}, UidChanged(u, p)
      PROVE  OpenIndexed'
  <2> DEFINE m == [idx.uids EXCEPT ![u] = p]
  <2>1. m \in [Uids -> Paths \cup {None}]
    BY <1>0, ReplaceUid DEF Good, Sound
  <2>2. Republish(SetUids(idx, m), cache, shown, {}, Open)
    BY <1>6 DEF UidChanged
  <2>3. buffer' = buffer /\ reopening' = reopening
    BY <1>6 DEF UidChanged
  <2> HIDE DEF m
  <2>4. idx'.iface = idx.iface
    BY <1>0, <2>1, <2>2, UidsKeep, RepublishIface
  <2> QED
    BY <1>0, <2>3, <2>4 DEF OpenIndexed, Open
<1>7. ASSUME NEW s \in Settings, NEW m \in UidMaps, Reload(s, m)
      PROVE  OpenIndexed'
  <2>1. idx'.iface = idx.iface
    BY <1>0, <1>7, UidMapsAreMaps, UidsKeep DEF Reload
  <2>2. buffer' = buffer /\ reopening' = reopening
    BY <1>7 DEF Reload
  <2> QED
    BY <1>0, <2>1, <2>2 DEF OpenIndexed, Open
<1>8. ASSUME NEW s \in Settings, NEW files \in Projects, NEW m \in UidMaps,
             ChangeDialect(s, files, m)
      PROVE  OpenIndexed'
  BY <1>8 DEF ChangeDialect, OpenIndexed, Open
<1>9. CASE idx' = idx /\ buffer' = buffer /\ reopening' = reopening
  BY <1>0, <1>9 DEF OpenIndexed, Open
<1>10. ASSUME NEW p \in Paths, Pull(p) \/ Analyze(p) PROVE OpenIndexed'
  BY <1>9, <1>10 DEF Pull, Analyze
<1>11. ASSUME NEW S \in SUBSET Paths, React(S) PROVE OpenIndexed'
  BY <1>9, <1>11 DEF React
<1>12. CASE UNCHANGED vars
  BY <1>9, <1>12 DEF vars
<1> QED
  BY <1>1, <1>2, <1>3, <1>4, <1>5, <1>6, <1>7, <1>8, <1>10, <1>11, <1>12 DEF Next
-----------------------------------------------------------------------------
(* TypeOK: every variable keeps its type, what is open is indexed as the   *)
(* buffer has it, and the client holds reports of open buffers only.       *)
THEOREM TypesHold == Spec => []TypeOK
<1> DEFINE Inv == IndexInv /\ CountInv /\ ClosedUnheld /\ OpenIndexed
<1>1. Init => Inv
  BY IndexInit, CountInit, ClosedUnheldInit, OpenIndexedInit
<1>2. Inv /\ [Next]_vars => Inv'
  BY IndexNext, CountNext, ClosedUnheldNext, OpenIndexedNext
<1>3. Inv => TypeOK
  <2> SUFFICES ASSUME Inv PROVE TypeOK
    OBVIOUS
  <2>1. idx \in Index
    BY DEF IndexInv, Good, Sound
  <2>2. Counts
    <3>1. idx.epochs \in [Paths -> Nat]
      BY <2>1, IndexFields
    <3>2. generation \in 0..MaxOps
      BY AnalysisConstants DEF AnalysisConstants, CountInv
    <3> QED
      BY <3>1, <3>2 DEF Counts, CountInv
  <2> QED
    BY <2>1, <2>2 DEF TypeOK, IndexInv, CountInv, ClosedUnheld, OpenIndexed
<1> QED
  BY <1>1, <1>2, <1>3, PTL DEF Spec

(* IndexExact: whatever was edited, removed, renamed or given another uid, *)
(* the incrementally kept index is verified, and is what a cold build of   *)
(* the same files would give.                                              *)
THEOREM IndexStaysExact == Spec => []IndexExact
<1>1. IndexInv => IndexExact
  BY GoodIsExact DEF IndexInv, IndexExact
<1> QED
  BY <1>1, IndexInit, IndexNext, PTL DEF Spec

-----------------------------------------------------------------------------
(***************************************************************************)
(* What an analysis reads: a file whose epoch an operation leaves alone    *)
(* would be analysed to the same result after it, so that a cache hit, a   *)
(* report answered unchanged and the report a client holds are all fresh.  *)
(***************************************************************************)


(* K is a set of files an operation from x to y may change for those that  *)
(* read them.  Outside K an interface, the owners of the names and the     *)
(* files of the literals it exposes stay, and none of these lies in K.     *)
Steady(x, y, h) ==
  /\ h \in Live(y) /\ Unit[y.iface[h]].sig = Unit[x.iface[h]].sig
  /\ \A n \in ShownNames(x, h) : Owner(y, n) = Owner(x, n)
  /\ \A l \in ExposedOf(x, h) :
       l \notin Uids /\ Resolve(x, l) # None => Resolve(y, l) = Resolve(x, l)
Apart(x, h, K) == /\ \A n \in ShownNames(x, h) : Owner(x, n) \notin K
                  /\ \A l \in ExposedOf(x, h) : Resolve(x, l) \notin K
Fenced(x, y, K) == /\ K \subseteq Paths
                   /\ \A h \in Live(x) \ K : Steady(x, y, h) /\ Apart(x, h, K)

(* A file the operation did not mark reads outside K only.                 *)
Unmoved(x, y, f, K) ==
  /\ f \in Live(x) \ K /\ y.iface[f] = x.iface[f]
  /\ \A n \in BodyOf(x, f) : Owner(y, n) = Owner(x, n) /\ Owner(x, n) \notin K
  /\ \A l \in LiteralsOf(x, f) : Resolve(y, l) = Resolve(x, l) /\ Resolve(x, l) \notin K
Tracks(x, y, K) ==
  /\ Fenced(x, y, K)
  /\ \A f \in Live(y) : y.epochs[f] = x.epochs[f] => Unmoved(x, y, f, K)
-----------------------------------------------------------------------------
(* A name or literal the epochs track.                                     *)
TrackedName(x, n) == Autoload[n] = None \/ ReadName(x, n) \notin {None, Autoload[n]}
TrackedLiteral(x, l) == l \notin Uids /\ Resolve(x, l) # None
TrackedAt(x, f, g) ==
  /\ \A n \in ReadNames(x, f, g) : TrackedName(x, n)
  /\ g # f => \A l \in ExposedOf(x, g) : TrackedLiteral(x, l)

LEMMA TrackedMeans ==
  ASSUME NEW x, NEW f, ~ Untracked(View(x, f), f), NEW g \in Reached(x, f)
  PROVE  TrackedAt(x, f, g)
<1> DEFINE view == View(x, f)
<1>1. DOMAIN view = Reached(x, f)
  BY DEF View
<1>2. /\ view[g].names = [n \in ReadNames(x, f, g) |-> ReadName(x, n)]
      /\ view[g].literals = [l \in ReadLiterals(x, f, g) |-> Resolve(x, l)]
  BY DEF View
<1> HIDE DEF view
<1>3. ASSUME NEW n \in ReadNames(x, f, g) PROVE TrackedName(x, n)
  <2>1. n \in DOMAIN view[g].names /\ view[g].names[n] = ReadName(x, n)
    BY <1>2
  <2>2. ~ (Autoload[n] # None /\ view[g].names[n] \in {None, Autoload[n]})
    BY <1>1, <2>1 DEF Untracked, view
  <2> QED
    BY <2>1, <2>2 DEF TrackedName
<1>4. ASSUME g # f, NEW l \in ExposedOf(x, g) PROVE TrackedLiteral(x, l)
  <2>1. l \in DOMAIN view[g].literals /\ view[g].literals[l] = Resolve(x, l)
    BY <1>2, <1>4 DEF ReadLiterals
  <2>2. ~ (l \in Uids \/ view[g].literals[l] = None)
    BY <1>1, <1>4, <2>1 DEF Untracked, view
  <2> QED
    BY <2>1, <2>2 DEF TrackedLiteral
<1> QED
  BY <1>3, <1>4 DEF TrackedAt

LEMMA TrackedNameReads ==
  ASSUME NEW x, NEW y, NEW n, TrackedName(x, n), Owner(y, n) = Owner(x, n)
  PROVE  ReadName(y, n) = ReadName(x, n) /\ ReadName(x, n) = Owner(x, n)
BY DEF TrackedName, ReadName

(* A name leads to a live file or nowhere.                                 *)
LEMMA ReadIsLive ==
  ASSUME NEW x, Sound(x), NEW n \in Names, ReadName(x, n) # None
  PROVE  ReadName(x, n) \in Live(x)
<1>1. CASE Owner(x, n) # None
  <2>1. x \in Index
    BY DEF Sound
  <2>2. Owner(x, n) \in Paths /\ x.declared[Owner(x, n)] = n
    BY <1>1, <2>1, OwnerDeclares
  <2> QED
    BY <1>1, <2>2, NoneApart, DeadIsClean DEF ReadName
<1>2. CASE Owner(x, n) = None
  <2>1. Autoload[n] \in Paths \cup {None}
    BY IndexConstants DEF IndexConstants
  <2> QED
    BY <1>2, <2>1 DEF ReadName, Live
<1> QED
  BY <1>1, <1>2

LEMMA ResolveIsLive ==
  ASSUME NEW x, Sound(x), NEW h \in Paths, NEW l \in LiteralsOf(x, h), Resolve(x, l) # None
  PROVE  Resolve(x, l) \in Live(x)
<1>1. x \in Index
  BY DEF Sound
<1>2. Deref(x, l) \in Paths \cup {None}
  BY <1>1, ReferenceTypes, IndexFields DEF Deref
<1> QED
  BY <1>2 DEF Resolve, Live

LEMMA LeadsToLive ==
  ASSUME NEW x, Sound(x), NEW f, NEW h \in Paths
  PROVE  Leads(x, f, h) \subseteq Live(x)
<1>1. ReadNames(x, f, h) \subseteq Names
  <2>1. x \in Index
    BY DEF Sound
  <2> QED
    BY <2>1, ReferenceTypes, ExposedIsReferred DEF ReadNames
<1>2. \A n \in ReadNames(x, f, h) : ReadName(x, n) # None => ReadName(x, n) \in Live(x)
  BY <1>1, ReadIsLive
<1>3. \A l \in ReadLiterals(x, f, h) : Resolve(x, l) # None => Resolve(x, l) \in Live(x)
  BY ResolveIsLive, ExposedIsReferred DEF ReadLiterals
<1> QED
  BY <1>2, <1>3 DEF Leads

(* Reached is the least set that holds f and is closed under Leads.        *)
LEMMA ReachedLeast ==
  ASSUME NEW x, NEW f, NEW S \in SUBSET Paths, f \in S,
         \A h \in S : Leads(x, f, h) \subseteq S
  PROVE  Reached(x, f) \subseteq S
BY DEF Reached

LEMMA ReachedClosed ==
  ASSUME NEW x, Sound(x), NEW f \in Paths
  PROVE  /\ f \in Reached(x, f) /\ Reached(x, f) \subseteq Paths
         /\ \A h \in Reached(x, f) : Leads(x, f, h) \subseteq Reached(x, f)
<1>1. f \in Reached(x, f) /\ Reached(x, f) \subseteq Paths
  BY DEF Reached
<1>2. ASSUME NEW h \in Reached(x, f), NEW g \in Leads(x, f, h)
      PROVE  g \in Reached(x, f)
  <2>1. h \in Paths
    BY <1>1
  <2>2. g \in Paths
    BY <2>1, LeadsToLive DEF Live
  <2>3. ASSUME NEW S \in SUBSET Paths, f \in S, \A k \in S : Leads(x, f, k) \subseteq S
        PROVE  g \in S
    BY <2>3, ReachedLeast
  <2> QED
    BY <2>2, <2>3 DEF Reached
<1> QED
  BY <1>1, <1>2

LEMMA ReachedIsLive ==
  ASSUME NEW x, Sound(x), NEW f \in Live(x)
  PROVE  Reached(x, f) \subseteq Live(x)
<1>1. Live(x) \in SUBSET Paths
  BY DEF Live
<1>2. \A h \in Live(x) : Leads(x, f, h) \subseteq Live(x)
  BY <1>1, LeadsToLive
<1> QED
  BY <1>1, <1>2, ReachedLeast

(* The files h reads for an analysis of f, and what it finds there.        *)
Alike(x, y, f, h) ==
  /\ Unit[y.iface[h]].sig = Unit[x.iface[h]].sig
  /\ ReadNames(y, f, h) = ReadNames(x, f, h)
  /\ \A n \in ReadNames(x, f, h) : ReadName(y, n) = ReadName(x, n)
  /\ ReadLiterals(y, f, h) = ReadLiterals(x, f, h)
  /\ \A l \in ReadLiterals(x, f, h) : Resolve(y, l) = Resolve(x, l)

LEMMA AlikeLeads ==
  ASSUME NEW x, NEW y, NEW f, NEW h, Alike(x, y, f, h)
  PROVE  Leads(y, f, h) = Leads(x, f, h)
<1>1. {ReadName(y, n) : n \in ReadNames(y, f, h)} = {ReadName(x, n) : n \in ReadNames(x, f, h)}
  BY DEF Alike
<1>2. {Resolve(y, l) : l \in ReadLiterals(y, f, h)}
      = {Resolve(x, l) : l \in ReadLiterals(x, f, h)}
  BY DEF Alike
<1> QED
  BY <1>1, <1>2 DEF Leads

LEMMA AlikeViews ==
  ASSUME NEW x, NEW y, Sound(x), Sound(y), NEW f \in Paths,
         \A h \in Reached(x, f) : Alike(x, y, f, h)
  PROVE  View(y, f) = View(x, f)
<1> DEFINE R == Reached(x, f)
           Q == Reached(y, f)
<1>1. f \in R /\ R \in SUBSET Paths /\ \A h \in R : Leads(x, f, h) \subseteq R
  BY ReachedClosed
<1>2. f \in Q /\ Q \in SUBSET Paths /\ \A h \in Q : Leads(y, f, h) \subseteq Q
  BY ReachedClosed
<1>3. \A h \in R : Leads(y, f, h) = Leads(x, f, h)
  BY AlikeLeads
<1>4. Q \subseteq R
  BY <1>1, <1>3, ReachedLeast
<1>5. \A h \in Q : Leads(x, f, h) \subseteq Q
  BY <1>2, <1>3, <1>4
<1>6. R \subseteq Q
  BY <1>2, <1>5, ReachedLeast
<1>7. Q = R
  BY <1>4, <1>6
<1>8. ASSUME NEW g \in R
      PROVE  [sig      |-> Unit[y.iface[g]].sig,
              names    |-> [n \in ReadNames(y, f, g) |-> ReadName(y, n)],
              literals |-> [l \in ReadLiterals(y, f, g) |-> Resolve(y, l)]]
             = [sig      |-> Unit[x.iface[g]].sig,
                names    |-> [n \in ReadNames(x, f, g) |-> ReadName(x, n)],
                literals |-> [l \in ReadLiterals(x, f, g) |-> Resolve(x, l)]]
  <2>1. Alike(x, y, f, g)
    BY <1>8
  <2>2. [n \in ReadNames(y, f, g) |-> ReadName(y, n)]
        = [n \in ReadNames(x, f, g) |-> ReadName(x, n)]
    BY <2>1 DEF Alike
  <2>3. [l \in ReadLiterals(y, f, g) |-> Resolve(y, l)]
        = [l \in ReadLiterals(x, f, g) |-> Resolve(x, l)]
    BY <2>1 DEF Alike
  <2> QED
    BY <2>1, <2>2, <2>3 DEF Alike
<1> QED
  BY <1>7, <1>8 DEF View

(* An operation that tracks its changes leaves the view of a file it did   *)
(* not mark.                                                               *)
LEMMA ViewKept ==
  ASSUME NEW x, NEW y, Sound(x), Sound(y), NEW K, Fenced(x, y, K),
         NEW f \in Live(y), Unmoved(x, y, f, K), ~ Untracked(View(x, f), f)
  PROVE  View(y, f) = View(x, f)
<1> DEFINE R == Reached(x, f)
           S == R \ K
<1>1. f \in Live(x) /\ f \in Paths /\ f \notin K
  BY DEF Unmoved, Live
<1>2. f \in R /\ R \subseteq Live(x) /\ R \in SUBSET Paths
      /\ \A h \in R : Leads(x, f, h) \subseteq R
  BY <1>1, ReachedClosed, ReachedIsLive
<1>3. ASSUME NEW h \in S
      PROVE  /\ Leads(x, f, h) \cap K = {}
             /\ Alike(x, y, f, h)
  <2>1. h \in R /\ h \in Live(x) \ K /\ h \in Paths
    BY <1>2
  <2>2. Steady(x, y, h) /\ Apart(x, h, K) /\ TrackedAt(x, f, h) /\ K \subseteq Paths
    BY <2>1, TrackedMeans DEF Fenced
  <2>3. x.iface[h] \in Texts /\ y.iface[h] \in Texts
    BY <2>1, <2>2, IndexFields DEF Steady, Live, Sound
  <2>4. ShownNames(y, h) = ShownNames(x, h) /\ ExposedOf(y, h) = ExposedOf(x, h)
    BY <2>2, <2>3, SameSignature, NoneApart DEF Steady, ShownNames, ExposedOf
  <2>5. /\ NamesOf(y, f) = NamesOf(x, f) /\ BodyOf(y, f) = BodyOf(x, f)
        /\ LiteralsOf(y, f) = LiteralsOf(x, f)
    BY DEF Unmoved, NamesOf, BodyOf, LiteralsOf
  <2>6. ReadNames(y, f, h) = ReadNames(x, f, h) /\ ReadLiterals(y, f, h) = ReadLiterals(x, f, h)
    BY <2>4, <2>5 DEF ReadNames, ReadLiterals
  <2>7. ASSUME NEW n \in ReadNames(x, f, h)
        PROVE  ReadName(y, n) = ReadName(x, n) /\ ReadName(x, n) \notin K
    <3>1. Owner(y, n) = Owner(x, n) /\ Owner(x, n) \notin K
      BY <2>2, <2>7, ExposedIsReferred DEF ReadNames, Steady, Apart, Unmoved
    <3>2. TrackedName(x, n)
      BY <2>2, <2>7 DEF TrackedAt
    <3> QED
      BY <3>1, <3>2, TrackedNameReads
  <2>8. ASSUME NEW l \in ReadLiterals(x, f, h)
        PROVE  Resolve(y, l) = Resolve(x, l) /\ Resolve(x, l) \notin K
    <3>1. CASE h = f
      BY <2>8, <3>1 DEF ReadLiterals, Unmoved
    <3>2. CASE h # f
      BY <2>2, <2>8, <3>2 DEF ReadLiterals, TrackedAt, TrackedLiteral, Steady, Apart
    <3> QED
      BY <3>1, <3>2
  <2>9. Leads(x, f, h) \cap K = {}
    BY <2>7, <2>8 DEF Leads
  <2> QED
    BY <2>2, <2>4, <2>6, <2>7, <2>8, <2>9 DEF Alike, Steady
<1>4. S \in SUBSET Paths /\ f \in S /\ \A h \in S : Leads(x, f, h) \subseteq S
  BY <1>1, <1>2, <1>3
<1>5. R \subseteq S
  BY <1>4, ReachedLeast
<1>6. \A h \in R : Alike(x, y, f, h)
  BY <1>3, <1>5
<1> QED
  BY <1>1, <1>6, AlikeViews
-----------------------------------------------------------------------------
(* The uid map                                                             *)

LEMMA UidsTrack ==
  ASSUME NEW x, Good(x), NEW m \in [Uids -> Paths \cup {None}]
  PROVE  Tracks(x, SetUids(x, m), {})
<1> DEFINE y == SetUids(x, m)
           U == {u \in Uids : x.uids[u] # m[u]}
           set == UidsSet(x, m)
<1>1. /\ Good(y) /\ y.uids = m /\ y.iface = x.iface /\ y.declared = x.declared
      /\ Marked(x, y, MovedUids(x, m))
  BY UidsKeep
<1>2. \A n : Owner(y, n) = Owner(x, n)
  BY <1>1, DeclaredDecides
<1>3. Live(y) = Live(x)
  BY <1>1 DEF Live
<1>4. \A l : l \notin Uids => Resolve(y, l) = Resolve(x, l)
  BY <1>1 DEF Resolve, Deref
<1>5. Fenced(x, y, {})
  <2>1. ASSUME NEW h \in Live(x) PROVE Steady(x, y, h) /\ Apart(x, h, {})
    BY <1>1, <1>2, <1>3, <1>4 DEF Steady, Apart
  <2> QED
    BY <2>1 DEF Fenced
<1>6. ASSUME NEW f \in Live(y), y.epochs[f] = x.epochs[f]
      PROVE  Unmoved(x, y, f, {})
  <2>1. f \in Paths /\ f \in Live(x) /\ Tabled(x, f)
    BY <1>3 DEF Live, Good, TabledBut
  <2>2. x.epochs[f] \in Nat /\ x.uidRefs \in Table(Uids) /\ Mirrored(x.uidRefs)
    BY <2>1, IndexFields DEF Good, Sound, Verified
  <2>3. f \notin MovedUids(x, m)
    BY <1>1, <1>6, <2>1, <2>2 DEF Marked
  <2>4. ASSUME NEW l \in LiteralsOf(x, f) PROVE Resolve(y, l) = Resolve(x, l)
    <3>1. CASE l \in Uids
      <4>1. f \in x.uidRefs.at[l]
        BY <2>1, <2>2, <2>4, <3>1 DEF Tabled, Table, Mirrored
      <4>2. set.uidRefs = x.uidRefs
        BY UidsSetKeeps DEF Good, UidMapSet, SameTables
      <4>3. x.uids[l] = m[l]
        BY <2>3, <3>1, <4>1, <4>2 DEF MovedUids, UidReferencers
      <4> QED
        BY <1>1, <3>1, <4>3 DEF Resolve, Deref
    <3>2. CASE l \notin Uids
      BY <1>4, <3>2
    <3> QED
      BY <3>1, <3>2
  <2> QED
    BY <1>1, <1>2, <2>1, <2>4 DEF Unmoved
<1> QED
  BY <1>5, <1>6 DEF Tracks
-----------------------------------------------------------------------------
(* A file removed                                                          *)

(* Reverse edges close a set of files into one no outsider has an edge to. *)
LEMMA OutsideClosure ==
  ASSUME NEW x, Sound(x), NEW q \in Paths, NEW h \in Paths \ {q},
         h \notin ReverseClosure(x, q), NEW g \in x.deps.of[h]
  PROVE  g # q /\ g \notin ReverseClosure(x, q)
<1>1. x.deps \in Table(Paths) /\ Mirrored(x.deps)
  BY IndexFields DEF Sound, Verified
<1>2. g \in Paths /\ h \in x.deps.at[g]
  BY <1>1 DEF Table, Mirrored
<1> QED
  BY <1>2, ClosureClosed

(* The files the steps of relink_referencers mark.                         *)
Spreading(x, F) == F \cup (UNION {ReverseClosure(x, q) : q \in F})

LEMMA OutsideSpreading ==
  ASSUME NEW x, Sound(x), NEW F \in SUBSET Paths, NEW h \in Paths,
         h \notin Spreading(x, F), NEW g \in x.deps.of[h]
  PROVE  g \notin Spreading(x, F)
<1>1. \A q \in F : h # q /\ h \notin ReverseClosure(x, q)
  BY DEF Spreading
<1>2. \A q \in F : g # q /\ g \notin ReverseClosure(x, q)
  BY <1>1, OutsideClosure
<1> QED
  BY <1>2 DEF Spreading

LEMMA SpreadingMarked ==
  ASSUME NEW x, NEW y, NEW z, NEW F, \A q \in F : q \in Paths, F # {} => Marked(x, y, F),
         \A q \in F : Marked(x, y, ReverseClosure(z, q)),
         NEW h \in Spreading(z, F)
  PROVE  y.epochs[h] > x.epochs[h]
<1>1. CASE h \in F
  BY <1>1 DEF Marked
<1>2. CASE h \notin F
  <2>1. PICK q \in F : h \in ReverseClosure(z, q)
    BY <1>2 DEF Spreading
  <2> QED
    BY <2>1 DEF Marked
<1> QED
  BY <1>1, <1>2

LEMMA SpreadingPaths ==
  ASSUME NEW x, NEW F \in SUBSET Paths
  PROVE  Spreading(x, F) \subseteq Paths
BY DEF Spreading, ReverseClosure

(* An edge by an interface or a body is in the table of a linked file.     *)
LEMMA EdgeIn ==
  ASSUME NEW x, NEW h, Tabled(x, h)
  PROVE  /\ \A n \in NamesOf(x, h) \cup BodyOf(x, h) :
              Owner(x, n) \in {None, h} \/ Owner(x, n) \in x.deps.of[h]
         /\ \A l \in LiteralsOf(x, h) :
              Resolve(x, l) \in {None, h} \/ Resolve(x, l) \in x.deps.of[h]
BY DEF Tabled, Edges

(* The files that name what p declared, and what on_file_removed may       *)
(* change for others.                                                      *)
Orphans(x, p) == Referencers(Gone(x, p), Moved(x, Undeclared(x, p)))
RemovedReach(x, p) == {p} \cup ReverseClosure(x, p)
                      \cup Spreading(Relink(Gone(x, p), Orphans(x, p)), Orphans(x, p))

LEMMA RemovedMarks ==
  ASSUME NEW x, Good(x), NEW p \in Paths
  PROVE  /\ Orphans(x, p) \in SUBSET Paths
         /\ Sound(Relink(Gone(x, p), Orphans(x, p)))
         /\ \A h \in RemovedReach(x, p) \ {p} : OnFileRemoved(x, p).epochs[h] > x.epochs[h]
<1> DEFINE d == Gone(x, p)
           N == Moved(x, Undeclared(x, p))
           F == Orphans(x, p)
           lk == Relink(d, F)
           z == OnFileRemoved(x, p)
<1>1. Sound(x) /\ TabledBut(x, {})
  BY DEF Good
<1>2. Removes(x, p, d)
  BY <1>1, GoneRemoves
<1>3. Sound(d) /\ N \in SUBSET Names /\ z = RelinkNames(d, N) /\ F = Referencers(d, N)
  BY <1>2, RemovedInSteps DEF Moved, Gone, Removes, Orphans
<1>4. TabledBut(d, F)
  BY <1>2, <1>3, DetachFrame DEF TabledBut, Removes
<1>5. Marked(d, z, F) /\ \A q \in F : Marked(d, z, ReverseClosure(lk, q))
  <2>1. /\ Marked(d, RelinkNames(d, N), Referencers(d, N))
        /\ \A q \in Referencers(d, N) :
             Marked(d, RelinkNames(d, N), ReverseClosure(Relink(d, Referencers(d, N)), q))
    BY <1>3, <1>4, RelinkNamesLinks
  <2> QED
    BY <1>3, <2>1
<1>6. F \in SUBSET Live(d)
  BY <1>3, ReferencersAreLive
<1>7. F \in SUBSET Paths /\ Sound(lk)
  BY <1>3, <1>6, RelinkLinks DEF Live
<1>8. /\ \A h \in Paths : x.epochs[h] \in Nat
      /\ \A h \in Paths : d.epochs[h] \in Nat /\ d.epochs[h] >= x.epochs[h]
      /\ \A h \in Paths : z.epochs[h] \in Nat /\ z.epochs[h] >= d.epochs[h]
  BY <1>1, <1>2, <1>5, IndexFields DEF Sound, Marked, Removes
<1>9. ASSUME NEW h \in Spreading(lk, F)
      PROVE  z.epochs[h] > x.epochs[h]
  <2>1. h \in Paths
    BY <1>7, SpreadingPaths
  <2>2. z.epochs[h] > d.epochs[h]
    BY <1>5, <1>7, SpreadingMarked
  <2> QED
    BY <1>8, <2>1, <2>2
<1>10. ASSUME NEW h \in ReverseClosure(x, p)
       PROVE  z.epochs[h] > x.epochs[h]
  <2>1. h \in Paths /\ d.epochs[h] > x.epochs[h]
    BY <1>2 DEF ReverseClosure, Removes, Marked
  <2> QED
    BY <1>8, <2>1
<1> QED
  BY <1>7, <1>9, <1>10 DEF RemovedReach

LEMMA RemovedOutside ==
  ASSUME NEW x, Good(x), NEW p \in Paths, NEW h \in Live(x), h \notin RemovedReach(x, p),
         NEW g \in x.deps.of[h]
  PROVE  g \notin RemovedReach(x, p)
<1> DEFINE d == Gone(x, p)
           F == Orphans(x, p)
           lk == Relink(d, F)
<1>1. Sound(x) /\ h \in Paths /\ h # p /\ h \notin F
  BY DEF Good, Live, RemovedReach, Spreading
<1>2. Removes(x, p, d)
  BY <1>1, GoneRemoves
<1>3. g # p /\ g \notin ReverseClosure(x, p)
  BY <1>1, OutsideClosure DEF RemovedReach
<1>4. F \in SUBSET Paths /\ Sound(lk) /\ F \in SUBSET Live(d) /\ Sound(d)
  BY <1>2, RemovedMarks, ReferencersAreLive DEF Removes, Orphans, Moved
<1>5. g \in lk.deps.of[h]
  <2>1. g \in d.deps.of[h]
    BY <1>1, <1>2, <1>3 DEF Removes
  <2>2. lk.deps.of[h] = d.deps.of[h]
    BY <1>1, <1>4, RelinkLinks
  <2> QED
    BY <2>1, <2>2
<1>6. g \notin Spreading(lk, F)
  BY <1>1, <1>4, <1>5, OutsideSpreading DEF RemovedReach
<1> QED
  BY <1>3, <1>6 DEF RemovedReach

LEMMA RemovedTracks ==
  ASSUME NEW x, Good(x), NEW p \in Paths
  PROVE  Tracks(x, OnFileRemoved(x, p), RemovedReach(x, p))
<1> DEFINE d == Gone(x, p)
           N == Moved(x, Undeclared(x, p))
           F == Orphans(x, p)
           K == RemovedReach(x, p)
           z == OnFileRemoved(x, p)
<1>1. Sound(x) /\ TabledBut(x, {}) /\ x \in Index
  BY DEF Good, Sound
<1>2. Removes(x, p, d)
  BY <1>1, GoneRemoves
<1>3. /\ z.iface = [x.iface EXCEPT ![p] = None] /\ z.uids = x.uids
      /\ z.declared = [x.declared EXCEPT ![p] = None]
  BY RemovedKeeps
<1>4. Undeclared(x, p).declared = z.declared
  BY <1>1, <1>3, UndeclaredIsSound
<1>5. \A n \in Names : n \notin N => Owner(z, n) = Owner(x, n)
  BY <1>4, DeclaredDecides DEF Moved
<1>6. K \subseteq Paths /\ p \in K
  BY <1>1, RemovedMarks, SpreadingPaths DEF RemovedReach, ReverseClosure
<1>7. ASSUME NEW h \in Live(x) \ K
      PROVE  /\ z.iface[h] = x.iface[h] /\ h \in Live(z)
             /\ \A n \in NamesOf(x, h) \cup BodyOf(x, h) :
                  Owner(z, n) = Owner(x, n) /\ Owner(x, n) \notin K
             /\ \A l \in LiteralsOf(x, h) :
                  Resolve(z, l) = Resolve(x, l) /\ Resolve(x, l) \notin K
  <2>1. h \in Paths /\ h # p /\ Tabled(x, h) /\ h \notin F
    BY <1>1, <1>6 DEF Live, TabledBut, RemovedReach, Spreading
  <2>2. z.iface[h] = x.iface[h] /\ h \in Live(z)
    BY <1>1, <1>3, <2>1, IndexFields DEF Live
  <2>3. \A g \in x.deps.of[h] : g \notin K
    BY <1>7, RemovedOutside
  <2>4. ASSUME NEW n \in NamesOf(x, h) \cup BodyOf(x, h)
        PROVE  Owner(z, n) = Owner(x, n) /\ Owner(x, n) \notin K
    <3>1. n \in Names
      BY <1>1, <2>1, ReferenceTypes
    <3>2. Owner(x, n) \in {None, h} \/ Owner(x, n) \in x.deps.of[h]
      BY <2>1, EdgeIn
    <3>3. Owner(x, n) \notin K
      BY <1>6, <1>7, <2>3, <3>2, NoneApart
    <3>4. n \notin N
      <4> SUFFICES ASSUME n \in N PROVE h \in F
        BY <2>1
      <4>1. CASE n \in NamesOf(x, h)
        <5>1. d.names \in Table(Names) /\ Mirrored(d.names) /\ n \in d.names.of[h]
          BY <1>2, <2>1, <4>1, IndexFields DEF Removes, Sound, Verified, Tabled
        <5>2. h \in d.names.at[n]
          BY <2>1, <3>1, <5>1 DEF Table, Mirrored
        <5> QED
          BY <5>2 DEF Orphans, Referencers
      <4>2. CASE n \in BodyOf(x, h)
        <5>1. d.iface[h] = x.iface[h]
          BY <1>1, <1>2, <2>1, IndexFields DEF Removes
        <5>2. BodyOf(d, h) \cap N # {}
          BY <4>2, <5>1 DEF BodyOf
        <5> QED
          BY <2>1, <5>2 DEF Orphans, Referencers
      <4> QED
        BY <4>1, <4>2
    <3> QED
      BY <1>5, <3>1, <3>3, <3>4
  <2>5. ASSUME NEW l \in LiteralsOf(x, h)
        PROVE  Resolve(z, l) = Resolve(x, l) /\ Resolve(x, l) \notin K
    <3>1. Resolve(x, l) \in {None, h} \/ Resolve(x, l) \in x.deps.of[h]
      BY <2>1, EdgeIn
    <3>2. Resolve(x, l) \notin K
      BY <1>6, <1>7, <2>3, <3>1, NoneApart
    <3>3. Deref(z, l) = Deref(x, l) /\ Deref(x, l) \in Paths \cup {None}
      BY <1>1, <1>3, <2>1, ReferenceTypes, IndexFields DEF Deref
    <3>4. CASE Deref(x, l) = None
      BY <3>2, <3>3, <3>4 DEF Resolve
    <3>5. CASE Deref(x, l) = p
      <4>1. x.iface[p] = None
        BY <1>6, <3>2, <3>5, NoneApart DEF Resolve
      <4>2. z.iface[p] = None
        BY <1>1, <1>3, IndexFields
      <4> QED
        BY <3>2, <3>3, <3>5, <4>1, <4>2 DEF Resolve
    <3>6. CASE Deref(x, l) \in Paths \ {p}
      <4>1. z.iface[Deref(x, l)] = x.iface[Deref(x, l)]
        BY <1>1, <1>3, <3>6, IndexFields
      <4> QED
        BY <3>2, <3>3, <4>1 DEF Resolve
    <3> QED
      BY <3>3, <3>4, <3>5, <3>6
  <2> QED
    BY <2>2, <2>4, <2>5
<1>8. Fenced(x, z, K)
  <2>1. ASSUME NEW h \in Live(x) \ K PROVE Steady(x, z, h) /\ Apart(x, h, K)
    BY <1>7, ExposedIsReferred DEF Steady, Apart
  <2> QED
    BY <1>6, <2>1 DEF Fenced
<1>9. ASSUME NEW f \in Live(z), z.epochs[f] = x.epochs[f]
      PROVE  Unmoved(x, z, f, K)
  <2>1. f \in Paths /\ f # p /\ f \in Live(x)
    BY <1>1, <1>3, IndexFields DEF Live
  <2>2. x.epochs[f] \in Nat
    BY <1>1, <2>1, IndexFields
  <2>3. f \notin K
    <3>1. \A h \in K \ {p} : z.epochs[h] > x.epochs[h]
      BY RemovedMarks
    <3> QED
      BY <1>9, <2>1, <2>2, <3>1
  <2> QED
    BY <1>7, <2>1, <2>3 DEF Unmoved
<1> QED
  BY <1>8, <1>9 DEF Tracks
-----------------------------------------------------------------------------
(* A file changed                                                          *)

Renaming(x, p, t) == Referencers(Spread(x, p, t), Renamed(x, p, t))
Relinked(x, p, t) == Relink(Spread(x, p, t), Renaming(x, p, t))
ChangedReach(x, p, t) ==
  Spreading(Relinked(x, p, t), Renaming(x, p, t))
  \cup (IF SameSig(x, p, t) THEN {} ELSE {p} \cup ReverseClosure(Own(x, p, t), p))

LEMMA ChangedMarks ==
  ASSUME NEW x, Good(x), NEW p \in Paths, NEW t \in Texts
  PROVE  /\ Renaming(x, p, t) \in SUBSET Live(Spread(x, p, t))
         /\ Sound(Relinked(x, p, t))
         /\ \A h \in ChangedReach(x, p, t) \cup {p} :
              h \in Paths /\ OnFileChanged(x, p, t).epochs[h] > x.epochs[h]
         /\ \A h \in Paths \ Renaming(x, p, t) : OfSame(Spread(x, p, t), Named(x, p, t), h)
         /\ x.iface[p] = None => \A h \in Named(x, p, t).targets.at[p] :
              h \in Paths => OnFileChanged(x, p, t).epochs[h] > x.epochs[h]
<1> DEFINE own == Own(x, p, t)
           C == ReverseClosure(own, p)
           spread == Spread(x, p, t)
           N == Renamed(x, p, t)
           F == Renaming(x, p, t)
           lk == Relinked(x, p, t)
           named == Named(x, p, t)
           z == OnFileChanged(x, p, t)
<1>1. Owned(x, p, t, spread) /\ (~ SameSig(x, p, t) => Marked(x, spread, C))
  BY SpreadKeeps
<1>2. /\ Sound(spread) /\ TabledBut(spread, Outdated(x, p, t) \ {p}) /\ N \in SUBSET Names
      /\ named = RelinkNames(spread, N) /\ F = Referencers(spread, N) /\ lk = Relink(spread, F)
      /\ Marked(x, spread, {p})
  BY <1>1, RenamedIsNames DEF Owned, Named, Renaming, Relinked
<1>3. F \in SUBSET Live(spread) /\ F \in SUBSET Paths
  BY <1>2, ReferencersAreLive DEF Live
<1>4. Sound(lk)
  BY <1>2, <1>3, RelinkLinks
<1>5. /\ Marked(spread, named, F) /\ \A q \in F : Marked(spread, named, ReverseClosure(lk, q))
      /\ \A h \in Paths \ F : OfSame(spread, named, h)
  <2>1. /\ Marked(spread, RelinkNames(spread, N), Referencers(spread, N))
        /\ \A q \in Referencers(spread, N) :
             Marked(spread, RelinkNames(spread, N),
                    ReverseClosure(Relink(spread, Referencers(spread, N)), q))
        /\ \A h \in Paths \ Referencers(spread, N) : OfSame(spread, RelinkNames(spread, N), h)
    BY <1>2, RelinkNamesLinks
  <2> QED
    BY <1>2, <2>1
<1>6. /\ \A h \in Paths : x.epochs[h] \in Nat
      /\ \A h \in Paths : spread.epochs[h] \in Nat /\ spread.epochs[h] >= x.epochs[h]
      /\ \A h \in Paths : named.epochs[h] \in Nat /\ named.epochs[h] >= spread.epochs[h]
  BY <1>2, <1>5, IndexFields DEF Good, Sound, Marked
<1>7. Settles(x, p, t, named)
  BY NamedKeeps
<1>8. /\ \A h \in Paths : z.epochs[h] \in Nat /\ z.epochs[h] >= named.epochs[h]
      /\ x.iface[p] = None => \A h \in named.targets.at[p] : z.epochs[h] > named.epochs[h]
  <2>1. CASE x.iface[p] = None
    <3> DEFINE G == {q \in Waiting(x, p) \ {p} : p \in named.targets.of[q]}
    <3>1. z = RelinkPath(named, p)
      BY <2>1, ChangedInSteps
    <3>2. Sound(named) /\ TabledBut(named, G) /\ \A q \in G : q \in Paths /\ p \in named.targets.of[q]
      BY <1>7 DEF Settles, Waiting, Live
    <3>3. Marked(named, z, named.targets.at[p])
      BY <3>1, <3>2, RelinkPathKeeps
    <3> QED
      BY <3>3 DEF Marked
  <2>2. CASE x.iface[p] # None
    BY <1>6, <2>2, ChangedInSteps
  <2> QED
    BY <2>1, <2>2
<1>9. ASSUME NEW h \in Spreading(lk, F)
      PROVE  h \in Paths /\ z.epochs[h] > x.epochs[h]
  <2>1. h \in Paths
    BY <1>3, SpreadingPaths
  <2>2. named.epochs[h] > spread.epochs[h]
    BY <1>3, <1>5, SpreadingMarked
  <2> QED
    BY <1>6, <1>8, <2>1, <2>2
<1>10. ASSUME NEW h \in C, ~ SameSig(x, p, t)
       PROVE  h \in Paths /\ z.epochs[h] > x.epochs[h]
  <2>1. h \in Paths /\ spread.epochs[h] > x.epochs[h]
    BY <1>1, <1>10 DEF ReverseClosure, Marked
  <2> QED
    BY <1>6, <1>8, <2>1
<1>11. z.epochs[p] > x.epochs[p]
  <2>1. spread.epochs[p] > x.epochs[p]
    BY <1>2 DEF Marked
  <2> QED
    BY <1>6, <1>8, <2>1
<1>12. x.iface[p] = None => \A h \in named.targets.at[p] : h \in Paths => z.epochs[h] > x.epochs[h]
  BY <1>6, <1>8
<1>13. \A h \in ChangedReach(x, p, t) \cup {p} : h \in Paths /\ z.epochs[h] > x.epochs[h]
  BY <1>9, <1>10, <1>11 DEF ChangedReach
<1> QED
  BY <1>3, <1>4, <1>5, <1>12, <1>13

(* An edge out of the reach, as it is in the tables of relinked files and, *)
(* of another file than p, was before.                                     *)
LEMMA ChangedOutside ==
  ASSUME NEW x, Good(x), NEW p \in Paths, NEW t \in Texts, NEW h \in Paths,
         h \notin ChangedReach(x, p, t),
         NEW g \in Spread(x, p, t).deps.of[h],
         SameSig(x, p, t) \/ g \in Own(x, p, t).deps.of[h]
  PROVE  g \notin ChangedReach(x, p, t)
<1> DEFINE spread == Spread(x, p, t)
           F == Renaming(x, p, t)
           lk == Relinked(x, p, t)
           own == Own(x, p, t)
<1>1. F \in SUBSET Live(spread) /\ Sound(lk) /\ F \in SUBSET Paths
  BY ChangedMarks DEF Live
<1>2. h \notin F /\ h \notin Spreading(lk, F)
  BY DEF ChangedReach, Spreading
<1>3. Sound(spread) /\ Sound(own)
  BY SpreadKeeps, OwnKeeps DEF Owned
<1>4. lk.deps.of[h] = spread.deps.of[h]
  BY <1>1, <1>2, <1>3, RelinkLinks DEF Relinked
<1>5. g \notin Spreading(lk, F)
  BY <1>1, <1>2, <1>4, OutsideSpreading
<1>6. CASE SameSig(x, p, t)
  BY <1>5, <1>6 DEF ChangedReach
<1>7. CASE ~ SameSig(x, p, t)
  <2>1. h # p /\ h \notin ReverseClosure(own, p)
    BY <1>7 DEF ChangedReach
  <2>2. g # p /\ g \notin ReverseClosure(own, p)
    BY <1>3, <1>7, <2>1, OutsideClosure
  <2> QED
    BY <1>5, <1>7, <2>2 DEF ChangedReach
<1> QED
  BY <1>6, <1>7

(* A name or literal that leads to the same file, outside the reach.       *)
SameName(x, z, n, K) == Owner(z, n) = Owner(x, n) /\ Owner(x, n) \notin K
SameLiteral(x, z, l, K) == /\ Resolve(x, l) \notin K
                           /\ Resolve(x, l) # None => Resolve(z, l) = Resolve(x, l)

LEMMA ChangedFacts ==
  ASSUME NEW x, Good(x), NEW p \in Paths, NEW t \in Texts
  PROVE  /\ SameFacts(Spread(x, p, t), OnFileChanged(x, p, t))
         /\ SameFacts(SetInterface(x, p, t), OnFileChanged(x, p, t))
         /\ OnFileChanged(x, p, t).iface = [x.iface EXCEPT ![p] = t]
         /\ OnFileChanged(x, p, t).uids = x.uids
         /\ \A n \in Names : n \notin Renamed(x, p, t) =>
              Owner(OnFileChanged(x, p, t), n) = Owner(x, n)
<1> DEFINE set == SetInterface(x, p, t)
           z == OnFileChanged(x, p, t)
           spread == Spread(x, p, t)
<1>1. SameFacts(set, z)
  BY ChangedKeeps
<1>2. SameFacts(set, spread)
  BY SpreadKeeps DEF Owned
<1>3. InterfaceSet(x, p, t, set)
  BY SetInterfaceKeeps DEF Good
<1>4. SameFacts(spread, z)
  BY <1>1, <1>2 DEF SameFacts
<1>5. z.iface = [x.iface EXCEPT ![p] = t] /\ z.uids = x.uids
  BY <1>1, <1>3 DEF SameFacts, InterfaceSet
<1>6. ASSUME NEW n \in Names, n \notin Renamed(x, p, t)
      PROVE  Owner(z, n) = Owner(x, n)
  <2>1. Owner(z, n) = Owner(set, n)
    BY <1>1, FactsDecide
  <2> QED
    BY <1>6, <2>1 DEF Renamed, Moved
<1> QED
  BY <1>1, <1>4, <1>5, <1>6

(* What a literal led to stays where it is.                                *)
LEMMA ResolveGrows ==
  ASSUME NEW x, Good(x), NEW p \in Paths, NEW t \in Texts, NEW h \in Paths,
         NEW l \in LiteralsOf(x, h)
  PROVE  /\ Resolve(x, l) # None => Resolve(OnFileChanged(x, p, t), l) = Resolve(x, l)
         /\ Deref(x, l) # p => Resolve(OnFileChanged(x, p, t), l) = Resolve(x, l)
<1> DEFINE z == OnFileChanged(x, p, t)
<1>1. z.iface = [x.iface EXCEPT ![p] = t] /\ z.uids = x.uids
  BY ChangedFacts
<1>2. x \in Index /\ x.iface \in [Paths -> Texts \cup {None}]
  BY IndexFields DEF Good, Sound
<1>3. Deref(z, l) = Deref(x, l) /\ Deref(x, l) \in Paths \cup {None}
  BY <1>1, <1>2, ReferenceTypes, IndexFields DEF Deref
<1>4. CASE Deref(x, l) = None
  BY <1>3, <1>4 DEF Resolve
<1>5. CASE Deref(x, l) = p
  <2>1. z.iface[p] # None
    BY <1>1, <1>2, NoneApart
  <2> QED
    BY <1>3, <1>5, <2>1 DEF Resolve
<1>6. CASE Deref(x, l) \in Paths \ {p}
  <2>1. z.iface[Deref(x, l)] = x.iface[Deref(x, l)]
    BY <1>1, <1>2, <1>6
  <2> QED
    BY <1>3, <2>1 DEF Resolve
<1> QED
  BY <1>3, <1>4, <1>5, <1>6

LEMMA ReachPaths ==
  ASSUME NEW x, Good(x), NEW p \in Paths, NEW t \in Texts
  PROVE  /\ ChangedReach(x, p, t) \subseteq Paths /\ None \notin ChangedReach(x, p, t)
         /\ Renaming(x, p, t) \subseteq ChangedReach(x, p, t)
<1>1. ChangedReach(x, p, t) \subseteq Paths
  BY ChangedMarks
<1> QED
  BY <1>1, NoneApart DEF ChangedReach, Spreading

LEMMA ChangedOthers ==
  ASSUME NEW x, Good(x), NEW p \in Paths, NEW t \in Texts,
         NEW h \in Live(x) \ {p}, h \notin ChangedReach(x, p, t)
  PROVE  /\ \A n \in NamesOf(x, h) \cup BodyOf(x, h) :
              SameName(x, OnFileChanged(x, p, t), n, ChangedReach(x, p, t))
         /\ \A l \in LiteralsOf(x, h) :
              SameLiteral(x, OnFileChanged(x, p, t), l, ChangedReach(x, p, t))
<1> DEFINE z == OnFileChanged(x, p, t)
           spread == Spread(x, p, t)
           N == Renamed(x, p, t)
           K == ChangedReach(x, p, t)
<1>1. x \in Index /\ h \in Paths /\ h # p /\ Tabled(x, h)
  BY DEF Good, Sound, Live, TabledBut
<1>2. OfSame(x, spread, h) /\ OfSame(x, Own(x, p, t), h) /\ Sound(spread)
  BY <1>1, SpreadKeeps, OwnKeeps DEF Owned
<1>3. h \notin Renaming(x, p, t) /\ None \notin K
  BY ReachPaths
<1>4. \A g \in x.deps.of[h] : g \notin K
  BY <1>1, <1>2, ChangedOutside DEF OfSame
<1>5. ASSUME NEW n \in NamesOf(x, h) \cup BodyOf(x, h)
      PROVE  SameName(x, z, n, K)
  <2>1. n \in Names
    BY <1>1, ReferenceTypes
  <2>2. Owner(x, n) \notin K
    BY <1>1, <1>3, <1>4, EdgeIn
  <2>3. n \notin N
    <3> SUFFICES ASSUME n \in N PROVE h \in Renaming(x, p, t)
      BY <1>3
    <3>1. CASE n \in NamesOf(x, h)
      <4>1. spread.names \in Table(Names) /\ Mirrored(spread.names)
        BY <1>2, IndexFields DEF Sound, Verified
      <4>2. n \in spread.names.of[h]
        BY <1>1, <1>2, <3>1 DEF Tabled, OfSame
      <4>3. h \in spread.names.at[n]
        BY <1>1, <2>1, <4>1, <4>2 DEF Table, Mirrored
      <4> QED
        BY <4>3 DEF Renaming, Referencers
    <3>2. CASE n \in BodyOf(x, h)
      <4>1. spread.iface[h] = z.iface[h] /\ z.iface = [x.iface EXCEPT ![p] = t]
        BY ChangedFacts DEF SameFacts
      <4>2. spread.iface[h] = x.iface[h]
        BY <1>1, <4>1, IndexFields
      <4>3. BodyOf(spread, h) \cap N # {}
        BY <3>2, <4>2 DEF BodyOf
      <4> QED
        BY <1>1, <4>3 DEF Renaming, Referencers
    <3> QED
      BY <3>1, <3>2
  <2>4. Owner(z, n) = Owner(x, n)
    BY <2>1, <2>3, ChangedFacts
  <2> QED
    BY <2>2, <2>4 DEF SameName
<1>6. ASSUME NEW l \in LiteralsOf(x, h)
      PROVE  SameLiteral(x, z, l, K)
  <2>1. Resolve(x, l) \notin K
    BY <1>1, <1>3, <1>4, EdgeIn
  <2> QED
    BY <1>1, <2>1, ResolveGrows DEF SameLiteral
<1> QED
  BY <1>5, <1>6

LEMMA ChangedSelf ==
  ASSUME NEW x, Good(x), NEW p \in Paths, NEW t \in Texts, SameSig(x, p, t),
         p \notin ChangedReach(x, p, t)
  PROVE  /\ \A n \in ShownNames(x, p) : SameName(x, OnFileChanged(x, p, t), n, ChangedReach(x, p, t))
         /\ \A l \in ExposedOf(x, p) :
              SameLiteral(x, OnFileChanged(x, p, t), l, ChangedReach(x, p, t))
<1> DEFINE z == OnFileChanged(x, p, t)
           spread == Spread(x, p, t)
           N == Renamed(x, p, t)
           K == ChangedReach(x, p, t)
<1>1. x \in Index /\ x.iface[p] \in Texts
  BY IndexFields DEF Good, Sound, SameSig
<1>2. Sound(spread) /\ TabledBut(spread, Outdated(x, p, t) \ {p})
  BY SpreadKeeps DEF Owned
<1>3. SameFacts(spread, z) /\ z.iface = [x.iface EXCEPT ![p] = t]
  BY ChangedFacts
<1>4. spread.iface[p] = t
  BY <1>1, <1>3, IndexFields DEF SameFacts
<1>5. ShownNames(spread, p) = ShownNames(x, p) /\ ExposedOf(spread, p) = ExposedOf(x, p)
  BY <1>1, <1>4, SameSignature, NoneApart DEF SameSig, ShownNames, ExposedOf
<1>6. Tabled(spread, p)
  BY <1>2, <1>4, NoneApart DEF TabledBut, Live
<1>7. p \notin Renaming(x, p, t) /\ None \notin K
  BY ReachPaths
<1>8. \A g \in spread.deps.of[p] : g \notin K
  BY ChangedOutside
<1>9. ASSUME NEW n \in ShownNames(x, p)
      PROVE  SameName(x, z, n, K)
  <2>1. n \in Names
    BY <1>1, ReferenceTypes, ExposedIsReferred
  <2>2. n \notin N
    <3> SUFFICES ASSUME n \in N PROVE p \in Renaming(x, p, t)
      BY <1>7
    <3>1. spread.names \in Table(Names) /\ Mirrored(spread.names)
      BY <1>2, IndexFields DEF Sound, Verified
    <3>2. CASE n \in NamesOf(spread, p)
      <4>1. n \in spread.names.of[p]
        BY <1>6, <3>2 DEF Tabled
      <4>2. p \in spread.names.at[n]
        BY <2>1, <3>1, <4>1 DEF Table, Mirrored
      <4> QED
        BY <4>2 DEF Renaming, Referencers
    <3>3. CASE n \in BodyOf(spread, p)
      <4>1. BodyOf(spread, p) \cap N # {}
        BY <3>3
      <4> QED
        BY <4>1 DEF Renaming, Referencers
    <3> QED
      BY <1>5, <3>2, <3>3, ExposedIsReferred
  <2>3. Owner(z, n) = Owner(x, n)
    BY <2>1, <2>2, ChangedFacts
  <2>4. Owner(spread, n) = Owner(z, n)
    BY <1>3, FactsDecide
  <2>5. Owner(spread, n) \in {None, p} \/ Owner(spread, n) \in spread.deps.of[p]
    BY <1>5, <1>6, EdgeIn, ExposedIsReferred
  <2>6. Owner(x, n) \notin K
    BY <1>7, <1>8, <2>3, <2>4, <2>5
  <2> QED
    BY <2>3, <2>6 DEF SameName
<1>10. ASSUME NEW l \in ExposedOf(x, p)
       PROVE  SameLiteral(x, z, l, K)
  <2>1. Resolve(x, l) # None => Resolve(z, l) = Resolve(x, l)
    BY ResolveGrows, ExposedIsReferred
  <2>2. Resolve(spread, l) = Resolve(z, l)
    BY <1>3, FactsDecide
  <2>3. Resolve(spread, l) \in {None, p} \/ Resolve(spread, l) \in spread.deps.of[p]
    BY <1>5, <1>6, EdgeIn, ExposedIsReferred
  <2>4. Resolve(x, l) \notin K
    BY <1>7, <1>8, <2>1, <2>2, <2>3
  <2> QED
    BY <2>1, <2>4 DEF SameLiteral
<1> QED
  BY <1>9, <1>10

LEMMA ChangedTracks ==
  ASSUME NEW x, Good(x), NEW p \in Paths, NEW t \in Texts
  PROVE  Tracks(x, OnFileChanged(x, p, t), ChangedReach(x, p, t))
<1> DEFINE z == OnFileChanged(x, p, t)
           K == ChangedReach(x, p, t)
           named == Named(x, p, t)
<1>1. x \in Index /\ x.iface \in [Paths -> Texts \cup {None}] /\ x.epochs \in [Paths -> Nat]
  BY IndexFields DEF Good, Sound
<1>2. z.iface = [x.iface EXCEPT ![p] = t] /\ z.uids = x.uids
  BY ChangedFacts
<1>3. K \subseteq Paths
  BY ReachPaths
<1>4. ASSUME NEW h \in Live(x) \ K
      PROVE  Steady(x, z, h) /\ Apart(x, h, K)
  <2>1. h \in Paths /\ h \in Live(z)
    BY <1>1, <1>2, NoneApart DEF Live
  <2>2. CASE h # p
    <3>1. z.iface[h] = x.iface[h]
      BY <1>1, <1>2, <2>1, <2>2
    <3>2. /\ \A n \in ShownNames(x, h) : SameName(x, z, n, K)
          /\ \A l \in ExposedOf(x, h) : SameLiteral(x, z, l, K)
      BY <1>4, <2>2, ChangedOthers, ExposedIsReferred
    <3> QED
      BY <2>1, <3>1, <3>2 DEF SameName, SameLiteral, Steady, Apart
  <2>3. CASE h = p
    <3>1. SameSig(x, p, t)
      BY <1>4, <2>3 DEF ChangedReach
    <3>2. Unit[z.iface[p]].sig = Unit[x.iface[p]].sig
      BY <1>1, <1>2, <3>1 DEF SameSig
    <3>3. /\ \A n \in ShownNames(x, p) : SameName(x, z, n, K)
          /\ \A l \in ExposedOf(x, p) : SameLiteral(x, z, l, K)
      BY <1>4, <2>3, <3>1, ChangedSelf
    <3> QED
      BY <2>1, <2>3, <3>2, <3>3 DEF SameName, SameLiteral, Steady, Apart
  <2> QED
    BY <2>2, <2>3
<1>5. ASSUME NEW f \in Live(z), z.epochs[f] = x.epochs[f]
      PROVE  Unmoved(x, z, f, K)
  <2>1. f \in Paths /\ x.epochs[f] \in Nat
    BY <1>1 DEF Live
  <2>2. \A h \in K \cup {p} : z.epochs[h] > x.epochs[h]
    BY ChangedMarks
  <2>3. f \notin K /\ f # p
    BY <1>5, <2>1, <2>2
  <2>4. z.iface[f] = x.iface[f] /\ f \in Live(x)
    BY <1>1, <1>2, <2>1, <2>3 DEF Live
  <2>5. /\ \A n \in NamesOf(x, f) \cup BodyOf(x, f) : SameName(x, z, n, K)
        /\ \A l \in LiteralsOf(x, f) : SameLiteral(x, z, l, K)
    BY <2>3, <2>4, ChangedOthers
  <2>6. ASSUME NEW l \in LiteralsOf(x, f) PROVE Resolve(z, l) = Resolve(x, l)
    <3>1. CASE Deref(x, l) # p \/ Resolve(x, l) # None
      BY <2>1, <3>1, ResolveGrows
    <3>2. CASE Deref(x, l) = p /\ Resolve(x, l) = None
      <4>1. x.iface[p] = None /\ p \in TargetsOf(x, f)
        BY <3>2, NoneApart DEF Resolve, TargetsOf
      <4>2. p \in x.targets.of[f]
        BY <2>4, <4>1 DEF Good, TabledBut, Tabled
      <4>3. f \notin Renaming(x, p, t)
        BY <2>3, ReachPaths
      <4>4. OfSame(x, Spread(x, p, t), f) /\ OfSame(Spread(x, p, t), named, f)
        BY <2>1, <2>3, <4>3, SpreadKeeps, ChangedMarks DEF Owned
      <4>5. named.targets \in Table(Paths) /\ Mirrored(named.targets)
        BY NamedKeeps, IndexFields DEF Settles, Sound, Verified
      <4>6. f \in named.targets.at[p]
        BY <2>1, <4>2, <4>4, <4>5 DEF OfSame, Table, Mirrored
      <4>7. z.epochs[f] > x.epochs[f]
        BY <2>1, <4>1, <4>6, ChangedMarks
      <4> QED
        BY <1>5, <2>1, <4>7
    <3> QED
      BY <3>1, <3>2
  <2> QED
    BY <2>3, <2>4, <2>5, <2>6 DEF Unmoved, SameName, SameLiteral
<1> QED
  BY <1>3, <1>4, <1>5 DEF Tracks, Fenced
-----------------------------------------------------------------------------
(* What a step of the index does to entries and reports                    *)

Monotone(x, y) == \A p \in Paths : /\ x.epochs[p] \in Nat /\ y.epochs[p] \in Nat
                                   /\ y.epochs[p] >= x.epochs[p]
(* Marks are in the dirty set.                                             *)
Told(x, y) == \A p \in Live(y) \ y.dirty : p \notin x.dirty /\ y.epochs[p] = x.epochs[p]
Advances(x, y) == /\ Good(x) /\ Good(y) /\ Monotone(x, y)
                  /\ \E K : Tracks(x, y, K)

LEMMA MarkTold ==
  ASSUME NEW x \in Index, NEW F
  PROVE  Told(x, Mark(x, F)) /\ Live(Mark(x, F)) = Live(x)
<1> DEFINE y == Mark(x, F)
<1>1. /\ y.dirty = x.dirty \cup F /\ y.iface = x.iface
      /\ y.epochs = [p \in Paths |-> IF p \in F THEN x.epochs[p] + 1 ELSE x.epochs[p]]
  BY DEF Mark, Index
<1>2. Live(y) = Live(x) /\ Live(y) \subseteq Paths
  BY <1>1 DEF Live
<1> QED
  BY <1>1, <1>2 DEF Told

LEMMA ToldChain ==
  ASSUME NEW x, NEW y, NEW z, Told(x, y), Told(y, z), Live(z) \subseteq Live(y)
  PROVE  Told(x, z)
BY DEF Told

LEMMA RelinkNamesTold ==
  ASSUME NEW x, Sound(x), NEW N \in SUBSET Names
  PROVE  Told(x, RelinkNames(x, N)) /\ Live(RelinkNames(x, N)) = Live(x)
<1> DEFINE F == Referencers(x, N)
           y == Relink(x, F)
<1>1. CASE N = {}
  BY <1>1 DEF RelinkNames, Told
<1>2. CASE N # {}
  <2>1. F \in SUBSET Live(x)
    BY ReferencersAreLive
  <2>2. /\ y \in Index /\ SameFacts(x, y) /\ y.dirty = x.dirty /\ y.epochs = x.epochs
    BY <2>1, RelinkLinks DEF Sound
  <2>3. Live(y) = Live(x)
    BY <2>2, FactsDecide
  <2>4. \E S : RelinkNames(x, N) = Mark(y, S)
    BY <1>2 DEF RelinkNames
  <2>5. Told(y, RelinkNames(x, N)) /\ Live(RelinkNames(x, N)) = Live(y)
    BY <2>2, <2>4, MarkTold
  <2>6. Told(x, y)
    BY <2>2 DEF Told
  <2> QED
    BY <2>3, <2>5, <2>6, ToldChain
<1> QED
  BY <1>1, <1>2

LEMMA ChangedTold ==
  ASSUME NEW x, Good(x), NEW p \in Paths, NEW t \in Texts
  PROVE  Told(x, OnFileChanged(x, p, t))
<1> DEFINE set == SetInterface(x, p, t)
           linked == Relink(set, {p})
           own == Own(x, p, t)
           spread == Spread(x, p, t)
           named == Named(x, p, t)
           z == OnFileChanged(x, p, t)
<1>1. InterfaceSet(x, p, t, set) /\ x \in Index
  BY SetInterfaceKeeps DEF Good, Sound
<1>2. set.dirty = x.dirty /\ set.epochs = x.epochs
  <2>1. set = [x EXCEPT !.iface = [x.iface EXCEPT ![p] = t],
                        !.declared = [x.declared EXCEPT ![p] = Unit[t].declares]]
    BY DEF SetInterface
  <2> QED
    BY <1>1, <2>1 DEF Index
<1>3. Told(x, set)
  BY <1>2 DEF Told
<1>4. Sound(set) /\ {p} \in SUBSET Live(set)
  BY <1>1 DEF InterfaceSet
<1>5. /\ Sound(linked) /\ SameFacts(set, linked) /\ linked.dirty = set.dirty
      /\ linked.epochs = set.epochs
  BY <1>4, RelinkLinks
<1>6. Live(linked) = Live(set)
  BY <1>5, FactsDecide
<1>7. Told(set, linked)
  BY <1>5 DEF Told
<1>8. Told(linked, own) /\ Live(own) = Live(linked)
  BY <1>5, MarkTold DEF Own, Sound
<1>9. Told(x, own) /\ Live(own) = Live(set)
  BY <1>3, <1>6, <1>7, <1>8, ToldChain
<1>10. own \in Index
  BY OwnKeeps DEF Owned, Sound
<1>11. Told(x, spread) /\ Live(spread) = Live(set)
  <2>1. CASE SameSig(x, p, t)
    BY <1>9, <2>1 DEF Spread
  <2>2. CASE ~ SameSig(x, p, t)
    <3>1. spread = Mark(own, ReverseClosure(own, p))
      BY <2>2 DEF Spread
    <3>2. Told(own, spread) /\ Live(spread) = Live(own)
      BY <1>10, <3>1, MarkTold
    <3> QED
      BY <1>9, <3>2, ToldChain
  <2> QED
    BY <2>1, <2>2
<1>12. Sound(spread)
  BY SpreadKeeps DEF Owned
<1>13. Told(spread, named) /\ Live(named) = Live(spread)
  BY <1>12, RenamedIsNames, RelinkNamesTold DEF Named
<1>14. Told(x, named)
  BY <1>11, <1>13, ToldChain
<1>15. CASE x.iface[p] # None
  BY <1>14, <1>15, ChangedInSteps
<1>16. CASE x.iface[p] = None
  <2> DEFINE A == named.targets.at[p]
             y == Relink(named, A)
  <2>1. Sound(named)
    BY NamedKeeps DEF Settles
  <2>2. A \in SUBSET Live(named)
    <3>1. named.targets \in Table(Paths) /\ Mirrored(named.targets)
      BY <2>1, IndexFields DEF Sound, Verified
    <3>2. ASSUME NEW q \in A PROVE q \in Live(named)
      <4>1. q \in Paths /\ p \in named.targets.of[q]
        BY <3>1, <3>2 DEF Table, Mirrored
      <4> QED
        BY <2>1, <4>1, DeadIsClean
    <3> QED
      BY <3>2
  <2>3. /\ Sound(y) /\ SameFacts(named, y) /\ y.dirty = named.dirty
        /\ y.epochs = named.epochs
    BY <2>1, <2>2, RelinkLinks
  <2>4. Live(y) = Live(named) /\ Told(named, y)
    BY <2>3, FactsDecide DEF Told
  <2>5. z = Mark(y, A)
    BY <1>16, ChangedInSteps DEF RelinkPath
  <2>6. Told(y, z) /\ Live(z) = Live(y)
    BY <2>3, <2>5, MarkTold DEF Sound
  <2> QED
    BY <1>14, <2>4, <2>6, ToldChain
<1> QED
  BY <1>15, <1>16

LEMMA RemovedTold ==
  ASSUME NEW x, Good(x), NEW p \in Paths
  PROVE  Told(x, OnFileRemoved(x, p))
<1> DEFINE und == Undeclared(x, p)
           un == Unmarked(x, p)
           d == Gone(x, p)
           N == Moved(x, und)
           z == OnFileRemoved(x, p)
<1>1. Sound(und) /\ und \in Index /\ und.epochs = x.epochs /\ und.iface = x.iface
  BY UndeclaredIsSound DEF Good, Sound
<1>2. und.dirty = x.dirty
  BY DEF Undeclared, Good, Sound, Index
<1>3. Told(x, und) /\ Live(und) = Live(x)
  BY <1>1, <1>2 DEF Told, Live
<1>4. Told(und, un) /\ Live(un) = Live(und)
  BY <1>1, MarkTold DEF Unmarked
<1>5. Removes(x, p, d)
  BY GoneRemoves DEF Good
<1>6. un \in Index
  BY <1>1, ClosureIsLive, MarkKeeps DEF Unmarked, Sound, Good, Live
<1>7. d.dirty = un.dirty \ {p} /\ d.epochs = un.epochs
  BY <1>6 DEF Gone, Detach, Index
<1>8. Live(d) = Live(x) \ {p}
  BY <1>5 DEF Removes
<1>9. Told(un, d) /\ Live(d) \subseteq Live(un)
  BY <1>3, <1>4, <1>7, <1>8 DEF Told
<1>10. Told(d, z) /\ Live(z) = Live(d)
  <2>1. Sound(d) /\ N \in SUBSET Names /\ z = RelinkNames(d, N)
    BY <1>5, RemovedInSteps DEF Removes, Moved, Gone
  <2> QED
    BY <2>1, RelinkNamesTold
<1>11. Told(x, un)
  BY <1>3, <1>4, ToldChain
<1>12. Told(x, d)
  BY <1>9, <1>11, ToldChain
<1> QED
  BY <1>10, <1>12, ToldChain

LEMMA UidsTold ==
  ASSUME NEW x, Good(x), NEW m \in [Uids -> Paths \cup {None}]
  PROVE  Told(x, SetUids(x, m))
<1> DEFINE set == UidsSet(x, m)
           F == MovedUids(x, m)
           y == Relink(set, F)
           z == SetUids(x, m)
<1>1. UidMapSet(x, m, set)
  BY UidsSetKeeps DEF Good
<1>2. Sound(set) /\ set.epochs = x.epochs
  BY <1>1 DEF UidMapSet
<1>3. set.dirty = x.dirty
  BY DEF UidsSet, Good, Sound, Index
<1>4. F \in SUBSET Live(set)
  <2>1. set.uidRefs \in Table(Uids) /\ Mirrored(set.uidRefs)
    BY <1>2, IndexFields DEF Sound, Verified
  <2>2. ASSUME NEW u \in Uids, NEW q \in set.uidRefs.at[u]
        PROVE  q \in Live(set)
    <3>1. q \in Paths /\ u \in set.uidRefs.of[q]
      BY <2>1, <2>2 DEF Table, Mirrored
    <3> QED
      BY <1>2, <3>1, DeadIsClean
  <2> QED
    BY <2>2 DEF UidReferencers, MovedUids
<1>5. /\ Sound(y) /\ y.dirty = set.dirty /\ y.epochs = set.epochs
  BY <1>2, <1>4, RelinkLinks
<1>6. Told(x, y)
  BY <1>2, <1>3, <1>5 DEF Told
<1>7. z = Mark(y, F)
  BY UidsInSteps DEF MovedUids
<1>8. Told(y, z) /\ Live(z) = Live(y)
  BY <1>5, <1>7, MarkTold DEF Sound
<1> QED
  BY <1>6, <1>8, ToldChain

LEMMA ChangedAdvances ==
  ASSUME NEW x, Good(x), NEW p \in Paths, NEW t \in Texts
  PROVE  Advances(x, OnFileChanged(x, p, t))
<1>1. Good(OnFileChanged(x, p, t)) /\ Marked(x, OnFileChanged(x, p, t), {p})
  BY ChangedKeeps
<1>2. \A q \in Paths : x.epochs[q] \in Nat
  BY IndexFields DEF Good, Sound
<1> QED
  BY <1>1, <1>2, ChangedTracks DEF Advances, Monotone, Marked

LEMMA RemovedAdvances ==
  ASSUME NEW x, Good(x), NEW p \in Paths
  PROVE  Advances(x, OnFileRemoved(x, p))
<1>1. Good(OnFileRemoved(x, p)) /\ Marked(x, OnFileRemoved(x, p), {})
  BY RemovedKeeps
<1>2. \A q \in Paths : x.epochs[q] \in Nat
  BY IndexFields DEF Good, Sound
<1> QED
  BY <1>1, <1>2, RemovedTracks DEF Advances, Monotone, Marked

LEMMA UidsAdvance ==
  ASSUME NEW x, Good(x), NEW m \in [Uids -> Paths \cup {None}]
  PROVE  Advances(x, SetUids(x, m))
<1>1. Good(SetUids(x, m)) /\ Marked(x, SetUids(x, m), MovedUids(x, m))
  BY UidsKeep
<1>2. \A q \in Paths : x.epochs[q] \in Nat
  BY IndexFields DEF Good, Sound
<1> QED
  BY <1>1, <1>2, UidsTrack DEF Advances, Monotone, Marked

LEMMA StillAdvances ==
  ASSUME NEW x, Good(x)
  PROVE  Advances(x, x) /\ Told(x, x)
<1>1. \A q \in Paths : x.epochs[q] \in Nat
  BY IndexFields DEF Good, Sound
<1>2. Tracks(x, x, {})
  BY DEF Tracks, Fenced, Steady, Apart, Unmoved
<1> QED
  BY <1>1, <1>2 DEF Advances, Monotone, Told

(* An entry fresh in an index and a setting.                               *)
FreshIn(x, s, e, f) == Untracked(e.view, f) \/ (e.view = View(x, f) /\ e.setting = s)
FreshFor(x, c, s) == \A p \in Live(x) : Hits(x, c, p) => FreshIn(x, s, c[p], p)
Behind(x, c) == \A p \in Paths : c[p] # None => c[p].epoch \in Nat /\ c[p].epoch <= x.epochs[p]
CacheGood(x, c, s) == Behind(x, c) /\ FreshFor(x, c, s)

LEMMA FreshAdvances ==
  ASSUME NEW x, NEW y, Advances(x, y), NEW s, NEW e, NEW f \in Live(y),
         y.epochs[f] = x.epochs[f], FreshIn(x, s, e, f)
  PROVE  FreshIn(y, s, e, f)
<1>1. CASE Untracked(e.view, f)
  BY <1>1 DEF FreshIn
<1>2. CASE ~ Untracked(e.view, f)
  <2>1. e.view = View(x, f) /\ e.setting = s
    BY <1>2 DEF FreshIn
  <2>2. PICK K : Tracks(x, y, K)
    BY DEF Advances
  <2>3. Sound(x) /\ Sound(y) /\ Fenced(x, y, K) /\ Unmoved(x, y, f, K)
    BY <2>2 DEF Advances, Good, Tracks
  <2>4. View(y, f) = View(x, f)
    BY <1>2, <2>1, <2>3, ViewKept
  <2> QED
    BY <2>1, <2>4 DEF FreshIn
<1> QED
  BY <1>1, <1>2

LEMMA CacheAdvances ==
  ASSUME NEW x, NEW y, Advances(x, y), NEW c, NEW s, CacheGood(x, c, s)
  PROVE  CacheGood(y, c, s)
<1>1. \A p \in Paths : /\ x.epochs[p] \in Nat /\ y.epochs[p] \in Nat
                       /\ y.epochs[p] >= x.epochs[p]
  BY DEF Advances, Monotone
<1>2. Behind(y, c)
  BY <1>1 DEF CacheGood, Behind
<1>3. ASSUME NEW p \in Live(y), Hits(y, c, p)
      PROVE  FreshIn(y, s, c[p], p)
  <2>1. p \in Paths
    BY DEF Live
  <2>2. c[p] # None /\ c[p].text = y.iface[p] /\ c[p].epoch = y.epochs[p]
    BY <1>3 DEF Hits
  <2>3. y.epochs[p] = x.epochs[p]
    BY <1>1, <2>1, <2>2 DEF CacheGood, Behind
  <2>4. p \in Live(x) /\ y.iface[p] = x.iface[p]
    BY <2>3 DEF Advances, Tracks, Unmoved
  <2>5. Hits(x, c, p)
    BY <2>2, <2>3, <2>4 DEF Hits
  <2>6. FreshIn(x, s, c[p], p)
    BY <2>4, <2>5 DEF CacheGood, FreshFor
  <2> QED
    BY <2>3, <2>6, FreshAdvances
<1> QED
  BY <1>2, <1>3 DEF CacheGood, FreshFor

LEMMA CacheLoses ==
  ASSUME NEW x, NEW c, NEW d, NEW s, CacheGood(x, c, s), \A p \in Paths : d[p] \in {None, c[p]}
  PROVE  CacheGood(x, d, s)
<1>1. Behind(x, d)
  BY DEF CacheGood, Behind
<1>2. ASSUME NEW p \in Live(x), Hits(x, d, p) PROVE FreshIn(x, s, d[p], p)
  <2>1. p \in Paths /\ d[p] # None
    BY <1>2 DEF Live, Hits
  <2>2. d[p] = c[p]
    BY <2>1
  <2> QED
    BY <1>2, <2>2 DEF Hits, CacheGood, FreshFor
<1> QED
  BY <1>1, <1>2 DEF CacheGood, FreshFor

LEMMA EntryIsFresh ==
  ASSUME NEW x, NEW f, NEW s
  PROVE  /\ FreshIn(x, s, Entry(x, f, s), f)
         /\ Entry(x, f, s).epoch = x.epochs[f] /\ Entry(x, f, s).text = x.iface[f]
BY DEF FreshIn, Entry

(* What a complete outcome holds is fresh, and so is the cache it goes to. *)
LEMMA OutcomeIsFresh ==
  ASSUME NEW x, NEW c, NEW s, CacheGood(x, c, s), NEW p \in Live(x), NEW bails,
         Outcome(x, c, p, bails, s).grade = "complete"
  PROVE  FreshIn(x, s, Outcome(x, c, p, bails, s).entry, p)
<1>1. CASE Hits(x, c, p)
  BY <1>1 DEF Outcome, CacheGood, FreshFor
<1>2. CASE ~ Hits(x, c, p)
  <2>1. Outcome(x, c, p, bails, s).entry = Entry(x, p, s)
    BY <1>2 DEF Outcome
  <2> QED
    BY <2>1, EntryIsFresh
<1> QED
  BY <1>1, <1>2

LEMMA PutCases ==
  ASSUME NEW x, NEW c, NEW S, NEW B, NEW s, NEW p \in Paths
  PROVE  Put(x, c, S, B, s)[p] \in {c[p], Entry(x, p, s)}
BY DEF Put, Outcome

LEMMA PutIsFresh ==
  ASSUME NEW x, Good(x), NEW c, NEW S, NEW B, NEW s, CacheGood(x, c, s)
  PROVE  CacheGood(x, Put(x, c, S, B, s), s)
<1> DEFINE d == Put(x, c, S, B, s)
<1>1. \A p \in Paths : x.epochs[p] \in Nat
  BY IndexFields DEF Good, Sound
<1>2. \A p \in Paths : d[p] = c[p] \/ d[p] = Entry(x, p, s)
  BY PutCases
<1> HIDE DEF d
<1>3. ASSUME NEW p \in Paths, d[p] # None
      PROVE  d[p].epoch \in Nat /\ d[p].epoch <= x.epochs[p]
  <2>1. CASE d[p] = c[p]
    BY <1>3, <2>1 DEF CacheGood, Behind
  <2>2. CASE d[p] = Entry(x, p, s)
    BY <1>1, <2>2, EntryIsFresh
  <2> QED
    BY <1>2, <2>1, <2>2
<1>4. ASSUME NEW p \in Live(x), Hits(x, d, p)
      PROVE  FreshIn(x, s, d[p], p)
  <2>1. p \in Paths
    BY DEF Live
  <2>2. CASE d[p] = c[p]
    BY <1>4, <2>2 DEF Hits, CacheGood, FreshFor
  <2>3. CASE d[p] = Entry(x, p, s)
    BY <2>3, EntryIsFresh
  <2> QED
    BY <1>2, <2>1, <2>2, <2>3
<1> QED
  BY <1>3, <1>4 DEF CacheGood, Behind, FreshFor, d

LEMMA NoEntriesIsFresh ==
  ASSUME NEW x, NEW s
  PROVE  CacheGood(x, NoEntries, s)
<1>1. \A p \in Paths : NoEntries[p] = None
  BY DEF NoEntries
<1> HIDE DEF NoEntries
<1> QED
  BY <1>1 DEF CacheGood, Behind, FreshFor, Hits, Live
-----------------------------------------------------------------------------
(* A cache hit is fresh                                                    *)

LEMMA DrainAdvances ==
  ASSUME NEW x, Good(x)
  PROVE  Advances(x, TakeDirty(x))
<1> DEFINE y == TakeDirty(x)
<1>1. Good(y) /\ SameFacts(x, y) /\ y.epochs = x.epochs
  BY TakeDirtyKeeps
<1>2. \A q \in Paths : x.epochs[q] \in Nat
  BY IndexFields DEF Good, Sound
<1> HIDE DEF y
<1>3. y.iface = x.iface /\ y.uids = x.uids /\ y.declared = x.declared
  BY <1>1 DEF SameFacts
<1>4. Live(y) = Live(x)
  BY <1>3 DEF Live
<1>5. /\ \A n : Owner(y, n) = Owner(x, n)
      /\ \A l : Resolve(y, l) = Resolve(x, l)
  BY <1>3 DEF Owner, Winners, Declarers, Resolve, Deref
<1>6. Tracks(x, y, {})
  BY <1>3, <1>4, <1>5 DEF Tracks, Fenced, Steady, Apart, Unmoved
<1> QED
  BY <1>1, <1>2, <1>6 DEF Advances, Monotone, y

LEMMA PublishKeepsCache ==
  ASSUME NEW x, Good(x), NEW c, NEW s, CacheGood(x, c, s), NEW S, NEW held,
         Publish(x, c, S, s, held)
  PROVE  CacheGood(x, cache', s)
<1>1. CASE pull
  BY <1>1 DEF Publish
<1>2. CASE ~ pull
  <2>1. PICK B \in MayBail(x) : cache' = Put(x, c, S, B, s)
    BY <1>2 DEF Publish
  <2> QED
    BY <2>1, PutIsFresh
<1> QED
  BY <1>1, <1>2

(* A handler that moved the index on to x, with entries of the cache gone. *)
LEMMA RepublishKeepsCache ==
  ASSUME NEW x, Advances(idx, x), CacheGood(idx, cache, setting),
         NEW c, \A p \in Paths : c[p] \in {None, cache[p]},
         NEW held, NEW Self, NEW opened, Republish(x, c, held, Self, opened)
  PROVE  CacheGood(idx', cache', setting)
<1>1. Good(x)
  BY DEF Advances
<1>2. CacheGood(x, c, setting)
  BY CacheLoses, CacheAdvances
<1>3. CacheGood(x, cache', setting)
  BY <1>1, <1>2, PublishKeepsCache DEF Republish
<1> QED
  BY <1>1, <1>3, DrainAdvances, CacheAdvances DEF Republish

HitInv == CacheGood(idx, cache, setting)

LEMMA HitInit == Init => HitInv
<1> SUFFICES ASSUME Init PROVE HitInv
  OBVIOUS
<1>1. cache = NoEntries
  BY DEF Init, NoEntries
<1> QED
  BY <1>1, NoEntriesIsFresh DEF HitInv

LEMMA HitNext == IndexInv /\ HitInv /\ [Next]_vars => HitInv'
<1> SUFFICES ASSUME IndexInv, HitInv, [Next]_vars PROVE HitInv'
  OBVIOUS
<1> DEFINE Same == \A p \in Paths : cache[p] \in {None, cache[p]}
<1>0. Good(idx) /\ CacheGood(idx, cache, setting) /\ Same
  BY DEF IndexInv, HitInv
<1>1. ASSUME NEW x, Advances(idx, x), NEW c, \A p \in Paths : c[p] \in {None, cache[p]},
             NEW held, NEW Self, NEW opened, Republish(x, c, held, Self, opened),
             setting' = setting
      PROVE  HitInv'
  BY <1>0, <1>1, RepublishKeepsCache DEF HitInv
<1>2. ASSUME NEW p \in Paths, NEW t \in Versions[p], Edit(p, t) \/ FileChanged(p, t)
      PROVE  HitInv'
  <2>1. t \in Texts
    BY VersionsAreTexts
  <2>2. Advances(idx, OnFileChanged(idx, p, t))
    BY <1>0, <2>1, ChangedAdvances
  <2>3. CASE Edit(p, t)
    BY <1>0, <1>1, <2>2, <2>3 DEF Edit
  <2>4. CASE FileChanged(p, t)
    BY <1>0, <1>1, <2>2, <2>4 DEF FileChanged
  <2> QED
    BY <1>2, <2>3, <2>4
<1>3. ASSUME NEW p \in Paths, Close(p)
      PROVE  HitInv'
  <2> DEFINE held == [shown EXCEPT ![p] = NoReport]
  <2>1. PICK x \in {OnFileChanged(idx, p, t) : t \in Versions[p]}
                   \cup {OnFileRemoved(idx, p), idx} :
          Republish(x, Forget(p), held, {p}, Open \ {p})
    BY <1>3 DEF Close
  <2> HIDE DEF held
  <2>2. Advances(idx, x)
    BY <1>0, <2>1, VersionsAreTexts, ChangedAdvances, RemovedAdvances, StillAdvances
  <2>3. \A q \in Paths : Forget(p)[q] \in {None, cache[q]}
    BY DEF Forget
  <2>4. setting' = setting
    BY <1>3 DEF Close
  <2> QED
    BY <1>1, <2>1, <2>2, <2>3, <2>4
<1>4. ASSUME NEW p \in Paths, FileRemoved(p)
      PROVE  HitInv'
  <2>1. Republish(OnFileRemoved(idx, p), Forget(p), shown, {}, Open) /\ setting' = setting
    BY <1>4 DEF FileRemoved
  <2>2. \A q \in Paths : Forget(p)[q] \in {None, cache[q]}
    BY DEF Forget
  <2> QED
    BY <1>0, <1>1, <2>1, <2>2, RemovedAdvances
<1>5. ASSUME NEW p \in Paths, Reopen(p)
      PROVE  HitInv'
  <2>1. p \in Open /\ buffer[p] \in Texts
    BY <1>5 DEF Reopen, Open, IndexInv
  <2>2. idx' = OnFileChanged(idx, p, buffer[p]) /\ setting' = setting
    BY <1>5 DEF Reopen
  <2>3. Good(idx') /\ CacheGood(idx', cache, setting)
    BY <1>0, <2>1, <2>2, ChangedAdvances, CacheAdvances DEF Advances
  <2>4. cache' = cache \/ \E S : Publish(idx', cache, S, setting, shown)
    BY <1>5 DEF Reopen, RepublishAll
  <2> QED
    BY <2>2, <2>3, <2>4, PublishKeepsCache DEF HitInv
<1>6. ASSUME NEW u \in Uids, NEW p \in Paths \cup {None}, UidChanged(u, p)
      PROVE  HitInv'
  <2> DEFINE m == [idx.uids EXCEPT ![u] = p]
  <2>1. m \in [Uids -> Paths \cup {None}]
    BY <1>0, ReplaceUid DEF Good, Sound
  <2>2. Republish(SetUids(idx, m), cache, shown, {}, Open) /\ setting' = setting
    BY <1>6 DEF UidChanged
  <2> HIDE DEF m
  <2> QED
    BY <1>0, <1>1, <2>1, <2>2, UidsAdvance
<1>7. ASSUME NEW s \in Settings, NEW m \in UidMaps, Reload(s, m)
      PROVE  HitInv'
  <2>1. Good(idx')
    BY <1>0, <1>7, UidMapsAreMaps, UidsKeep DEF Reload
  <2>2. setting' = s /\ Publish(idx', NoEntries, Open, s, shown)
    BY <1>7 DEF Reload, RepublishAll
  <2> QED
    BY <2>1, <2>2, NoEntriesIsFresh, PublishKeepsCache DEF HitInv
<1>8. ASSUME NEW s \in Settings, NEW files \in Projects, NEW m \in UidMaps,
             ChangeDialect(s, files, m)
      PROVE  HitInv'
  <2>1. Good(idx')
    BY <1>8, UidMapsAreMaps, ProjectsAreFiles, ColdKeeps DEF ChangeDialect
  <2>2. setting' = s /\ (cache' = NoEntries \/ Publish(idx', NoEntries, Open, s, shown))
    BY <1>8 DEF ChangeDialect, RepublishAll
  <2> QED
    BY <2>1, <2>2, NoEntriesIsFresh, PublishKeepsCache DEF HitInv
<1>9. ASSUME NEW p \in Paths, Pull(p) \/ Analyze(p)
      PROVE  HitInv'
  <2>1. idx' = idx /\ setting' = setting
    BY <1>9 DEF Pull, Analyze
  <2>2. cache' = cache \/ \E S, B : cache' = Put(idx, cache, S, B, setting)
    BY <1>9 DEF Pull, Analyze
  <2> QED
    BY <1>0, <2>1, <2>2, PutIsFresh DEF HitInv
<1>10. ASSUME NEW S \in SUBSET Paths, React(S)
       PROVE  HitInv'
  <2>1. idx' = idx /\ setting' = setting
        /\ cache' = [p \in Paths |-> IF p \in S THEN None ELSE cache[p]]
    BY <1>10 DEF React
  <2>2. \A p \in Paths : cache'[p] \in {None, cache[p]}
    BY <2>1
  <2> QED
    BY <1>0, <2>1, <2>2, CacheLoses DEF HitInv
<1>11. CASE UNCHANGED vars
  BY <1>0, <1>11 DEF vars, HitInv
<1> QED
  BY <1>2, <1>3, <1>4, <1>5, <1>6, <1>7, <1>8, <1>9, <1>10, <1>11 DEF Next

(* The cache answers for a text and an epoch only with what an analysis    *)
(* would find now: the epochs of Index::mark_dirty tell every change of an *)
(* interface, of an owner or of a path that an analysis went through.      *)
THEOREM HitsAreFresh == Spec => []HitIsFresh
<1>1. Init => IndexInv /\ HitInv
  BY IndexInit, HitInit
<1>2. IndexInv /\ HitInv /\ [Next]_vars => IndexInv' /\ HitInv'
  BY IndexNext, HitNext
<1>3. HitInv => HitIsFresh
  BY DEF HitInv, CacheGood, FreshFor, HitIsFresh, FreshIn, Fresh, Exact
<1> QED
  BY <1>1, <1>2, <1>3, PTL DEF Spec
-----------------------------------------------------------------------------
(* A report answered unchanged is fresh                                    *)

(* What an id vouches for, as long as epoch and generation stand.          *)
HonestAt(x, r, p, s, g) ==
  r.id # None =>
    /\ r.grade # "shed"
    /\ r.id.epoch \in Nat /\ r.id.epoch <= x.epochs[p]
    /\ r.id.generation \in Nat /\ r.id.generation <= g
    /\ (p \in Live(x) /\ r.id.epoch = x.epochs[p] /\ r.id.generation = g
        /\ r.grade = "complete") => FreshIn(x, s, r.entry, p)
(* A report of an earlier workspace vouches for nothing.                   *)
VouchedAt(x, r, p, s, g) == /\ r.life \in Nat /\ r.life <= life
                            /\ r.life = life => HonestAt(x, r, p, s, g)
IdInv == \A p \in Paths : VouchedAt(idx, shown[p], p, setting, generation)

LEMMA HonestAdvances ==
  ASSUME NEW x, NEW y, Advances(x, y), NEW r, NEW p \in Paths, NEW s, NEW g,
         HonestAt(x, r, p, s, g)
  PROVE  HonestAt(y, r, p, s, g)
<1>1. /\ x.epochs[p] \in Nat /\ y.epochs[p] \in Nat /\ y.epochs[p] >= x.epochs[p]
  BY DEF Advances, Monotone
<1>2. ASSUME r.id # None, p \in Live(y), r.id.epoch = y.epochs[p], r.id.generation = g,
             r.grade = "complete"
      PROVE  FreshIn(y, s, r.entry, p)
  <2>1. r.id.epoch \in Nat /\ r.id.epoch <= x.epochs[p]
    BY <1>2 DEF HonestAt
  <2>2. x.epochs[p] = y.epochs[p]
    BY <1>1, <1>2, <2>1
  <2>3. p \in Live(x)
    BY <1>2, <2>2 DEF Advances, Tracks, Unmoved
  <2>4. FreshIn(x, s, r.entry, p)
    BY <1>2, <2>2, <2>3 DEF HonestAt
  <2> QED
    BY <1>2, <2>2, <2>4, FreshAdvances
<1>3. r.id # None => r.id.epoch <= y.epochs[p]
  BY <1>1 DEF HonestAt
<1> QED
  BY <1>2, <1>3 DEF HonestAt

LEMMA PublishVouches ==
  ASSUME NEW x, NEW c, NEW S, NEW s, NEW g, NEW held, Publish(x, c, S, s, held),
         life \in Nat, NEW p \in Paths, VouchedAt(x, held[p], p, s, g)
  PROVE  VouchedAt(x, shown'[p], p, s, g)
<1>1. CASE pull
  BY <1>1 DEF Publish
<1>2. CASE ~ pull
  <2>1. PICK B : shown' = [q \in Paths |-> IF q \in S THEN Report(x, c, q, q \in B, s, None)
                                           ELSE held[q]]
    BY <1>2 DEF Publish
  <2>2. CASE p \in S
    <3>1. shown'[p].id = None /\ shown'[p].life = life
      BY <2>1, <2>2 DEF Report
    <3> QED
      BY <3>1 DEF VouchedAt, HonestAt
  <2>3. CASE p \notin S
    BY <2>1, <2>3
  <2> QED
    BY <2>2, <2>3
<1> QED
  BY <1>1, <1>2

LEMMA RepublishVouches ==
  ASSUME NEW x, Advances(idx, x), IdInv, life \in Nat, NEW c,
         NEW held, \A p \in Paths : held[p] \in {NoReport, shown[p]},
         NEW Self, NEW opened, Republish(x, c, held, Self, opened),
         life' = life, setting' = setting, generation' = generation
  PROVE  IdInv'
<1>1. ASSUME NEW p \in Paths
      PROVE  VouchedAt(idx', shown'[p], p, setting, generation)
  <2>1. VouchedAt(idx, held[p], p, setting, generation)
    BY DEF IdInv, NoReport, VouchedAt, HonestAt
  <2>2. VouchedAt(x, held[p], p, setting, generation)
    BY <2>1, HonestAdvances DEF VouchedAt
  <2>3. VouchedAt(x, shown'[p], p, setting, generation)
    BY <2>2, PublishVouches DEF Republish
  <2>4. Advances(x, idx')
    BY DrainAdvances DEF Republish, Advances
  <2> QED
    BY <2>3, <2>4, HonestAdvances DEF VouchedAt
<1> QED
  BY <1>1 DEF IdInv, VouchedAt

LEMMA IdInit == Init => IdInv
<1> SUFFICES ASSUME Init, NEW p \in Paths
             PROVE  VouchedAt(idx, shown[p], p, setting, generation)
  BY DEF IdInv
<1>1. shown[p] = NoReport /\ life = 0
  BY DEF Init
<1>2. shown[p].id = None /\ shown[p].life = 0
  BY <1>1 DEF NoReport
<1> QED
  BY <1>1, <1>2 DEF VouchedAt, HonestAt

LEMMA PullVouches ==
  ASSUME IndexInv, HitInv, IdInv, life \in Nat, generation \in Nat, OnPaths(shown),
         NEW p \in Paths, Pull(p)
  PROVE  IdInv'
<1> DEFINE id == ResultId(idx, cache, p)
<1>1. /\ idx' = idx /\ life' = life /\ setting' = setting /\ generation' = generation
  BY DEF Pull
<1>2. \A q \in Paths : VouchedAt(idx, shown[q], q, setting, generation)
  BY DEF IdInv
<1>3. CASE shown' = shown
  BY <1>1, <1>2, <1>3 DEF IdInv, VouchedAt
<1>4. ASSUME NEW bails,
             shown' = [shown EXCEPT ![p] = Report(idx, cache, p, bails, setting, id)]
      PROVE  IdInv'
  <2> DEFINE r == Report(idx, cache, p, bails, setting, id)
             o == Outcome(idx, cache, p, bails, setting)
  <2>1. shown'[p] = r /\ \A q \in Paths \ {p} : shown'[q] = shown[q]
    BY <1>4, ExceptOnPaths
  <2>2. r.life = life /\ r.id = id /\ r.grade = o.grade /\ r.entry = o.entry
    BY DEF Report
  <2>3. ASSUME id # None
        PROVE  /\ ~ (hard /\ ~ Hits(idx, cache, p))
               /\ id.epoch = idx.epochs[p] /\ id.generation = generation
    BY <2>3 DEF ResultId
  <2>4. idx.epochs[p] \in Nat
    BY IndexFields DEF IndexInv, Good, Sound
  <2>5. ASSUME id # None PROVE o.grade # "shed"
    BY <2>3, <2>5 DEF Outcome
  <2>6. ASSUME p \in Live(idx), o.grade = "complete" PROVE FreshIn(idx, setting, o.entry, p)
    BY <2>6, OutcomeIsFresh DEF HitInv
  <2> HIDE DEF r, o, id
  <2>7. VouchedAt(idx, r, p, setting, generation)
    BY <2>2, <2>3, <2>4, <2>5, <2>6 DEF VouchedAt, HonestAt
  <2> QED
    BY <1>1, <1>2, <2>1, <2>7 DEF IdInv, VouchedAt
<1> QED
  BY <1>3, <1>4 DEF Pull

(* What is left by a handler that moved the index on, or republished.      *)
LEMMA VouchesOn ==
  ASSUME NEW y, Advances(idx, y), IdInv, idx' = y, life \in Nat, life' = life,
         setting' = setting, generation' = generation, NEW c, NEW S,
         shown' = shown \/ Publish(y, c, S, setting, shown)
  PROVE  IdInv'
<1>1. ASSUME NEW p \in Paths
      PROVE  VouchedAt(y, shown'[p], p, setting, generation)
  <2>1. VouchedAt(y, shown[p], p, setting, generation)
    BY HonestAdvances DEF IdInv, VouchedAt
  <2> QED
    BY <2>1, PublishVouches
<1> QED
  BY <1>1 DEF IdInv, VouchedAt

(* A wholesale invalidation outdates every id there is.                    *)
LEMMA OutdatedVouches ==
  ASSUME NEW x, NEW y, Advances(x, y), NEW r, NEW p \in Paths, NEW s, NEW s2, NEW g \in Nat,
         VouchedAt(x, r, p, s, g)
  PROVE  VouchedAt(y, r, p, s2, g + 1)
<1>1. /\ x.epochs[p] \in Nat /\ y.epochs[p] \in Nat /\ y.epochs[p] >= x.epochs[p]
  BY DEF Advances, Monotone
<1>2. ASSUME r.life = life PROVE HonestAt(y, r, p, s2, g + 1)
  <2>1. HonestAt(x, r, p, s, g)
    BY <1>2 DEF VouchedAt
  <2>2. ASSUME r.id # None
        PROVE  /\ r.id.epoch <= y.epochs[p]
               /\ r.id.generation <= g + 1 /\ r.id.generation # g + 1
    BY <1>1, <2>1, <2>2 DEF HonestAt
  <2> QED
    BY <2>1, <2>2 DEF HonestAt
<1> QED
  BY <1>2 DEF VouchedAt

LEMMA IdNext ==
  IndexInv /\ CountInv /\ ClosedUnheld /\ HitInv /\ IdInv /\ [Next]_vars => IdInv'
<1> SUFFICES ASSUME IndexInv, CountInv, ClosedUnheld, HitInv, IdInv, [Next]_vars
             PROVE  IdInv'
  OBVIOUS
<1>0. /\ Good(idx) /\ OnPaths(shown)
      /\ life \in Nat /\ generation \in Nat
  BY AnalysisConstants DEF IndexInv, ClosedUnheld, CountInv, AnalysisConstants
<1>a. \A p \in Paths : shown[p] \in {NoReport, shown[p]}
  OBVIOUS
<1>1. ASSUME NEW x, Advances(idx, x), NEW c, NEW held,
             \A p \in Paths : held[p] \in {NoReport, shown[p]},
             NEW Self, NEW opened, Republish(x, c, held, Self, opened),
             UNCHANGED <<generation, setting, life>>
      PROVE  IdInv'
  BY <1>0, <1>1, RepublishVouches
<1>2. ASSUME NEW p \in Paths, NEW t \in Versions[p], Edit(p, t) \/ FileChanged(p, t)
      PROVE  IdInv'
  <2>1. t \in Texts
    BY VersionsAreTexts
  <2>2. Advances(idx, OnFileChanged(idx, p, t))
    BY <1>0, <2>1, ChangedAdvances
  <2>3. CASE Edit(p, t)
    BY <1>a, <1>1, <2>2, <2>3 DEF Edit
  <2>4. CASE FileChanged(p, t)
    BY <1>a, <1>1, <2>2, <2>4 DEF FileChanged
  <2> QED
    BY <1>2, <2>3, <2>4
<1>3. ASSUME NEW p \in Paths, Close(p)
      PROVE  IdInv'
  <2> DEFINE held == [shown EXCEPT ![p] = NoReport]
  <2>1. PICK x \in {OnFileChanged(idx, p, t) : t \in Versions[p]}
                   \cup {OnFileRemoved(idx, p), idx} :
          Republish(x, Forget(p), held, {p}, Open \ {p})
    BY <1>3 DEF Close
  <2>2. \A q \in Paths : held[q] \in {NoReport, shown[q]}
    BY <1>0, ExceptOnPaths
  <2> HIDE DEF held
  <2>3. Advances(idx, x)
    BY <1>0, <2>1, VersionsAreTexts, ChangedAdvances, RemovedAdvances, StillAdvances
  <2>4. UNCHANGED <<generation, setting, life>>
    BY <1>3 DEF Close
  <2> QED
    BY <1>1, <2>1, <2>2, <2>3, <2>4
<1>4. ASSUME NEW p \in Paths, FileRemoved(p)
      PROVE  IdInv'
  BY <1>0, <1>a, <1>1, <1>4, RemovedAdvances DEF FileRemoved
<1>5. ASSUME NEW p \in Paths, Reopen(p)
      PROVE  IdInv'
  <2>1. buffer[p] \in Texts
    BY <1>5 DEF Reopen, Open, IndexInv
  <2>2. Advances(idx, OnFileChanged(idx, p, buffer[p]))
    BY <1>0, <2>1, ChangedAdvances
  <2>3. \/ shown' = shown
        \/ \E S : Publish(OnFileChanged(idx, p, buffer[p]), cache, S, setting, shown)
    BY <1>5 DEF Reopen, RepublishAll
  <2> QED
    BY <1>0, <1>5, <2>2, <2>3, VouchesOn DEF Reopen
<1>6. ASSUME NEW u \in Uids, NEW p \in Paths \cup {None}, UidChanged(u, p)
      PROVE  IdInv'
  <2> DEFINE m == [idx.uids EXCEPT ![u] = p]
  <2>1. m \in [Uids -> Paths \cup {None}]
    BY <1>0, ReplaceUid DEF Good, Sound
  <2>2. Republish(SetUids(idx, m), cache, shown, {}, Open) /\ UNCHANGED <<generation, setting, life>>
    BY <1>6 DEF UidChanged
  <2> HIDE DEF m
  <2> QED
    BY <1>0, <1>a, <1>1, <2>1, <2>2, UidsAdvance
<1>7. ASSUME NEW s \in Settings, NEW m \in UidMaps, Reload(s, m)
      PROVE  IdInv'
  <2>1. /\ setting' = s /\ generation' = generation + 1 /\ life' = life
        /\ idx' = SetUids(idx, m) /\ Publish(SetUids(idx, m), NoEntries, Open, s, shown)
    BY <1>7 DEF Reload, RepublishAll
  <2>2. Advances(idx, SetUids(idx, m))
    BY <1>0, UidMapsAreMaps, UidsAdvance
  <2>3. ASSUME NEW p \in Paths
        PROVE  VouchedAt(SetUids(idx, m), shown'[p], p, s, generation + 1)
    <3>1. VouchedAt(idx, shown[p], p, setting, generation)
      BY DEF IdInv
    <3>2. VouchedAt(SetUids(idx, m), shown[p], p, s, generation + 1)
      BY <1>0, <2>2, <3>1, OutdatedVouches
    <3> QED
      BY <1>0, <2>1, <3>2, PublishVouches
  <2> QED
    BY <2>1, <2>3 DEF IdInv, VouchedAt
<1>8. ASSUME NEW s \in Settings, NEW files \in Projects, NEW m \in UidMaps,
             ChangeDialect(s, files, m)
      PROVE  IdInv'
  <2>1. life' = life + 1
    BY <1>8 DEF ChangeDialect
  <2>2. shown' = shown \/ (Open = {} /\ Publish(idx', NoEntries, Open, s, shown))
    BY <1>8 DEF ChangeDialect, RepublishAll
  <2>3. \A p \in Paths : shown'[p] = shown[p]
    BY <1>0, <2>2, PublishHolds
  <2>4. \A p \in Paths : shown[p].life \in Nat /\ shown[p].life <= life
    BY DEF IdInv, VouchedAt
  <2>5. \A p \in Paths : /\ shown'[p].life \in Nat /\ shown'[p].life <= life'
                          /\ shown'[p].life # life'
    BY <1>0, <2>1, <2>3, <2>4
  <2> QED
    BY <2>5 DEF IdInv, VouchedAt
<1>9. ASSUME NEW p \in Paths, Pull(p)
      PROVE  IdInv'
  BY <1>0, <1>9, PullVouches
<1>10. CASE \/ \E p \in Paths : Analyze(p)
            \/ \E S \in SUBSET Paths : React(S)
            \/ UNCHANGED vars
  <2>1. UNCHANGED <<idx, shown, generation, setting, life>>
    BY <1>10 DEF Analyze, React, vars
  <2> QED
    BY <2>1 DEF IdInv, VouchedAt
<1> QED
  BY <1>2, <1>3, <1>4, <1>5, <1>6, <1>7, <1>8, <1>9, <1>10 DEF Next

(* document_diagnostic answers unchanged only where the report the client  *)
(* holds was not shed and, if complete, is what an analysis would find:    *)
(* the id of result_id_for misses nothing while the workspace lives.       *)
THEOREM UnchangedIsFresh == Spec => []UnchangedIsHonest
<1> DEFINE All == IndexInv /\ CountInv /\ ClosedUnheld /\ OpenIndexed /\ HitInv /\ IdInv
<1>1. Init => All
  BY IndexInit, CountInit, ClosedUnheldInit, OpenIndexedInit, HitInit, IdInit
<1>2. All /\ [Next]_vars => All'
  BY IndexNext, CountNext, ClosedUnheldNext, OpenIndexedNext, HitNext, IdNext
<1>3. All => UnchangedIsHonest
  <2> SUFFICES ASSUME All, NEW p \in Open, Stands(p), shown[p].life = life
               PROVE  /\ shown[p].grade # "shed"
                      /\ shown[p].grade = "complete" => Fresh(shown[p].entry, p)
    BY DEF UnchangedIsHonest
  <2>1. p \in Paths /\ p \in Live(idx)
    BY NoneApart DEF Open, OpenIndexed, Stands, Live
  <2>2. HonestAt(idx, shown[p], p, setting, generation)
    BY <2>1 DEF IdInv, VouchedAt
  <2>3. /\ shown[p].id # None
        /\ shown[p].id.epoch = idx.epochs[p] /\ shown[p].id.generation = generation
    BY DEF Stands, ResultId
  <2> QED
    BY <2>1, <2>2, <2>3 DEF HonestAt, FreshIn, Fresh, Exact
<1> QED
  BY <1>1, <1>2, <1>3, PTL DEF Spec
-----------------------------------------------------------------------------
(* The client is in step                                                   *)

InStep(x, s, r, p) == r.life = life /\ r.grade = "complete" => FreshIn(x, s, r.entry, p)
Current(p) == /\ ~ pull => shown[p].text = buffer[p] /\ shown[p].life = life
              /\ p \notin refresh => InStep(idx, setting, shown[p], p)
StepInv == /\ ~ pull => refresh = {}
           /\ reopening = {} => \A p \in Open : Current(p)

LEMMA ReportInStep ==
  ASSUME NEW x, NEW c, NEW s, CacheGood(x, c, s), NEW p \in Live(x), NEW bails, NEW id
  PROVE  InStep(x, s, Report(x, c, p, bails, s, id), p)
<1> DEFINE r == Report(x, c, p, bails, s, id)
           o == Outcome(x, c, p, bails, s)
<1>1. r.grade = o.grade /\ r.entry = o.entry
  BY DEF Report
<1>2. o.grade = "complete" => FreshIn(x, s, o.entry, p)
  BY OutcomeIsFresh
<1> HIDE DEF r, o
<1>3. InStep(x, s, r, p)
  BY <1>1, <1>2 DEF InStep
<1> QED
  BY <1>3 DEF r

LEMMA InStepAdvances ==
  ASSUME NEW x, NEW y, Advances(x, y), NEW s, NEW r, NEW p \in Live(y),
         y.epochs[p] = x.epochs[p], InStep(x, s, r, p)
  PROVE  InStep(y, s, r, p)
BY FreshAdvances DEF InStep

(* A publication gives each open buffer of S a report of its text.         *)
LEMMA PublishInStep ==
  ASSUME NEW x, NEW c, NEW s, CacheGood(x, c, s), NEW S, NEW held, ~ pull,
         Publish(x, c, S, s, held), NEW p \in Live(x), p \in S
  PROVE  /\ shown'[p].text = x.iface[p] /\ shown'[p].life = life
         /\ InStep(x, s, shown'[p], p)
<1>1. p \in Paths
  BY DEF Live
<1>2. PICK B : shown' = [q \in Paths |-> IF q \in S THEN Report(x, c, q, q \in B, s, None)
                                         ELSE held[q]]
  BY DEF Publish
<1>3. shown'[p] = Report(x, c, p, p \in B, s, None)
  BY <1>1, <1>2
<1>4. InStep(x, s, Report(x, c, p, p \in B, s, None), p)
  BY ReportInStep
<1>5. shown'[p].text = x.iface[p] /\ shown'[p].life = life
  BY <1>3 DEF Report
<1> QED
  BY <1>3, <1>4, <1>5

LEMMA RepublishInStep ==
  ASSUME NEW x, Advances(idx, x), Told(idx, x), HitInv, StepInv, reopening = {},
         NEW c, \A p \in Paths : c[p] \in {None, cache[p]},
         NEW held, OnPaths(held), NEW Self, NEW opened, Republish(x, c, held, Self, opened),
         Open' = opened, OpenIndexed', reopening' = {},
         \A p \in opened \ Self : p \in Open /\ buffer'[p] = buffer[p] /\ held[p] = shown[p],
         UNCHANGED <<setting, pull, life>>
  PROVE  StepInv'
<1>1. Good(x) /\ Advances(x, idx') /\ idx'.epochs = x.epochs /\ SameFacts(x, idx')
  BY DrainAdvances, TakeDirtyKeeps DEF Republish, Advances
<1>2. idx'.iface = x.iface
  BY <1>1 DEF SameFacts
<1>3. CacheGood(x, c, setting)
  BY CacheLoses, CacheAdvances DEF HitInv
<1>4. ASSUME NEW p \in opened
      PROVE  p \in Paths /\ p \in Live(x) /\ p \in Live(idx') /\ x.iface[p] = buffer'[p]
  <2>1. p \in Open' /\ p \in Open' \ reopening'
    OBVIOUS
  <2>2. p \in Paths /\ buffer'[p] # None
    BY <2>1 DEF Open
  <2>3. idx'.iface[p] = buffer'[p]
    BY <2>1 DEF OpenIndexed
  <2> QED
    BY <1>2, <2>2, <2>3 DEF Live
(* What was in step and is neither published nor dirty stays so.           *)
<1>5. ASSUME NEW p \in opened, p \notin Self, p \notin x.dirty,
             InStep(idx, setting, shown[p], p)
      PROVE  InStep(idx', setting, shown[p], p)
  <2>1. p \in Live(x) /\ p \in Live(idx')
    BY <1>4
  <2>2. x.epochs[p] = idx.epochs[p]
    BY <1>5, <2>1 DEF Told
  <2>3. InStep(x, setting, shown[p], p)
    BY <1>5, <2>1, <2>2, InStepAdvances
  <2> QED
    BY <1>1, <2>1, <2>3, InStepAdvances
<1>6. \A p \in Open : Current(p)
  BY DEF StepInv
<1>7. CASE pull
  <2>1. /\ shown' = held
        /\ refresh' = IF x.dirty \ Self # {} THEN opened ELSE (refresh \cup Self) \cap opened
    BY <1>7 DEF Republish, Publish
  <2>2. ASSUME NEW p \in opened, p \notin refresh'
        PROVE  InStep(idx', setting, shown'[p], p)
    <3>1. x.dirty \subseteq Self /\ p \notin Self /\ p \notin refresh
      BY <2>1, <2>2
    <3>2. p \in Open /\ shown'[p] = shown[p]
      BY <2>1, <3>1
    <3>3. InStep(idx, setting, shown[p], p)
      BY <1>6, <3>1, <3>2 DEF Current
    <3> QED
      BY <1>5, <3>1, <3>2, <3>3
  <2> QED
    BY <1>7, <2>2 DEF StepInv, Current, InStep
<1>8. CASE ~ pull
  <2> DEFINE S == (Self \cup x.dirty) \cap opened
  <2>1. refresh' = {} /\ Publish(x, c, S, setting, held)
    BY <1>8 DEF Republish
  <2>2. ASSUME NEW p \in opened
        PROVE  /\ shown'[p].text = buffer'[p] /\ shown'[p].life = life
               /\ InStep(idx', setting, shown'[p], p)
    <3>1. p \in Live(x) /\ p \in Live(idx') /\ p \in Paths /\ x.iface[p] = buffer'[p]
      BY <1>4
    <3>2. CASE p \in S
      <4>1. /\ shown'[p].text = x.iface[p] /\ shown'[p].life = life
            /\ InStep(x, setting, shown'[p], p)
        BY <1>3, <1>8, <2>1, <3>1, <3>2, PublishInStep
      <4> QED
        BY <1>1, <3>1, <4>1, InStepAdvances
    <3>3. CASE p \notin S
      <4>1. p \notin Self /\ p \notin x.dirty
        BY <3>3
      <4>2. p \in Open /\ buffer'[p] = buffer[p] /\ held[p] = shown[p]
        BY <4>1
      <4>3. shown'[p] = held[p]
        BY <2>1, <3>1, <3>3, PublishHolds
      <4>4. refresh = {} /\ Current(p)
        BY <1>6, <1>8, <4>2 DEF StepInv
      <4>5. /\ shown[p].text = buffer[p] /\ shown[p].life = life
            /\ InStep(idx, setting, shown[p], p)
        BY <1>8, <4>4 DEF Current
      <4> QED
        BY <1>5, <4>1, <4>2, <4>3, <4>5
    <3> QED
      BY <3>2, <3>3
  <2> QED
    BY <2>1, <2>2 DEF StepInv, Current, InStep
<1> QED
  BY <1>7, <1>8

LEMMA RepublishAllInStep ==
  ASSUME NEW y, Good(y), NEW c, NEW s, CacheGood(y, c, s), RepublishAll(y, c, s),
         idx' = y, setting' = s, Open' = Open, OpenIndexed', reopening' = {},
         UNCHANGED <<pull, life, buffer>>
  PROVE  StepInv'
<1>1. ASSUME NEW p \in Open
      PROVE  p \in Live(y) /\ y.iface[p] = buffer[p]
  <2>1. p \in Open' \ reopening' /\ buffer[p] # None /\ p \in Paths
    BY DEF Open
  <2>2. idx'.iface[p] = buffer'[p]
    BY <2>1 DEF OpenIndexed
  <2> QED
    BY <2>1, <2>2 DEF Live
<1>2. CASE pull
  BY <1>2 DEF RepublishAll, StepInv, Current
<1>3. CASE ~ pull
  <2>1. Publish(y, c, Open, s, shown) /\ refresh' = {}
    BY <1>3 DEF RepublishAll
  <2>2. ASSUME NEW p \in Open
        PROVE  /\ shown'[p].text = buffer[p] /\ shown'[p].life = life
               /\ InStep(y, s, shown'[p], p)
    BY <1>1, <1>3, <2>1, PublishInStep
  <2> QED
    BY <2>1, <2>2 DEF StepInv, Current, InStep
<1> QED
  BY <1>2, <1>3

LEMMA StepInit == Init => StepInv
BY DEF Init, StepInv, Open

LEMMA PullInStep ==
  ASSUME IndexInv, HitInv, IdInv, StepInv, OpenIndexed, OnPaths(shown),
         NEW p \in Paths, Pull(p)
  PROVE  StepInv'
<1> DEFINE id == ResultId(idx, cache, p)
<1>1. /\ pull /\ reopening = {} /\ p \in Open /\ refresh' = refresh \ {p}
      /\ UNCHANGED <<idx, buffer, setting, pull, reopening, life>>
  BY DEF Pull
<1>2. Open' = Open
  BY <1>1 DEF Open
<1>3. p \in Live(idx)
  BY <1>1, NoneApart DEF Open, OpenIndexed, Live
<1>4. \A q \in Open : q \notin refresh => InStep(idx, setting, shown[q], q)
  BY <1>1 DEF StepInv, Current
<1>5. CASE id # None /\ shown[p].id = id /\ shown' = shown
  <2>1. id.epoch = idx.epochs[p] /\ id.generation = generation
    BY <1>5 DEF ResultId
  <2>2. InStep(idx, setting, shown[p], p)
    BY <1>3, <1>5, <2>1 DEF IdInv, VouchedAt, HonestAt, InStep
  <2>3. \A q \in Open : q \notin refresh' => InStep(idx, setting, shown'[q], q)
    BY <1>1, <1>4, <1>5, <2>2
  <2> QED
    BY <1>1, <1>2, <2>3 DEF StepInv, Current, InStep
<1>6. ASSUME NEW bails,
             shown' = [shown EXCEPT ![p] = Report(idx, cache, p, bails, setting, id)]
      PROVE  StepInv'
  <2>1. /\ shown'[p] = Report(idx, cache, p, bails, setting, id)
        /\ \A q \in Paths \ {p} : shown'[q] = shown[q]
    BY <1>6, ExceptOnPaths
  <2>2. InStep(idx, setting, shown'[p], p)
    BY <1>3, <2>1, ReportInStep DEF HitInv
  <2>3. \A q \in Open : q \notin refresh' => InStep(idx, setting, shown'[q], q)
    BY <1>1, <1>4, <2>1, <2>2 DEF Open
  <2> QED
    BY <1>1, <1>2, <2>3 DEF StepInv, Current, InStep
<1> QED
  BY <1>5, <1>6 DEF Pull

LEMMA StepNext ==
  /\ IndexInv /\ CountInv /\ ClosedUnheld /\ OpenIndexed /\ HitInv /\ IdInv /\ StepInv
  /\ [Next]_vars /\ OpenIndexed'
  => StepInv'
<1> SUFFICES ASSUME IndexInv, CountInv, ClosedUnheld, OpenIndexed, HitInv, IdInv, StepInv,
                    [Next]_vars, OpenIndexed'
             PROVE  StepInv'
  OBVIOUS
<1>0. Good(idx) /\ OnPaths(shown) /\ OnPaths(buffer) /\ CacheGood(idx, cache, setting)
  BY DEF IndexInv, ClosedUnheld, HitInv
<1>a. \A p \in Paths : cache[p] \in {None, cache[p]}
  OBVIOUS
<1>b. \A p \in Paths, t \in Texts : Advances(idx, OnFileChanged(idx, p, t))
                                    /\ Told(idx, OnFileChanged(idx, p, t))
  BY <1>0, ChangedAdvances, ChangedTold
<1>c. \A p \in Paths : Advances(idx, OnFileRemoved(idx, p)) /\ Told(idx, OnFileRemoved(idx, p))
  BY <1>0, RemovedAdvances, RemovedTold
<1>1. ASSUME NEW p \in Paths, NEW t \in Versions[p], Edit(p, t)
      PROVE  StepInv'
  <2>1. t \in Texts /\ t # None
    BY VersionsAreTexts, NoneApart
  <2>2. /\ reopening = {} /\ reopening' = {} /\ UNCHANGED <<setting, pull, life>>
        /\ buffer' = [buffer EXCEPT ![p] = t]
        /\ Republish(OnFileChanged(idx, p, t), cache, shown, {p}, Open \cup {p})
    BY <1>1 DEF Edit, Event
  <2>3. buffer'[p] = t /\ \A q \in Paths \ {p} : buffer'[q] = buffer[q]
    BY <1>0, <2>2, ExceptOnPaths
  <2>4. Open' = Open \cup {p}
    BY <2>1, <2>3 DEF Open
  <2>5. \A q \in (Open \cup {p}) \ {p} : q \in Open /\ buffer'[q] = buffer[q] /\ shown[q] = shown[q]
    BY <2>3 DEF Open
  <2> QED
    BY <1>0, <1>a, <1>b, <2>1, <2>2, <2>4, <2>5, RepublishInStep
<1>2. ASSUME NEW p \in Paths, NEW t \in Versions[p], FileChanged(p, t)
      PROVE  StepInv'
  <2>1. t \in Texts
    BY VersionsAreTexts
  <2>2. /\ reopening = {} /\ reopening' = {} /\ UNCHANGED <<setting, pull, life, buffer>>
        /\ Republish(OnFileChanged(idx, p, t), cache, shown, {}, Open)
    BY <1>2 DEF FileChanged, Event
  <2>3. Open' = Open
    BY <2>2 DEF Open
  <2> QED
    BY <1>0, <1>a, <1>b, <2>1, <2>2, <2>3, RepublishInStep
<1>3. ASSUME NEW p \in Paths, Close(p)
      PROVE  StepInv'
  <2> DEFINE held == [shown EXCEPT ![p] = NoReport]
  <2>1. PICK x \in {OnFileChanged(idx, p, t) : t \in Versions[p]}
                   \cup {OnFileRemoved(idx, p), idx} :
          Republish(x, Forget(p), held, {p}, Open \ {p})
    BY <1>3 DEF Close
  <2>2. OnPaths(held) /\ \A q \in Paths \ {p} : held[q] = shown[q]
    BY <1>0, ExceptOnPaths
  <2> HIDE DEF held
  <2>3. Advances(idx, x) /\ Told(idx, x)
    BY <1>0, <1>b, <1>c, <2>1, VersionsAreTexts, StillAdvances
  <2>4. \A q \in Paths : Forget(p)[q] \in {None, cache[q]}
    BY DEF Forget
  <2>5. /\ reopening = {} /\ reopening' = {} /\ UNCHANGED <<setting, pull, life>>
        /\ buffer' = [buffer EXCEPT ![p] = None]
    BY <1>3 DEF Close, Event
  <2>6. buffer'[p] = None /\ \A q \in Paths \ {p} : buffer'[q] = buffer[q]
    BY <1>0, <2>5, ExceptOnPaths
  <2>7. Open' = Open \ {p}
    BY <2>6 DEF Open
  <2>8. \A q \in (Open \ {p}) \ {p} : q \in Open /\ buffer'[q] = buffer[q] /\ held[q] = shown[q]
    BY <2>2, <2>6 DEF Open
  <2> QED
    BY <2>1, <2>2, <2>3, <2>4, <2>5, <2>7, <2>8, RepublishInStep
<1>4. ASSUME NEW p \in Paths, FileRemoved(p)
      PROVE  StepInv'
  <2>1. /\ reopening = {} /\ reopening' = {} /\ UNCHANGED <<setting, pull, life, buffer>>
        /\ Republish(OnFileRemoved(idx, p), Forget(p), shown, {}, Open)
    BY <1>4 DEF FileRemoved, Event
  <2>2. Open' = Open
    BY <2>1 DEF Open
  <2>3. \A q \in Paths : Forget(p)[q] \in {None, cache[q]}
    BY DEF Forget
  <2> QED
    BY <1>0, <1>c, <2>1, <2>2, <2>3, RepublishInStep
<1>5. ASSUME NEW p \in Paths, Reopen(p)
      PROVE  StepInv'
  <2> DEFINE y == OnFileChanged(idx, p, buffer[p])
  <2>1. p \in reopening /\ reopening' = reopening \ {p} /\ idx' = y
        /\ UNCHANGED <<setting, pull, life, buffer>>
    BY <1>5 DEF Reopen
  <2>2. buffer[p] \in Texts
    BY <2>1 DEF IndexInv, Open
  <2>3. Good(y) /\ CacheGood(y, cache, setting)
    BY <1>0, <1>b, <2>2, CacheAdvances DEF Advances
  <2>4. Open' = Open
    BY <2>1 DEF Open
  <2> HIDE DEF y
  <2>5. CASE reopening = {p}
    <3>1. RepublishAll(y, cache, setting) /\ reopening' = {}
      BY <1>5, <2>1, <2>5 DEF Reopen
    <3> QED
      BY <2>1, <2>3, <2>4, <3>1, RepublishAllInStep
  <2>6. CASE reopening # {p}
    <3>1. refresh' = refresh /\ reopening' # {}
      BY <1>5, <2>1, <2>6 DEF Reopen
    <3> QED
      BY <2>1, <3>1 DEF StepInv
  <2> QED
    BY <2>5, <2>6
<1>6. ASSUME NEW u \in Uids, NEW p \in Paths \cup {None}, UidChanged(u, p)
      PROVE  StepInv'
  <2> DEFINE m == [idx.uids EXCEPT ![u] = p]
  <2>1. m \in [Uids -> Paths \cup {None}]
    BY <1>0, ReplaceUid DEF Good, Sound
  <2>2. /\ reopening = {} /\ reopening' = {} /\ UNCHANGED <<setting, pull, life, buffer>>
        /\ Republish(SetUids(idx, m), cache, shown, {}, Open)
    BY <1>6 DEF UidChanged, Event
  <2>3. Open' = Open
    BY <2>2 DEF Open
  <2> HIDE DEF m
  <2>4. Advances(idx, SetUids(idx, m)) /\ Told(idx, SetUids(idx, m))
    BY <1>0, <2>1, UidsAdvance, UidsTold
  <2> QED
    BY <1>0, <1>a, <2>2, <2>3, <2>4, RepublishInStep
<1>7. ASSUME NEW s \in Settings, NEW m \in UidMaps, Reload(s, m)
      PROVE  StepInv'
  <2>1. /\ reopening' = {} /\ setting' = s /\ UNCHANGED <<pull, life, buffer>>
        /\ idx' = SetUids(idx, m) /\ RepublishAll(SetUids(idx, m), NoEntries, s)
    BY <1>7 DEF Reload, Event
  <2>2. Open' = Open
    BY <2>1 DEF Open
  <2>3. Good(SetUids(idx, m)) /\ CacheGood(SetUids(idx, m), NoEntries, s)
    BY <1>0, UidMapsAreMaps, UidsKeep, NoEntriesIsFresh
  <2> QED
    BY <2>1, <2>2, <2>3, RepublishAllInStep
<1>8. ASSUME NEW s \in Settings, NEW files \in Projects, NEW m \in UidMaps,
             ChangeDialect(s, files, m)
      PROVE  StepInv'
  <2>1. /\ reopening' = Open /\ UNCHANGED <<pull, buffer>> /\ Open' = Open
    BY <1>8 DEF ChangeDialect, Open
  <2>2. refresh' = refresh \/ (~ pull => refresh' = {})
    BY <1>8 DEF ChangeDialect, RepublishAll
  <2> QED
    BY <2>1, <2>2 DEF StepInv
<1>9. ASSUME NEW p \in Paths, Pull(p)
      PROVE  StepInv'
  BY <1>0, <1>9, PullInStep
<1>10. CASE \/ \E p \in Paths : Analyze(p)
            \/ \E S \in SUBSET Paths : React(S)
            \/ UNCHANGED vars
  <2>1. UNCHANGED <<idx, buffer, setting, pull, shown, refresh, reopening, life>>
    BY <1>10 DEF Analyze, React, vars
  <2> QED
    BY <2>1 DEF StepInv, Current, InStep, Open
<1> QED
  BY <1>1, <1>2, <1>3, <1>4, <1>5, <1>6, <1>7, <1>8, <1>9, <1>10 DEF Next

(* Whoever holds a complete report of an open buffer, issued since the     *)
(* workspace was built, holds a fresh one or is to pull again; a client    *)
(* that is pushed to holds a report of the very text it has open: the one  *)
(* drain of the dirty set at the end of a handler reaches every buffer.    *)
THEOREM ClientsStayInStep == Spec => []ClientInStep
<1> DEFINE All == /\ IndexInv /\ CountInv /\ ClosedUnheld /\ OpenIndexed
                  /\ HitInv /\ IdInv /\ StepInv
<1>1. Init => All
  BY IndexInit, CountInit, ClosedUnheldInit, OpenIndexedInit, HitInit, IdInit, StepInit
<1>2. All /\ [Next]_vars => All'
  BY IndexNext, CountNext, ClosedUnheldNext, OpenIndexedNext, HitNext, IdNext, StepNext
<1>3. All => ClientInStep
  BY DEF StepInv, ClientInStep, Current, InStep, FreshIn, Fresh, Exact
<1> QED
  BY <1>1, <1>2, <1>3, PTL DEF Spec
-----------------------------------------------------------------------------
(* A body edit is local                                                    *)

(* The change of a body marks the file itself and no other.                *)
LEMMA BodyChangeMarksSelf ==
  ASSUME NEW x, Good(x), NEW p \in Live(x), NEW t \in Texts,
         Unit[t].sig = Unit[x.iface[p]].sig, x.dirty = {}
  PROVE  /\ OnFileChanged(x, p, t).dirty = {p}
         /\ \A q \in Paths \ {p} : OnFileChanged(x, p, t).epochs[q] = x.epochs[q]
<1> DEFINE set == SetInterface(x, p, t)
           y == Relink(set, {p})
           own == Mark(y, {p})
<1>1. p \in Paths /\ x.iface[p] # None /\ x.iface[p] \in Texts
  BY IndexFields DEF Live, Good, Sound
<1>2. InterfaceSet(x, p, t, set)
  BY <1>1, SetInterfaceKeeps DEF Good
<1>3. Unit[t].declares = x.declared[p]
  BY <1>1, IndexConstants DEF IndexConstants, Good, AllDeclared
<1>4. set.declared = x.declared
  BY <1>1, <1>2, <1>3, IndexFields DEF InterfaceSet, Good, Sound
<1>5. Renamed(x, p, t) = {}
  BY <1>4 DEF Renamed, Moved, Owner, Winners, Declarers
<1>6. OnFileChanged(x, p, t) = own
  BY <1>1, <1>5, ChangedInSteps DEF Named, Spread, SameSig, Own, RelinkNames
<1>7. /\ set \in Index /\ set.dirty = x.dirty /\ set.epochs = x.epochs
  <2>1. x \in Index
    BY DEF Good, Sound
  <2>2. set.dirty = x.dirty
    BY <2>1 DEF SetInterface, Index
  <2> QED
    BY <1>2, <2>2 DEF InterfaceSet, Sound
<1> HIDE DEF set
<1>8. y.dirty = x.dirty /\ y.epochs = x.epochs
  BY <1>7 DEF Relink, Index
<1> HIDE DEF y
<1>9. own.dirty = {p} /\ \A q \in Paths \ {p} : own.epochs[q] = x.epochs[q]
  BY <1>8 DEF Mark
<1> QED
  BY <1>6, <1>9

(* The step of BodyEditIsLocal for one buffer.                             *)
LEMMA EditIsLocal ==
  ASSUME IndexInv, ClosedUnheld, OpenIndexed, [Next]_vars, NEW p \in Open,
         buffer'[p] \notin {buffer[p], None}, Unit[buffer'[p]].sig = Unit[buffer[p]].sig,
         idx.dirty = {}
  PROVE  /\ \A q \in Paths \ {p} : idx'.epochs[q] = idx.epochs[q]
         /\ refresh' \subseteq refresh \cup {p}
<1>0. Good(idx) /\ OnPaths(buffer) /\ p \in Paths /\ buffer[p] # None
  BY DEF IndexInv, ClosedUnheld, Open
<1>1. ASSUME NEW q \in Paths, NEW t \in Versions[q], Edit(q, t)
      PROVE  q = p /\ t = buffer'[p]
  <2>1. buffer' = [buffer EXCEPT ![q] = t]
    BY <1>1 DEF Edit
  <2> QED
    BY <1>0, <2>1, ExceptOnPaths
<1>2. ASSUME NEW q \in Paths, Close(q) PROVE FALSE
  <2>1. buffer' = [buffer EXCEPT ![q] = None]
    BY <1>2 DEF Close
  <2> QED
    BY <1>0, <2>1, ExceptOnPaths
<1>3. buffer' # buffer
  OBVIOUS
<1>4. PICK t \in Versions[p] : Edit(p, t) /\ t = buffer'[p]
  BY <1>1, <1>2, <1>3
  DEF Next, FileChanged, FileRemoved, Reopen, Pull, Analyze, UidChanged, Reload,
      ChangeDialect, React, vars
<1> DEFINE z == OnFileChanged(idx, p, t)
<1>5. /\ reopening = {} /\ Republish(z, cache, shown, {p}, Open \cup {p})
  BY <1>4 DEF Edit, Event
<1>6. t \in Texts /\ p \in Live(idx) /\ idx.iface[p] = buffer[p]
  BY <1>0, <1>5, VersionsAreTexts DEF OpenIndexed, Live
<1>7. z.dirty = {p} /\ \A q \in Paths \ {p} : z.epochs[q] = idx.epochs[q]
  BY <1>0, <1>4, <1>6, BodyChangeMarksSelf
<1>8. Good(z)
  BY <1>0, <1>6, ChangedKeeps
<1> HIDE DEF z
<1>9. idx'.epochs = z.epochs
  BY <1>5, <1>8, TakeDirtyKeeps DEF Republish
<1>10. refresh' \subseteq refresh \cup {p}
  BY <1>5, <1>7 DEF Republish
<1> QED
  BY <1>7, <1>9, <1>10

(* A keystroke that leaves the interface as it was bumps the epoch of no   *)
(* other file and sends a client that pulls no refresh.                    *)
THEOREM BodyEditsAreLocal == Spec => BodyEditIsLocal
<1> DEFINE All == IndexInv /\ CountInv /\ ClosedUnheld /\ OpenIndexed
<1>1. Init => All
  BY IndexInit, CountInit, ClosedUnheldInit, OpenIndexedInit
<1>2. All /\ [Next]_vars => All'
  BY IndexNext, CountNext, ClosedUnheldNext, OpenIndexedNext
<1>3. All /\ [Next]_vars =>
        [\A p \in Open :
           /\ buffer'[p] \notin {buffer[p], None}
           /\ Unit[buffer'[p]].sig = Unit[buffer[p]].sig
           /\ idx.dirty = {}
           => /\ \A q \in Paths \ {p} : idx'.epochs[q] = idx.epochs[q]
              /\ refresh' \subseteq refresh \cup {p}]_vars
  BY EditIsLocal
<1> QED
  BY <1>1, <1>2, <1>3, PTL DEF Spec, BodyEditIsLocal
=============================================================================
