------------------------------ MODULE Analysis ------------------------------
(***************************************************************************)
(* Analyses and the diagnostics a client holds: the analysis cache keyed   *)
(* by text and epoch, push and pull diagnostics, the handlers that change  *)
(* the index and republish, the reloads that clear the cache, and memory   *)
(* pressure (crates/gd_server/src/{workspace,server}.rs).                  *)
(*                                                                         *)
(* Each action is one handler of the event loop, to its end.  What the     *)
(* disk holds, and when an event arrives, is Freshness's subject: here a   *)
(* file event brings any text.                                             *)
(***************************************************************************)
EXTENDS ProjectIndex, FiniteSets

CONSTANTS
  Settings,  \* what every analysis depends on: warning policy, analyzer
             \* knobs, native classes, autoloads, dialect
  Versions,  \* path -> the texts it is given
  Projects,  \* what the disk may hold when a workspace is built
  UidMaps,   \* what the .uid sidecars may declare then
  Heavy,     \* texts whose analysis may trip the iteration cap
  MaxOpen,   \* bound on the buffers open at once
  MaxOps,    \* bound on the events that change the index or the setting
  MaxLives   \* bound on the workspaces built

ASSUME AnalysisConstants ==
  /\ Versions \in [Paths -> SUBSET Texts]
  /\ Projects \subseteq [Paths -> Texts \cup {None}]
  /\ UidMaps \subseteq [Uids -> Paths \cup {None}]
  /\ Heavy \subseteq Texts
  /\ MaxOpen \in Nat /\ MaxOps \in Nat /\ MaxLives \in Nat

VARIABLES
  idx,        \* Workspace::index
  buffer,     \* the VFS: path -> text of its open buffer, or None
  cache,      \* Workspace::analysis_cache: path -> entry, or None
  generation, \* Workspace::analysis_generation
  setting,
  hard,       \* ServerState::memory_pressure is Hard
  pull,       \* the client pulls diagnostics
  shown,      \* path -> what the client holds for it, or NoReport
  refresh,    \* open paths edited, or asked for by a refresh request, and
              \* not pulled since
  reopening,  \* open buffers a rebuilt workspace has not yet reindexed
  life,       \* how many workspaces were built before this one
  ops         \* events so far

vars == <<idx, buffer, cache, generation, setting, hard, pull, shown, refresh,
          reopening, life, ops>>

Open == {p \in Paths : buffer[p] # None}
-----------------------------------------------------------------------------
(* What an analysis of f reads, so that two analyses of one text in one    *)
(* setting agree exactly when their views do: every name and literal of f, *)
(* and the interfaces they lead to, transitively, with their names and     *)
(* literals.  Of another file than f, bodies and preloads are not read.    *)
ReadName(x, n) ==
  LET o == Owner(x, n) IN
  IF o # None THEN o
  ELSE IF Autoload[n] # None /\ x.iface[Autoload[n]] # None THEN Autoload[n] ELSE None
ReadNames(x, f, g) == IF g = f THEN NamesOf(x, g) \cup BodyOf(x, g) ELSE ShownNames(x, g)
ReadLiterals(x, f, g) == IF g = f THEN LiteralsOf(x, g) ELSE ExposedOf(x, g)
Leads(x, f, g) == ({ReadName(x, n) : n \in ReadNames(x, f, g)}
                   \cup {Resolve(x, l) : l \in ReadLiterals(x, f, g)}) \ {None}
Reached(x, f) == {g \in Paths : \A S \in SUBSET Paths :
                    (f \in S /\ \A h \in S : Leads(x, f, h) \subseteq S) => g \in S}
View(x, f) == [g \in Reached(x, f) |->
                 [sig      |-> Unit[x.iface[g]].sig,
                  names    |-> [n \in ReadNames(x, f, g) |-> ReadName(x, n)],
                  literals |-> [l \in ReadLiterals(x, f, g) |-> Resolve(x, l)]]]

Entry(x, f, s) == [text |-> x.iface[f], epoch |-> x.epochs[f],
                   view |-> View(x, f), setting |-> s]

(* The epoch-exact lookup of analyze_with_options and cached_analysis.     *)
Hits(x, c, p) == /\ c[p] # None
                 /\ c[p].text = x.iface[p]
                 /\ c[p].epoch = x.epochs[p]

(* analyze_gd: what a diagnostics handler gets for p in setting s, given   *)
(* that the analysis bails or not.  A bailed analysis is not cached; a     *)
(* complete one of the same text is served in its place, whatever its      *)
(* epoch.                                                                  *)
Outcome(x, c, p, bails, s) ==
  IF Hits(x, c, p) THEN [grade |-> "complete", entry |-> c[p]]
  ELSE IF hard THEN [grade |-> "shed", entry |-> None]
  ELSE IF ~bails THEN [grade |-> "complete", entry |-> Entry(x, p, s)]
  ELSE IF c[p] # None /\ c[p].text = x.iface[p]
       THEN [grade |-> "recovered", entry |-> c[p]]
       ELSE [grade |-> "partial", entry |-> None]

Put(x, c, S, B, s) ==
  [p \in Paths |-> LET o == Outcome(x, c, p, p \in B, s)
                   IN  IF p \in S /\ o.grade = "complete" THEN o.entry ELSE c[p]]

(* Mutant: an id for a report that will be shed.                           *)
ResultIdAlways(x, c, p) ==
  [text |-> x.iface[p], epoch |-> x.epochs[p], generation |-> generation]

(* result_id_for, taken before the items are computed.  The version of the *)
(* document is left out: it changes only when the buffer does.             *)
ResultId(x, c, p) ==
  IF hard /\ ~Hits(x, c, p) THEN None
  ELSE [text |-> x.iface[p], epoch |-> x.epochs[p], generation |-> generation]

NoReport == [text |-> None, grade |-> "none", entry |-> None, id |-> None, life |-> 0]
Report(x, c, p, bails, s, id) ==
  LET o == Outcome(x, c, p, bails, s)
  IN  [text |-> x.iface[p], grade |-> o.grade, entry |-> o.entry, id |-> id, life |-> life]

(* publish_diagnostics for the open buffers of S in setting s.  What held  *)
(* says the client holds stays for the others.                             *)
MayBail(x) == SUBSET {p \in Paths : x.iface[p] \in Heavy}
Publish(x, c, S, s, held) ==
  IF pull THEN cache' = c /\ shown' = held
  ELSE \E B \in MayBail(x) :
         /\ cache' = Put(x, c, S, B, s)
         /\ shown' = [p \in Paths |-> IF p \in S THEN Report(x, c, p, p \in B, s, None)
                                      ELSE held[p]]

(* Mutant: the other files wait for the next batch.                        *)
RepublishSelf(x, c, held, Self, opened) ==
  /\ idx' = x
  /\ Publish(x, c, Self \cap opened, setting, held)
  /\ refresh' = IF pull THEN (refresh \cup Self) \cap opened ELSE {}

(* What every handler that moved the index to x ends with: its own file    *)
(* (of Self, empty for a file event) is published, the dirty set drained   *)
(* into the other open buffers, and one refresh sent if it went beyond     *)
(* Self.  A client pulls what it edited without being asked.               *)
Republish(x, c, held, Self, opened) ==
  /\ idx' = TakeDirty(x)
  /\ Publish(x, c, (Self \cup x.dirty) \cap opened, setting, held)
  /\ refresh' = IF ~pull THEN {}
                ELSE IF x.dirty \ Self # {} THEN opened
                ELSE (refresh \cup Self) \cap opened

(* republish_all_open_buffers                                              *)
RepublishAll(x, c, s) ==
  /\ Publish(x, c, Open, s, shown)
  /\ refresh' = IF pull THEN Open ELSE {}

NoEntries == [p \in Paths |-> None]
Forget(p) == [cache EXCEPT ![p] = None]
-----------------------------------------------------------------------------
Init ==
  /\ \E files \in Projects, m \in UidMaps : idx = ColdIndex(files, m)
  /\ buffer = [p \in Paths |-> None]
  /\ cache = [p \in Paths |-> None]
  /\ generation = 0
  /\ setting \in Settings
  /\ hard = FALSE
  /\ pull \in BOOLEAN
  /\ shown = [p \in Paths |-> NoReport]
  /\ refresh = {} /\ reopening = {} /\ life = 0 /\ ops = 0

Event == reopening = {} /\ ops < MaxOps /\ ops' = ops + 1

(* didOpen and didChange                                                   *)
Edit(p, t) ==
  /\ Event
  /\ Cardinality(Open \cup {p}) <= MaxOpen
  /\ buffer' = [buffer EXCEPT ![p] = t]
  /\ Republish(OnFileChanged(idx, p, t), cache, shown, {p}, Open \cup {p})
  /\ UNCHANGED <<generation, setting, hard, pull, reopening, life>>

(* didClose: the file as the disk has it, or gone, or unreadable           *)
Close(p) ==
  /\ Event
  /\ p \in Open
  /\ buffer' = [buffer EXCEPT ![p] = None]
  /\ \E x \in {OnFileChanged(idx, p, t) : t \in Versions[p]} \cup {OnFileRemoved(idx, p), idx} :
       Republish(x, Forget(p), [shown EXCEPT ![p] = NoReport], {p}, Open \ {p})
  /\ UNCHANGED <<generation, setting, hard, pull, reopening, life>>

(* apply_reaction on a closed script: changed, or gone                     *)
FileChanged(p, t) ==
  /\ Event
  /\ p \notin Open
  /\ Republish(OnFileChanged(idx, p, t), cache, shown, {}, Open)
  /\ UNCHANGED <<buffer, generation, setting, hard, pull, reopening, life>>

FileRemoved(p) ==
  /\ Event
  /\ p \notin Open /\ p \in Live(idx)
  /\ Republish(OnFileRemoved(idx, p), Forget(p), shown, {}, Open)
  /\ UNCHANGED <<buffer, generation, setting, hard, pull, reopening, life>>

(* sync_uid_declaration and drop_uid_declaration, for a .uid sidecar       *)
UidChanged(u, p) ==
  /\ Event
  /\ Republish(SetUids(idx, [idx.uids EXCEPT ![u] = p]), cache, shown, {}, Open)
  /\ UNCHANGED <<buffer, generation, setting, hard, pull, reopening, life>>

(* apply_strict, set_analyzer_config, adopt_native: the cache is cleared   *)
(* and the generation bumped, then every open buffer republished.          *)
(* reload_project_and_native hands over a new uid map too.  The dirty set  *)
(* is not drained.                                                         *)
Reload(s, m) ==
  /\ Event
  /\ setting' = s
  /\ generation' = generation + 1
  /\ idx' = SetUids(idx, m)
  /\ RepublishAll(idx', NoEntries, s)
  /\ UNCHANGED <<buffer, hard, pull, reopening, life>>

(* rebuild_workspace_for_dialect_change: a new workspace, cold from the    *)
(* disk, then each open buffer reindexed, then all of them republished.    *)
ChangeDialect(s, files, m) ==
  /\ Event
  /\ life < MaxLives
  /\ s # setting
  /\ setting' = s /\ generation' = 0 /\ life' = life + 1
  /\ idx' = ColdIndex(files, m)
  /\ reopening' = Open
  /\ IF Open = {} THEN RepublishAll(idx', NoEntries, s)
     ELSE cache' = NoEntries /\ UNCHANGED <<shown, refresh>>
  /\ UNCHANGED <<buffer, hard, pull>>

(* Mutant: the new workspace keeps what the disk has.                      *)
ReopenFromDisk(p) ==
  /\ p \in reopening
  /\ idx' = idx
  /\ reopening' = reopening \ {p}
  /\ IF reopening = {p} THEN RepublishAll(idx', cache, setting)
     ELSE UNCHANGED <<cache, shown, refresh>>
  /\ UNCHANGED <<buffer, generation, setting, hard, pull, life, ops>>

Reopen(p) ==
  /\ p \in reopening
  /\ idx' = OnFileChanged(idx, p, buffer[p])
  /\ reopening' = reopening \ {p}
  /\ IF reopening = {p} THEN RepublishAll(idx', cache, setting)
     ELSE UNCHANGED <<cache, shown, refresh>>
  /\ UNCHANGED <<buffer, generation, setting, hard, pull, life, ops>>

(* document_diagnostic: unchanged if the client's id still stands.         *)
Pull(p) ==
  /\ reopening = {} /\ pull /\ p \in Open
  /\ LET id == ResultId(idx, cache, p) IN
       IF id # None /\ shown[p].id = id
       THEN UNCHANGED <<cache, shown>>
       ELSE \E bails \in BOOLEAN :
              /\ bails => idx.iface[p] \in Heavy
              /\ shown' = [shown EXCEPT ![p] = Report(idx, cache, p, bails, setting, id)]
              /\ cache' = Put(idx, cache, {p}, IF bails THEN {p} ELSE {}, setting)
  /\ refresh' = refresh \ {p}
  /\ UNCHANGED <<idx, buffer, generation, setting, hard, pull, reopening, life, ops>>

(* A request that analyses a file to the end, didSave's analysis included: *)
(* under Hard pressure a handler sheds instead.                            *)
Analyze(p) ==
  /\ reopening = {} /\ ~hard /\ p \in Live(idx)
  /\ cache' = Put(idx, cache, {p}, {}, setting)
  /\ UNCHANGED <<idx, buffer, generation, setting, hard, pull, shown, refresh,
                 reopening, life, ops>>

(* react_to_memory_pressure: a rise may evict half of the cache, the least *)
(* recently used entries, here any.                                        *)
React(S) ==
  /\ Event
  /\ hard' \in BOOLEAN
  /\ hard /\ hard' => S = {}
  /\ LET held == {p \in Paths : cache[p] # None}
     IN  S \subseteq held /\ Cardinality(S) \in {0, Cardinality(held) \div 2}
  /\ cache' = [p \in Paths |-> IF p \in S THEN None ELSE cache[p]]
  /\ UNCHANGED <<idx, buffer, generation, setting, pull, shown, refresh, reopening, life>>

Next ==
  \/ \E p \in Paths : \E t \in Versions[p] : Edit(p, t) \/ FileChanged(p, t)
  \/ \E p \in Paths : Close(p) \/ FileRemoved(p) \/ Reopen(p) \/ Pull(p) \/ Analyze(p)
  \/ \E u \in Uids, p \in Paths \cup {None} : UidChanged(u, p)
  \/ \E s \in Settings, m \in UidMaps : Reload(s, m)
  \/ \E s \in Settings, files \in Projects, m \in UidMaps : ChangeDialect(s, files, m)
  \/ \E S \in SUBSET Paths : React(S)

Spec == Init /\ [][Next]_vars
-----------------------------------------------------------------------------
Counts == /\ idx.epochs \in [Paths -> Nat]
          /\ generation \in 0..MaxOps /\ life \in 0..MaxLives /\ ops \in 0..MaxOps

(* Every variable has its type; an open buffer is what the index holds for *)
(* its path, unless a rebuilt workspace has yet to reindex it; the client  *)
(* holds reports for open buffers only.                                    *)
TypeOK ==
  /\ idx \in Index /\ Counts
  /\ buffer \in [Paths -> Texts \cup {None}]
  /\ setting \in Settings /\ hard \in BOOLEAN /\ pull \in BOOLEAN
  /\ refresh \subseteq Open /\ reopening \subseteq Open
  /\ \A p \in Open \ reopening : idx.iface[p] = buffer[p]
  /\ \A p \in Paths \ Open : shown[p] = NoReport

(* However the edits, removals, renames of classes and uid moves came, the *)
(* index passes Index::verify and is the one a cold build would give:      *)
(* every edge, every referencer and every declaration of every live file.  *)
IndexExact == Verified(idx) /\ AllLinked(idx)

(* A view the epochs do not track: it went through an autoload, or through *)
(* a dependency whose literal was a uid or led nowhere.  What changes      *)
(* there marks that dependency at most, never the file analysed.           *)
Untracked(view, f) ==
  \/ \E g \in DOMAIN view : \E n \in DOMAIN view[g].names :
       Autoload[n] # None /\ view[g].names[n] \in {None, Autoload[n]}
  \/ \E g \in DOMAIN view \ {f} : \E l \in DOMAIN view[g].literals :
       l \in Uids \/ view[g].literals[l] = None

Exact(entry, p) == entry.view = View(idx, p) /\ entry.setting = setting
Fresh(entry, p) == Untracked(entry.view, p) \/ Exact(entry, p)

(* An entry that answers for the text and epoch of a file is what an       *)
(* analysis of it would find now: the epoch tells every change of an       *)
(* interface or of an owner it depends on, at any distance.                *)
HitIsFresh == \A p \in Live(idx) : Hits(idx, cache, p) => Fresh(cache[p], p)

(* docs/03-indexing-freshness.md counts the autoloads a file references    *)
(* among the dependencies that invalidate it: no hit is stale at all.      *)
HitIsExact == \A p \in Live(idx) : Hits(idx, cache, p) => Exact(cache[p], p)

(* The pull that would be answered unchanged.                              *)
Stands(p) == /\ pull /\ reopening = {} /\ shown[p].id # None
             /\ shown[p].id = ResultId(idx, cache, p)

(* Within the life of a workspace a report is pinned as unchanged only if  *)
(* it was not shed, and if what it says, when it was complete, still is    *)
(* what an analysis would find.                                            *)
UnchangedIsHonest ==
  \A p \in Open : Stands(p) /\ shown[p].life = life =>
    /\ shown[p].grade # "shed"
    /\ shown[p].grade = "complete" => Fresh(shown[p].entry, p)

(* result_id_for: the generation tells the wholesale invalidations that    *)
(* text and epoch cannot see, a dialect change among them.                 *)
UnchangedIsExact ==
  \A p \in Open : Stands(p) /\ shown[p].grade = "complete" =>
    shown[p].entry.setting = setting

(* Whoever holds a complete report of an open buffer, issued since the     *)
(* workspace was built, holds a fresh one, or, pulling, has been told to   *)
(* pull again, or edited the buffer since.  A push client always holds a   *)
(* report since then of the very text it has open.                         *)
ClientInStep ==
  reopening = {} => \A p \in Open :
    /\ ~pull => shown[p].text = buffer[p] /\ shown[p].life = life
    /\ shown[p].life = life /\ shown[p].grade = "complete" =>
         \/ Fresh(shown[p].entry, p)
         \/ p \in refresh

(* A keystroke that leaves the interface as it was invalidates no other    *)
(* file, and sends a pull client no refresh: also when it changes the      *)
(* names or the preloads of a body, and with them the file's own edges.    *)
BodyEditIsLocal ==
  [][\A p \in Open :
       /\ buffer'[p] \notin {buffer[p], None}
       /\ Unit[buffer'[p]].sig = Unit[buffer[p]].sig
       /\ idx.dirty = {}
       => /\ \A q \in Paths \ {p} : idx'.epochs[q] = idx.epochs[q]
          /\ refresh' \subseteq refresh \cup {p}]_vars
=============================================================================
