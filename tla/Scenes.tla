------------------------------- MODULE Scenes -------------------------------
(***************************************************************************)
(* The uid map and the scene index that reads it                           *)
(* (crates/gd_project/src/scene_index.rs and paths.rs; their updates are   *)
(* in crates/gd_server/src/workspace.rs and server.rs).  A resource is     *)
(* declared a uid by a file: a script by its .uid sidecar, a scene by its  *)
(* own header.  A scene names scripts and other scenes by path or by uid,  *)
(* and is stored with its uids resolved, so every change of the map has to *)
(* reach the scenes that were read before it.                              *)
(*                                                                         *)
(* Files change, their events are handled in order, later, and each        *)
(* handler reads what is on disk by then; events may be lost to an         *)
(* overflow, a file may be unreadable, a session may end.  There is no     *)
(* .godot/uid_cache.bin, which the scan would put under every declaration. *)
(***************************************************************************)
EXTENDS Nothing, Naturals, Sequences, FiniteSets

CONSTANTS
  Scripts,    \* resources whose uid is in a sidecar
  Scenes,     \* the .tscn files
  Uids,
  SceneTexts, \* what a scene may say: [uid, nodes]
  MaxWrites,  \* bound on the changes of the disk
  MaxFaults   \* bound on the reads that fail and the events lost

Res == Scripts \cup Scenes
Refs == Res \cup Uids \cup {None}
\* A node of the scene: the script on it and the scene it instances.
Node == [script : Refs, sub : Refs]

ASSUME ScenesAssumption ==
  /\ IsFiniteSet(Res) /\ Scripts \cap Scenes = {} /\ None \notin Res \cup Uids \cup SceneTexts
  /\ SceneTexts \subseteq [uid : Uids \cup {None}, nodes : Seq(Node)]
  /\ None \notin [text : SceneTexts, nodes : Seq(Node)]

VARIABLES
  disk,    \* Scenes -> SceneTexts, Scripts -> the uid in the sidecar; None: no file
  notices, \* the file events not handled yet
  uids,    \* ProjectModel::uids, which SceneIndex::uids is a copy of
  index,   \* Index: [uids, byRes]
  scenes,  \* SceneIndex: [stored, attach, instance, uidRefs]
  saved,   \* the scenes of the warm-start cache
  stale,   \* [live, saved]: the scenes written since the stat table, and the one in
           \* the cache, was last brought up to date
  drift,   \* what has happened since the last scan: "lost", "contested", "unread"
  writes, failures

sceneVars == <<disk, notices, uids, index, scenes, saved, stale, drift, writes, failures>>

Empty == [u \in Uids |-> None]

(***************************************************************************)
(* uid_declaration and build_uid_map_checked.                              *)
(***************************************************************************)
Declared(r) ==
  IF r \in Scripts THEN disk[r] ELSE IF disk[r] = None THEN None ELSE disk[r].uid
Claims(u) == {r \in Res : Declared(r) = u}
Contested == {u \in Uids : Cardinality(Claims(u)) > 1}
\* A uid that two resources claim is dropped; one whose declaration cannot be
\* read is not seen.
ScanBut(bad) ==
  [u \in Uids |-> IF Cardinality(Claims(u) \ bad) = 1
                  THEN CHOOSE r \in Res \ bad : Declared(r) = u ELSE None]
Scan == ScanBut({})

(***************************************************************************)
(* SceneIndex.                                                             *)
(***************************************************************************)
\* The uids the ext-resource table names without a path: read before they are
\* resolved.
UidsOf(text) == {text.nodes[k][f] : k \in DOMAIN text.nodes, f \in {"script", "sub"}} \cap Uids

\* canonicalize: a uid becomes the path it stands for, or nothing.
Canonical(text, map) ==
  LET Path(ref) == IF ref \in Uids THEN map[ref] ELSE ref
  IN  [k \in DOMAIN text.nodes |->
         [text.nodes[k] EXCEPT !.script = Path(@), !.sub = Path(@)]]

\* What is kept of a scene: its text, for the stat and the raw table, and its
\* nodes.
Stored(text, map) == [text |-> text, nodes |-> Canonical(text, map)]

AttachedIn(s)  == {s.nodes[k].script : k \in DOMAIN s.nodes} \ {None}
InstancedIn(s) == {s.nodes[k].sub : k \in DOMAIN s.nodes} \ {None}
NamedIn(s)     == UidsOf(s.text)

\* insert_scene and remove, for each scene of S: what the old scene points at
\* is taken out of the reverse maps, what the new one points at is put in.
Replace(x, new) ==
  LET S == DOMAIN new
      Turn(map, Of(_)) ==
        [k \in DOMAIN map |->
           (map[k] \ {s \in S : x.stored[s] # None /\ k \in Of(x.stored[s])})
             \cup {s \in S : new[s] # None /\ k \in Of(new[s])}]
  IN  [stored   |-> [s \in Scenes |-> IF s \in S THEN new[s] ELSE x.stored[s]],
       attach   |-> Turn(x.attach, AttachedIn),
       instance |-> Turn(x.instance, InstancedIn),
       uidRefs  |-> Turn(x.uidRefs, NamedIn)]

\* Reading scenes from disk: one that cannot be read stays as it is, one that
\* is gone goes (reindex_scene) or stays (the reads after a change of uids).
Existing(S, bad) == {s \in S \ bad : disk[s] # None}
Reread(x, S, map, bad) == Replace(x, [s \in Existing(S, bad) |-> Stored(disk[s], map)])
ReindexScene(x, s, map, bad) ==
  IF s \notin bad /\ disk[s] = None THEN Replace(x, [r \in {s} |-> None]) ELSE Reread(x, {s}, map, bad)
RemoveScene(x, s) == Replace(x, [r \in {s} |-> None])

(***************************************************************************)
(* One resource's uid: apply_uid_sidecar.                                  *)
(***************************************************************************)
\* ProjectModel's map: whatever named r is dropped, then u names it.
Repointed(map, r, u) == [v \in Uids |-> IF v = u THEN r ELSE IF map[v] = r THEN None ELSE map[v]]

\* Mutant: a stolen uid keeps its old place in the inverse.
SyncIndexHalf(x, r, u) ==
  LET old  == x.byRes[r]
      kept == IF old # None /\ old # u THEN [x.uids EXCEPT ![old] = None] ELSE x.uids
      mine == [x.byRes EXCEPT ![r] = IF old = u THEN old ELSE None]
  IN  IF u = None \/ kept[u] = r
        THEN [uids |-> kept, byRes |-> mine]
        ELSE [uids |-> [kept EXCEPT ![u] = r], byRes |-> [mine EXCEPT ![r] = u]]

\* Index::sync_uid_for_resource, on the map and its inverse; u is stolen from
\* the resource that had it.
SyncIndex(x, r, u) ==
  LET old  == x.byRes[r]
      kept == IF old # None /\ old # u THEN [x.uids EXCEPT ![old] = None] ELSE x.uids
      mine == [x.byRes EXCEPT ![r] = IF old = u THEN old ELSE None]
  IN  IF u = None \/ kept[u] = r
        THEN [uids |-> kept, byRes |-> mine]
        ELSE [uids |-> [kept EXCEPT ![u] = r],
              byRes |-> [q \in Res |-> IF q = r THEN u
                                       ELSE IF q = kept[u] THEN None ELSE mine[q]]]

\* The state of the session that the handlers pass on.
Session == [uids |-> uids, index |-> index, scenes |-> scenes]

\* Mutant: only the scenes that name the new uid are read again.
ApplyUidForward(x, r, u, bad) ==
  LET map == Repointed(x.uids, r, u)
  IN  [uids   |-> map,
       index  |-> SyncIndex(x.index, r, u),
       scenes |-> Reread(x.scenes, UNION {x.scenes.uidRefs[v] : v \in {u} \ {None}}, map, bad)]

\* refresh_uid_scenes: the scenes that name the uid r had or the one it has now.
ApplyUid(x, r, u, bad) ==
  LET map   == Repointed(x.uids, r, u)
      moved == {v \in Uids : x.uids[v] = r} \cup ({u} \ {None})
  IN  [uids   |-> map,
       index  |-> SyncIndex(x.index, r, u),
       scenes |-> Reread(x.scenes, UNION {x.scenes.uidRefs[v] : v \in moved}, map, bad)]
SyncUid(x, r, bad) == ApplyUid(x, r, IF r \in bad THEN None ELSE Declared(r), bad)
DropUid(x, r, bad) == ApplyUid(x, r, None, bad)

(***************************************************************************)
(* The disk.                                                               *)
(***************************************************************************)
Notice(kind, from, path) == [kind |-> kind, from |-> from, path |-> path]
Content(p) == IF p \in Scenes THEN SceneTexts ELSE Uids

Writes(notice) ==
  /\ writes < MaxWrites /\ writes' = writes + 1
  /\ LET new == {notice.path} \cap Scenes
     IN  stale' = [live |-> stale.live \cup new, saved |-> stale.saved \cup new]
  /\ notices' = Append(notices, notice)
  /\ drift' = IF Contested' = {} THEN drift ELSE drift \cup {"contested"}
  /\ UNCHANGED <<uids, index, scenes, saved, failures>>

WriteFile(p) ==
  /\ disk' \in {[disk EXCEPT ![p] = c] : c \in Content(p) \ {disk[p]}}
  /\ Writes(Notice("write", p, p))
DeleteFile(p) ==
  /\ disk[p] # None
  /\ disk' = [disk EXCEPT ![p] = None]
  /\ Writes(Notice("delete", p, p))
RenameFile(p, q) ==
  /\ disk[p] # None /\ p # q /\ ({p, q} \subseteq Scenes \/ {p, q} \subseteq Scripts)
  /\ disk' = [disk EXCEPT ![q] = disk[p], ![p] = None]
  /\ Writes(Notice("rename", p, q))

(***************************************************************************)
(* The event loop.                                                         *)
(***************************************************************************)
\* The files that cannot be read during a step.
Unreadable(bad) ==
  /\ bad = {} \/ (failures < MaxFaults /\ Cardinality(bad) = 1)
  /\ failures' = failures + Cardinality(bad)
Drifting(since, bad) == since \cup (IF bad = {} THEN {} ELSE {"unread"})

\* The stat table follows a scene that was read because of its own event.
Restat(read) == stale' = [stale EXCEPT !.live = @ \ read]

\* The scene half of a reaction: a scene's file enters or leaves the index.
Reindexed(x, p, bad) ==
  IF p \in Scenes THEN [x EXCEPT !.scenes = ReindexScene(@, p, x.uids, bad)] ELSE x
Dropped(x, p) == IF p \in Scenes THEN [x EXCEPT !.scenes = RemoveScene(@, p)] ELSE x

\* Mutant: a rename leaves the declaration of the old path.
ReactionKeepsSource(n, bad) ==
  CASE n.kind = "write"  -> SyncUid(Reindexed(Session, n.path, bad), n.path, bad)
    [] n.kind = "delete" -> DropUid(Dropped(Session, n.path), n.path, bad)
    [] n.kind = "rename" -> SyncUid(Reindexed(Dropped(Session, n.from), n.path, bad), n.path, bad)

\* apply_reaction for a scene or a sidecar.
Reaction(n, bad) ==
  CASE n.kind = "write"  -> SyncUid(Reindexed(Session, n.path, bad), n.path, bad)
    [] n.kind = "delete" -> DropUid(Dropped(Session, n.path), n.path, bad)
    [] n.kind = "rename" ->
         SyncUid(DropUid(Reindexed(Dropped(Session, n.from), n.path, bad), n.from, bad), n.path, bad)

Become(x) == uids' = x.uids /\ index' = x.index /\ scenes' = x.scenes

HandleNotice(bad) ==
  /\ notices # <<>> /\ Unreadable(bad)
  /\ notices' = Tail(notices)
  /\ Become(Reaction(Head(notices), bad))
  /\ Restat(IF Head(notices).kind = "delete" THEN {} ELSE {Head(notices).path} \ bad)
  /\ drift' = Drifting(drift, bad)
  /\ UNCHANGED <<disk, saved, writes>>

\* reconcile: the scenes whose stat moved are read, those that are gone go.
Reconciled(x, old, map, bad) ==
  LET moved == {s \in Scenes : x.stored[s] = None \/ s \in old}
  IN  Replace(Reread(x, moved, map, bad), [s \in {r \in Scenes : disk[r] = None} |-> None])

\* reconcile_from_watcher: the events of an overflow are gone, the project is
\* walked instead.
Overflow(bad) ==
  /\ notices # <<>> /\ notices' = <<>>
  /\ failures < MaxFaults /\ bad = {} /\ failures' = failures + 1
  /\ Become([Session EXCEPT !.scenes = Reconciled(@, stale.live, uids, bad)])
  /\ Restat(Scenes)
  /\ drift' = drift \cup {"lost"}
  /\ UNCHANGED <<disk, saved, writes>>

\* Every declaration is scanned again, and every scene that names a uid read.
Rescanned(x, map, bad) == Reread(x, UNION {x.uidRefs[u] : u \in Uids}, map, bad)
UidOf(map) ==
  [r \in Res |-> IF \E u \in Uids : map[u] = r THEN CHOOSE u \in Uids : map[u] = r ELSE None]
Scanned(before, bad) ==
  /\ uids' = ScanBut(bad)
  /\ index' = [uids |-> ScanBut(bad), byRes |-> UidOf(ScanBut(bad))]
  /\ scenes' = Rescanned(before, ScanBut(bad), bad)
  /\ drift' = Drifting((drift \cap {"unread"}) \cup (IF Contested = {} THEN {} ELSE {"contested"}), bad)

\* reload_project_and_native, as far as it concerns uids and scenes.
ReloadProject(bad) ==
  /\ Unreadable(bad) /\ Scanned(scenes, bad)
  /\ UNCHANGED <<disk, notices, saved, stale, writes>>

SaveCache ==
  /\ <<saved, stale.saved>> # <<scenes.stored, stale.live>>
  /\ saved' = scenes.stored /\ stale' = [stale EXCEPT !.saved = stale.live]
  /\ UNCHANGED <<disk, notices, uids, index, scenes, drift, writes, failures>>

NoScenes == [stored |-> [s \in Scenes |-> None], attach |-> [r \in Res |-> {}],
             instance |-> [r \in Res |-> {}], uidRefs |-> [u \in Uids |-> {}]]

\* A new session over the saved scenes: the walk reads what changed while no
\* uid is known yet, then the map is there.
WarmStart(bad) ==
  /\ Unreadable(bad)
  /\ Scanned(Reconciled(Replace(NoScenes, saved), stale.saved, Empty, bad), bad)
  /\ saved' = scenes'.stored /\ stale' = [live |-> bad \cap stale.saved, saved |-> bad \cap stale.saved]
  /\ notices' = <<>>
  /\ UNCHANGED <<disk, writes>>

ScenesInit ==
  /\ disk \in {f \in [Res -> SceneTexts \cup Uids \cup {None}] : \A r \in Res : f[r] \in Content(r) \cup {None}}
  /\ Contested = {}
  /\ notices = <<>> /\ uids = Scan
  /\ index = [uids |-> Scan, byRes |-> [r \in Res |-> Declared(r)]]
  /\ scenes = Replace(NoScenes, [s \in Existing(Scenes, {}) |-> Stored(disk[s], Scan)])
  /\ saved = scenes.stored /\ stale = [live |-> {}, saved |-> {}]
  /\ drift = {} /\ writes = 0 /\ failures = 0

ScenesNext ==
  \/ \E p \in Res : WriteFile(p) \/ DeleteFile(p)
  \/ \E p, q \in Res : RenameFile(p, q)
  \/ \E bad \in SUBSET Res : HandleNotice(bad) \/ Overflow(bad) \/ ReloadProject(bad) \/ WarmStart(bad)
  \/ SaveCache

ScenesSpec == ScenesInit /\ [][ScenesNext]_sceneVars

(***************************************************************************)
(* Properties.                                                             *)
(***************************************************************************)
\* "The two maps disagreeing is how a scene ends up pointing at a file the
\* project no longer declares" (workspace.rs): the project's map, the index's,
\* its inverse and the reverse maps of the scene index stay mirrors of each
\* other and of the stored scenes, whatever is declared twice, stolen, lost or
\* unreadable.
MapsMirror ==
  /\ index.uids = uids
  /\ \A r \in Res, u \in Uids : (index.byRes[r] = u) = (uids[u] = r)
  /\ LET Held == {s \in Scenes : scenes.stored[s] # None}
     IN  /\ \A r \in Res :
              /\ scenes.attach[r] = {s \in Held : r \in AttachedIn(scenes.stored[s])}
              /\ scenes.instance[r] = {s \in Held : r \in InstancedIn(scenes.stored[s])}
         /\ \A u \in Uids : scenes.uidRefs[u] = {s \in Held : u \in NamedIn(scenes.stored[s])}

\* When the events are handled, every scene is what its file says, with its
\* uids resolved by the map in use, however scenes, sidecars, renames, lost
\* events, reloads and restarts fell; unreadable files are the exception.
ScenesSettle ==
  notices = <<>> /\ "unread" \notin drift =>
    \A s \in Scenes :
      scenes.stored[s] = IF disk[s] = None THEN None ELSE Stored(disk[s], uids)

\* One declaration at a time, the map follows the disk: when the events are
\* handled it is what a scan of the project would give.  It needs that no event
\* was lost and that no uid was claimed twice since the last scan.
UidsSettle == notices = <<>> /\ drift = {} => uids = Scan

=============================================================================
