----------------------------- MODULE NativeApi -----------------------------
(***************************************************************************)
(* The native class database and the background dump that feeds it         *)
(* (crates/gd_server/src/api_dump.rs; the reloads are in workspace.rs and  *)
(* server.rs).  One thread runs the dump ladder: a Godot child writes the  *)
(* dump where the project is, the thread moves it into .gdls, loads it,    *)
(* describes it in the meta file, sets a partial one aside and tries a     *)
(* staged shadow project.  Meanwhile the event loop resolves the best      *)
(* source on disk, the user changes binary, addons and files, and the      *)
(* session may end: the thread dies with it, its files stay.               *)
(*                                                                         *)
(* A dump file is None, Torn, or what it was made from: the Godot binary,  *)
(* the .gdextension set it was made under, how many declared extensions it *)
(* misses, and who put it there.  extensionApiPath is not pinned.          *)
(***************************************************************************)
EXTENDS Nothing, Naturals, FiniteSets

CONSTANTS
  Binaries,    \* Godot builds, by what identifies one: path, size and mtime
  Outdated,    \* those of an older release than the project declares
  Surfaces,    \* the stats of the project's .gdextension files
  MaxMissing,  \* extensions with class hints: the most a dump can miss
  MaxOps,      \* bound on what the user does
  MaxSessions, \* bound on the sessions
  MaxFaults,   \* bound on the kinds of fault one behaviour has
  Torn,        \* a dump file that does not parse
  Stock,       \* the embedded stock surface
  Failed       \* DumpOutcome::Failed

Dump == [binary : Binaries, surface : Surfaces, missing : 0..MaxMissing,
         by : {"godot", "user"}]

ASSUME ConstantsAssumption ==
  /\ Outdated \subseteq Binaries
  /\ MaxMissing \in Nat /\ MaxOps \in Nat /\ MaxSessions \in Nat /\ MaxFaults \in Nat
  /\ None \notin Binaries /\ {None, Torn, Stock, Failed} \cap Dump = {}
  /\ None # Torn /\ None # Failed

VARIABLES
  binary,   \* what discover_binary finds, or None
  surface,  \* the .gdextension files' stats
  root,     \* <root>/extension_api.json
  managed,  \* .gdls/extension_api.json
  aside,    \* .gdls/extension_api.direct.json
  shadow,   \* .gdls/dump_shadow/extension_api.json
  meta,     \* the meta file: [binary, surface], or None
  up,       \* a session runs
  live,     \* Workspace::native: the dump it was loaded from, or Stock
  arm,      \* the event loop waits for the dump thread (dump_rx)
  outcome,  \* the DumpOutcome in the channel
  events,   \* file events not handled yet: "root", "project"
  pc, rung, child,  \* the dump thread, and the Godot it runs
  cand, best,       \* the dump loaded last, and the one set aside
  loaded,   \* how much each dump loaded by this ladder misses
  faults,   \* what went wrong so far; it only grows
  orphans,  \* Godots that nobody waits for: [dump, wrote, into]
  ops, sessions

fileVars    == <<root, managed, aside, shadow, meta>>
envVars     == <<binary, surface, ops>>
sessionVars == <<up, sessions, orphans>>
loopVars    == <<live, arm, outcome, events>>
threadVars  == <<pc, rung, child, cand, best, loaded>>
vars == <<fileVars, envVars, sessionVars, loopVars, threadVars, faults>>

File == Dump \cup {None, Torn}

(***************************************************************************)
(* Which source the session serves.                                        *)
(***************************************************************************)
\* Mutant: the binary the meta file names is not compared.
FreshOnSurface ==
  /\ managed # None /\ meta # None
  /\ meta.surface = surface

Fresh ==
  /\ managed # None /\ meta # None
  /\ binary # None => meta.binary = binary
  /\ meta.surface = surface

\* The first step of the resolution moves a dump away that is fresh and does
\* not load; a stale one stays.
KeptManaged == IF Fresh /\ managed = Torn THEN None ELSE managed

\* reconcile_release: an older release's dump gives way to the stock surface.
Served(d) == IF d.binary \in Outdated THEN Stock ELSE d
Resolved ==
  CASE managed \in Dump -> Served(managed)
    [] managed \notin Dump /\ root \in Dump -> Served(root)
    [] OTHER -> Stock

\* adopt_native: a reload never trades a project's dump for the stock one.
AdoptNative == live' = IF Resolved = Stock THEN live ELSE Resolved

\* A fault is remembered; the bound is on how many kinds come together.
Hit(fault) == faults' = faults \cup {fault} /\ Cardinality(faults') <= MaxFaults
During(fault) == IF pc = "idle" THEN UNCHANGED faults ELSE Hit(fault)

Reload == AdoptNative /\ managed' = KeptManaged

(***************************************************************************)
(* The session.                                                            *)
(***************************************************************************)
Init ==
  /\ binary \in Binaries /\ surface \in Surfaces
  /\ root = None /\ managed = None /\ aside = None /\ shadow = None /\ meta = None
  /\ up = FALSE /\ live = Stock /\ arm = FALSE /\ outcome = None /\ events = {}
  /\ pc = "idle" /\ rung = "direct" /\ child = None
  /\ cand = None /\ best = None /\ loaded = {}
  /\ faults = {} /\ orphans = {} /\ ops = 0 /\ sessions = 0

\* The startup resolution, then spawn_background_dump on what it left.
Start ==
  /\ ~up /\ sessions < MaxSessions
  /\ up' = TRUE /\ sessions' = sessions + 1
  /\ live' = Resolved /\ managed' = KeptManaged
  /\ LET wanted == root = None /\ binary # None /\ (~Fresh \/ managed = Torn)
     IN  /\ arm' = wanted
         /\ pc' = IF wanted THEN "spawn" ELSE "idle"
  /\ rung' = "direct" /\ cand' = None /\ best' = None /\ loaded' = {}
  /\ UNCHANGED <<envVars, root, aside, shadow, meta, orphans, outcome, events, child, faults>>

\* A Godot that has not written its file yet when nobody waits for it any more.
Orphaned ==
  IF child = None THEN {}
  ELSE [dump : {child.dump}, wrote : {child.wrote} \ {"all"}, into : {rung}]

\* Exit or crash: the thread dies between two of its steps; the child does
\* not, and goes on with the file it writes.
Stop ==
  /\ up
  /\ up' = FALSE /\ live' = Stock /\ arm' = FALSE /\ outcome' = None /\ events' = {}
  /\ orphans' = orphans \cup Orphaned
  /\ pc' = "idle" /\ rung' = "direct" /\ child' = None
  /\ cand' = None /\ best' = None /\ loaded' = {}
  /\ During("stopped")
  /\ UNCHANGED <<envVars, fileVars, sessions>>

\* One watcher batch: a project event reloads everything; an event on the root
\* file is dropped while a managed dump, readable or not, outranks it.
HandleEvents ==
  /\ up /\ events # {}
  /\ events' = {}
  /\ IF "project" \in events \/ managed = None
       THEN Reload
       ELSE UNCHANGED <<live, managed>>
  /\ UNCHANGED <<envVars, root, aside, shadow, meta, sessionVars, arm, outcome, threadVars, faults>>

\* Mutant: the outcome is announced and nothing is loaded.
HandleOutcomeUnloaded ==
  /\ up /\ outcome # None
  /\ arm' = FALSE /\ outcome' = None
  /\ UNCHANGED <<envVars, fileVars, sessionVars, live, events, threadVars, faults>>

HandleOutcome ==
  /\ up /\ outcome # None
  /\ arm' = FALSE /\ outcome' = None
  /\ IF outcome = Failed THEN UNCHANGED <<live, managed>> ELSE Reload
  /\ UNCHANGED <<envVars, root, aside, shadow, meta, sessionVars, events, threadVars, faults>>

(***************************************************************************)
(* The dump thread.                                                        *)
(***************************************************************************)
Announce(o) == pc' = "idle" /\ outcome' = o

\* A rung that yields nothing, or a partial dump, leads to the next one; the
\* shadow is only worth booting for extensions with class hints.
NextRung ==
  IF rung = "direct" /\ MaxMissing > 0
    THEN pc' = "spawn" /\ rung' = "shadow"
    ELSE pc' = "restore" /\ rung' = rung

Out == IF rung = "direct" THEN root ELSE shadow
Write(into, f) ==
  IF into = "direct"
    THEN /\ root' = f /\ shadow' = shadow
         /\ events' = IF up THEN events \cup {"root"} ELSE events
    ELSE shadow' = f /\ root' = root /\ events' = events
SetOut(f) == Write(rung, f)

\* What the child may write: the binary and the addons are those it booted
\* with, and how many extensions load is up to the machine.
Boots(d) ==
  /\ d \in Dump /\ d.by = "godot" /\ d.binary = binary /\ d.surface = surface

\* run_dump up to the spawn, after staging the shadow (a removed and rebuilt
\* directory): an existing output file means no dump.  Staging may fail, and so
\* may the exec of the binary.
Spawn ==
  /\ pc = "spawn"
  /\ \/ /\ rung = "direct" => root = None
        /\ \E d \in Dump : Boots(d) /\ child' = [dump |-> d, wrote |-> "nothing"]
        /\ shadow' = IF rung = "shadow" THEN None ELSE shadow
        /\ pc' = "run" /\ rung' = rung
     \/ NextRung /\ UNCHANGED <<shadow, child>>
  /\ UNCHANGED <<envVars, root, managed, aside, meta, sessionVars, loopVars, cand, best, loaded, faults>>

ChildWrites ==
  /\ child # None /\ child.wrote # "all"
  /\ IF child.wrote = "nothing"
       THEN child' = [child EXCEPT !.wrote = "part"] /\ SetOut(Torn)
       ELSE child' = [child EXCEPT !.wrote = "all"] /\ SetOut(child.dump)
  /\ UNCHANGED <<envVars, managed, aside, meta, sessionVars, live, arm, outcome,
                 pc, rung, cand, best, loaded, faults>>

\* So does one that nobody waits for, in its own time, whatever else happens
\* to the file of that name.
OrphanWrites ==
  \E o \in orphans :
    /\ IF o.wrote = "nothing"
         THEN /\ orphans' = (orphans \ {o}) \cup {[o EXCEPT !.wrote = "part"]}
              /\ Write(o.into, Torn)
         ELSE orphans' = orphans \ {o} /\ Write(o.into, o.dump)
    /\ UNCHANGED <<envVars, managed, aside, meta, up, sessions, live, arm, outcome,
                   threadVars, faults>>

\* Mutant: the wait for the child has no deadline.
EndRunUnbounded ==
  /\ pc = "run" /\ child.wrote = "all"
  /\ child' = None
  /\ IF Out # None THEN pc' = "move" /\ rung' = rung ELSE NextRung
  /\ UNCHANGED <<envVars, fileVars, sessionVars, loopVars, cand, best, loaded, faults>>

\* The child exits, crashes, or is killed at the deadline: in each case the
\* artifact decides, not the exit status.  When the wait itself fails, the run
\* counts as failed and the child is left to itself.
EndRun ==
  /\ pc = "run"
  /\ child' = None
  /\ \/ /\ IF Out # None THEN pc' = "move" /\ rung' = rung ELSE NextRung
        /\ UNCHANGED <<orphans, faults>>
     \/ NextRung /\ Hit("unwaited") /\ orphans' = orphans \cup Orphaned
  /\ UNCHANGED <<envVars, fileVars, up, sessions, loopVars, cand, best, loaded>>

\* Mutant: the dump is copied, and stays where it was written.
CopyDump ==
  /\ pc = "move"
  /\ \/ /\ Out # None
        /\ managed' = Out /\ pc' = "load" /\ rung' = rung
        /\ UNCHANGED <<root, shadow, events, faults>>
     \/ managed' = managed /\ NextRung /\ SetOut(None) /\ faults' = faults
  /\ UNCHANGED <<envVars, aside, meta, sessionVars, live, arm, outcome, child, cand, best,
                 loaded>>

\* try_adopt_dump, first step: over whatever dump was there before.  A dump
\* that cannot be moved is removed, and stays where it is when that fails too.
MoveDump ==
  /\ pc = "move"
  /\ \/ /\ Out # None
        /\ managed' = Out /\ pc' = "load" /\ rung' = rung
        /\ SetOut(None) /\ faults' = faults
     \/ managed' = managed /\ NextRung /\ SetOut(None) /\ faults' = faults
     \/ Out # None /\ Hit("left") /\ NextRung /\ UNCHANGED <<managed, root, shadow, events>>
  /\ UNCHANGED <<envVars, aside, meta, sessionVars, live, arm, outcome, child, cand, best,
                 loaded>>

\* A file that does not parse is quarantined.
LoadDump ==
  /\ pc = "load"
  /\ IF managed \in Dump
       THEN /\ cand' = managed /\ loaded' = loaded \cup {managed.missing}
            /\ pc' = "describe" /\ UNCHANGED <<managed, rung>>
       ELSE managed' = None /\ NextRung /\ UNCHANGED <<cand, loaded>>
  /\ UNCHANGED <<envVars, root, aside, shadow, meta, sessionVars, loopVars, child, best, faults>>

\* The meta file is written from the binary and the addons as they are now.
WriteMeta ==
  /\ pc = "describe"
  /\ pc' = "judge"
  /\ \/ /\ meta' = IF binary # None THEN [binary |-> binary, surface |-> surface] ELSE meta
        /\ UNCHANGED faults
     \/ meta' = meta /\ Hit("unwritten")
  /\ UNCHANGED <<envVars, root, managed, aside, shadow, sessionVars, loopVars,
                 rung, child, cand, best, loaded>>

\* A complete direct dump ends the ladder; a partial one is set aside, or kept
\* where it is when it cannot be moved.
JudgeDirect ==
  /\ pc = "judge" /\ rung = "direct"
  /\ \/ /\ cand.missing > 0 /\ managed # None
        /\ aside' = managed /\ managed' = None /\ best' = cand
        /\ NextRung /\ outcome' = outcome
     \/ /\ Announce(cand) /\ UNCHANGED <<aside, managed, best, rung>>
  /\ UNCHANGED <<envVars, root, shadow, meta, sessionVars, live, arm, events, child, cand, loaded, faults>>

\* Mutant: whatever was dumped last wins.
BeatsAlways(d, b) == TRUE

\* The shadow's dump wins only when it misses strictly less.
Beats(d, b) == b = None \/ d.missing < b.missing
JudgeShadow ==
  /\ pc = "judge" /\ rung = "shadow"
  /\ IF Beats(cand, best)
       THEN /\ \/ aside' = None /\ faults' = faults
               \/ aside # None /\ aside' = aside /\ Hit("unremoved")
            /\ IF cand.missing = 0
                 THEN Announce(cand) /\ UNCHANGED best
                 ELSE best' = cand /\ pc' = "restore" /\ UNCHANGED outcome
       ELSE pc' = "restore" /\ UNCHANGED <<aside, best, outcome, faults>>
  /\ UNCHANGED <<envVars, root, managed, shadow, meta, sessionVars, live, arm, events,
                 rung, child, cand, loaded>>

\* Rung 3: what is still aside goes back over what the shadow left.
Restore ==
  /\ pc = "restore"
  /\ \/ /\ aside # None
        /\ managed' = aside /\ aside' = None
        /\ Announce(IF best # None THEN best ELSE Failed) /\ faults' = faults
     \/ /\ aside # None
        /\ Announce(Failed) /\ UNCHANGED <<managed, aside>>
        /\ Hit("unrestored")
     \/ /\ aside = None
        /\ Announce(IF best # None THEN best ELSE Failed)
        /\ UNCHANGED <<managed, aside, faults>>
  /\ UNCHANGED <<envVars, root, shadow, meta, sessionVars, live, arm, events,
                 rung, child, cand, best, loaded>>

Thread ==
  \/ Spawn \/ EndRun \/ MoveDump \/ LoadDump \/ WriteMeta \/ JudgeDirect
  \/ JudgeShadow \/ Restore

(***************************************************************************)
(* The user and other programs.                                            *)
(***************************************************************************)
UserActs == ops < MaxOps /\ ops' = ops + 1
            /\ UNCHANGED <<aside, shadow, meta, sessionVars, live, arm, outcome, threadVars>>

ChangeBinary ==
  /\ UserActs /\ During("changed")
  /\ binary' \in (Binaries \cup {None}) \ {binary}
  /\ UNCHANGED <<surface, root, managed, events>>

ChangeAddons ==
  /\ UserActs /\ During("changed")
  /\ surface' \in Surfaces \ {surface}
  /\ events' = IF up THEN events \cup {"project"} ELSE events
  /\ UNCHANGED <<binary, root, managed>>

\* The user's own dump in the project root, made or removed.
ChangeRoot ==
  /\ UserActs /\ During("meddled")
  /\ root' \in {None} \cup [binary : Binaries, surface : {surface}, missing : {0}, by : {"user"}]
  /\ root' # root
  /\ events' = IF up THEN events \cup {"root"} ELSE events
  /\ UNCHANGED <<binary, surface, managed>>

\* Deleting the managed dump, as the notices advise, before a restart.
DeleteManaged ==
  /\ UserActs /\ ~up /\ managed # None
  /\ managed' = None
  /\ UNCHANGED <<binary, surface, root, events, faults>>

User == ChangeBinary \/ ChangeAddons \/ ChangeRoot \/ DeleteManaged

Next ==
  \/ Start \/ Stop \/ HandleEvents \/ HandleOutcome
  \/ Thread \/ ChildWrites \/ OrphanWrites \/ User

Spec == Init /\ [][Next]_vars

\* The thread is scheduled, its wait for the child has a deadline, the loop
\* takes what is in its channel.  Nothing is asked of the child.
Fairness == WF_vars(Thread) /\ WF_vars(HandleOutcome)
FairSpec == Spec /\ Fairness

(***************************************************************************)
(* Properties.                                                             *)
(***************************************************************************)
\* "What is on disk is always the dump the outcome reports" (api_dump.rs:699):
\* when the event loop hears of an adoption, the managed file is that dump, and
\* no dump this ladder loaded misses fewer extensions.  It needs that the losing
\* dump could be removed; it survives leftovers of earlier crashes, changes of
\* the binary and a dump that the user puts into the project root meanwhile.
AdoptedIsOnDisk ==
  outcome \in Dump /\ "unremoved" \notin faults =>
    managed = outcome /\ \A m \in loaded : outcome.missing <= m

\* A dump that counts as fresh, and is served without dumping again, is what
\* the Godot binary in use makes of the addons in use: through any sequence of
\* dumps, restarts, binary and addon changes, as long as no fault hits the
\* ladder itself.
FreshIsCurrent ==
  faults = {} /\ Fresh /\ managed \in Dump =>
    /\ managed.by = "godot" /\ managed.surface = surface
    /\ binary # None => managed.binary = binary

\* No dump of the ladder's stays behind in the project root, where the next
\* session would take it for the user's own file and never dump again: whatever
\* the user does there meanwhile, and whichever step fails.  Three cases are
\* excepted, and do leave one: a session that ends in the middle of a run, a
\* Godot that could not be waited for, and a dump that could neither be moved
\* nor be removed.
RootIsTheUsers ==
  faults \cap {"stopped", "unwaited", "left"} = {} /\ pc = "idle" =>
    root = None \/ (root \in Dump /\ root.by = "user")

\* Once the dump thread, its outcome and the file events are handled, in any
\* order, the session serves what a restart would resolve, or better: an exact
\* surface kept where the disk now offers the stock one.  It needs that nothing
\* leaves a torn dump in the managed place when the user's own file arrives,
\* or an old set-aside dump to be restored over a better one.
LiveInStep ==
  up /\ ~arm /\ events = {} /\ faults \subseteq {"changed", "unwritten"} =>
    live = Resolved \/ Resolved = Stock

\* The dump thread reports: a wedged Godot, a failed step or a hopeless project
\* cannot keep the session waiting for it.
DumpReports == arm ~> ~arm
=============================================================================
