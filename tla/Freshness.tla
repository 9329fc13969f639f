----------------------------- MODULE Freshness -----------------------------
(***************************************************************************)
(* How the index of gdls follows the disk and the open buffers: the load   *)
(* (cold or warm from the cache), the reconcile walks, the two channels of *)
(* file events, didOpen/didChange/didClose, and the persisted cache        *)
(* (crates/gd_server/src/{workspace,server}.rs, gd_project/src/cache.rs).  *)
(*                                                                         *)
(* Everything but the environment runs on the event-loop worker, one step  *)
(* of one handler at a time; other programs change the disk at any moment, *)
(* between the stat and the read of one file included.                     *)
(*                                                                         *)
(* A file is its text and its stamp, which stands for (size, mtime_ns):    *)
(* every write makes a new stamp, a rename keeps the file's, and a file    *)
(* that was there from the start is stamped with its own path.  The        *)
(* interface of a script is the text it was extracted from.                *)
(***************************************************************************)
EXTENDS Naturals, Sequences, FiniteSets

CONSTANTS
  Paths,         \* the .gd paths the scan reaches
  Texts,         \* file and buffer contents
  ClientWatches, \* the client may send workspace/didChangeWatchedFiles
  MaxOps,        \* bound on the disk operations of other programs
  MaxStarts,     \* bound on the sessions; the last one saves less
  MaxOpen,       \* bound on the buffers open at once
  Faults,        \* what else may happen: files become unreadable, a buffer
                 \* is closed while its file is, a file is written between
                 \* the server's read of it and its stat ("race")
  None

ASSUME ConstantsAssumption ==
  /\ None \notin Paths /\ None \notin Texts /\ None \notin Nat
  /\ \A p \in Paths : p \notin Nat
  /\ ClientWatches \in BOOLEAN
  /\ MaxOps \in Nat /\ MaxStarts \in Nat /\ MaxOpen \in Nat
  /\ Faults \subseteq {"unreadable", "unreadable close", "race"}

VARIABLES
  disk,      \* path -> [text, stamp], or None
  clock,     \* the last stamp given out; counts the disk operations
  locked,    \* existing paths that cannot be read
  native,    \* debounced events of the native watcher, not yet taken
  client,    \* the client's file events, not yet taken; None if it sends none
  watcher,   \* "armed" or "disabled"
  session,   \* "down", "loading" or "up"
  starts,
  buffer,    \* the VFS: path -> text of its open buffer, or None
  iface,     \* the index: path -> text its interface comes from, or None
  stat,      \* Workspace::stat_table: path -> stamp, or None
  record,    \* Workspace::last_applied_disk: path -> text, or None
  job,       \* the handler the worker is in the middle of
  cache      \* the cache file: [iface, stat], or None

diskVars    == <<disk, clock, locked>>
eventVars   == <<native, client, watcher>>
indexVars   == <<iface, stat, record>>
sessionVars == <<session, starts, buffer, cache>>
vars == <<diskVars, eventVars, indexVars, sessionVars, job>>

Stamps == Paths \cup Nat
File  == [text : Texts, stamp : Stamps]
Event == [kind : {"changed", "deleted"}, path : Paths, from : {None}]
         \cup [kind : {"renamed"}, path : Paths, from : Paths]
         \cup [kind : {"rescan"}, path : {None}, from : {None}]

(* None stands for a channel that is not there: it is no queue.            *)
ASSUME NoneIsNoQueue == None \notin Seq(Event)

Changed(p)     == [kind |-> "changed", path |-> p, from |-> None]
Deleted(p)     == [kind |-> "deleted", path |-> p, from |-> None]
Renamed(p, q)  == [kind |-> "renamed", path |-> q, from |-> p]
Rescan         == [kind |-> "rescan", path |-> None, from |-> None]

(* A job has paths still to do, the paths a walk has seen, and the path    *)
(* whose stat and read are one step apart (with the stamp read first).     *)
Walks == {"warm", "discover", "full"}
Job == [step : {"idle", "build", "sweep", "restat"} \cup Walks,
        todo : SUBSET Paths, seen : SUBSET Paths,
        at : Paths \cup {None}, stamp : Stamps \cup {None}]
IdleJob == [step |-> "idle", todo |-> {}, seen |-> {}, at |-> None, stamp |-> None]
Begin(step, S) == [IdleJob EXCEPT !.step = step, !.todo = S]

Open == {p \in Paths : buffer[p] # None}
Exists(p) == disk[p] # None
Readable(p) == Exists(p) /\ p \notin locked

Forget(f, S) == [p \in Paths |-> IF p \in S THEN None ELSE f[p]]
Nothing == [p \in Paths |-> None]

Init ==
  /\ \E text \in [Paths -> Texts \cup {None}] :
       disk = [p \in Paths |-> IF text[p] = None THEN None
                               ELSE [text |-> text[p], stamp |-> p]]
  /\ clock = 0 /\ locked = {}
  /\ native = <<>> /\ client = None /\ watcher = "armed"
  /\ session = "down" /\ starts = 0 /\ buffer = Nothing
  /\ iface = Nothing /\ stat = Nothing /\ record = Nothing
  /\ job = IdleJob /\ cache = None

-----------------------------------------------------------------------------
(* Other programs, the file system and the client.                         *)

(* The read of p is done and its stamp is not taken yet; or the stamp of a *)
(* walk's entry is taken and its read is not done yet.                     *)
ReadNotStamped(p) ==
  \/ job.step = "restat" /\ job.at = p
  \/ job.step = "build" /\ iface[p] # None
  \/ job.step = "sweep" /\ p \in job.todo
StampedNotRead(p) == job.step \in Walks /\ job.at = p

Report(nativeEvents, clientEvents) ==
  /\ native' = IF session # "down" /\ watcher = "armed"
               THEN native \o nativeEvents ELSE native
  /\ client' = IF client = None THEN None ELSE client \o clientEvents
  /\ UNCHANGED <<watcher, indexVars, sessionVars, job>>

Write(p, t) ==
  /\ clock < MaxOps
  /\ "race" \in Faults \/ ~ReadNotStamped(p)
  /\ disk' = [disk EXCEPT ![p] = [text |-> t, stamp |-> clock + 1]]
  /\ clock' = clock + 1
  /\ Report(<<Changed(p)>>, <<Changed(p)>>)
  /\ UNCHANGED locked

Delete(p) ==
  /\ clock < MaxOps
  /\ Exists(p)
  /\ disk' = [disk EXCEPT ![p] = None]
  /\ clock' = clock + 1
  /\ locked' = locked \ {p}
  /\ Report(<<Deleted(p)>>, <<Deleted(p)>>)

(* A client reports a rename as a delete and a create.                     *)
Rename(p, q) ==
  /\ clock < MaxOps
  /\ p # q /\ Exists(p)
  /\ "race" \in Faults \/ ~(ReadNotStamped(q) \/ StampedNotRead(p))
  /\ disk' = [disk EXCEPT ![q] = disk[p], ![p] = None]
  /\ clock' = clock + 1
  /\ locked' = (locked \ {p, q}) \cup (IF p \in locked THEN {q} ELSE {})
  /\ Report(<<Renamed(p, q)>>, <<Deleted(p), Changed(q)>>)

(* A file loses or regains its permissions: an attribute event.            *)
Lock(p) ==
  /\ clock < MaxOps
  /\ "unreadable" \in Faults
  /\ Exists(p)
  /\ locked' = IF p \in locked THEN locked \ {p} ELSE locked \cup {p}
  /\ clock' = clock + 1
  /\ Report(<<Changed(p)>>, <<>>)
  /\ UNCHANGED disk

(* The OS queue overflows: the pending events are lost, and a rescan event *)
(* says so.                                                                *)
Overflow ==
  /\ session # "down" /\ watcher = "armed"
  /\ native \notin {<<>>, <<Rescan>>}
  /\ native' = <<Rescan>>
  /\ UNCHANGED <<diskVars, client, watcher, indexVars, sessionVars, job>>

Environment ==
  \/ \E p \in Paths, t \in Texts : Write(p, t)
  \/ \E p \in Paths : Delete(p) \/ Lock(p)
  \/ \E p, q \in Paths : Rename(p, q)
  \/ Overflow

-----------------------------------------------------------------------------
(* Starting: the watcher is armed first, then the workspace loads and a    *)
(* reconcile settles it.                                                   *)

Start(watch) ==
  /\ session = "down" /\ starts < MaxStarts
  /\ session' = "loading" /\ starts' = starts + 1
  /\ watcher' = watch
  /\ UNCHANGED <<diskVars, native, client, record, buffer, cache>>

(* A cache whose key does not match the engine or the project is ignored.  *)
StartCold(watch) ==
  /\ Start(watch)
  /\ job' = Begin("build", {p \in Paths : Exists(p)})
  /\ UNCHANGED <<iface, stat>>

StartWarm(watch) ==
  /\ Start(watch) /\ cache # None
  /\ iface' = cache.iface /\ stat' = cache.stat
  /\ job' = Begin("warm", Paths)

(* Index::build reads the files it listed; the stat table is swept after.  *)
BuildRead(p) ==
  /\ job.step = "build" /\ p \in job.todo
  /\ iface' = [iface EXCEPT ![p] = IF Readable(p) THEN disk[p].text ELSE None]
  /\ job' = [job EXCEPT !.todo = @ \ {p}]
  /\ UNCHANGED <<diskVars, eventVars, stat, record, sessionVars>>

BuildEnd ==
  /\ job.step = "build" /\ job.todo = {}
  /\ job' = Begin("sweep", Paths)
  /\ UNCHANGED <<diskVars, eventVars, indexVars, sessionVars>>

SweepStat(p) ==
  /\ job.step = "sweep" /\ p \in job.todo
  /\ stat' = [stat EXCEPT ![p] = IF iface[p] # None /\ Exists(p)
                                 THEN disk[p].stamp ELSE None]
  /\ job' = [job EXCEPT !.todo = @ \ {p}]
  /\ UNCHANGED <<diskVars, eventVars, iface, record, sessionVars>>

(* The settle pass: with a live watcher only unknown files are read, since *)
(* what changed after the watcher was armed is a queued event.             *)
Settle == Begin(IF watcher = "armed" THEN "discover" ELSE "full", Paths)

SweepEnd ==
  /\ job.step = "sweep" /\ job.todo = {}
  /\ job' = Settle
  /\ UNCHANGED <<diskVars, eventVars, indexVars, sessionVars>>

-----------------------------------------------------------------------------
(* The walks: warm_index_from_cache, and reconcile in its two modes.       *)

(* Mutant: the discovery rule applies to every reconcile.                  *)
TrustedKnown(p) ==
  \/ p \in Open
  \/ job.step # "warm" /\ stat[p] # None
  \/ stat[p] = disk[p].stamp

(* What a walk does not read: open buffers, files whose stamp is unchanged *)
(* and, when discovering, every file it knows.                             *)
Trusted(p) ==
  \/ p \in Open
  \/ job.step = "discover" /\ stat[p] # None
  \/ stat[p] = disk[p].stamp

WalkStat(p) ==
  /\ job.step \in Walks /\ job.at = None /\ p \in job.todo
  /\ job' = IF Exists(p)
            THEN [job EXCEPT !.todo = @ \ {p}, !.seen = @ \cup {p},
                             !.at = IF Trusted(p) THEN None ELSE p,
                             !.stamp = IF Trusted(p) THEN None ELSE disk[p].stamp]
            ELSE [job EXCEPT !.todo = @ \ {p}]
  /\ UNCHANGED <<diskVars, eventVars, indexVars, sessionVars>>

(* The read is stored with the stamp taken before it.  A file that cannot  *)
(* be read, or has vanished, keeps what it had.                            *)
WalkRead ==
  /\ job.step \in Walks /\ job.at # None
  /\ LET p == job.at IN
       IF Readable(p)
       THEN /\ iface' = [iface EXCEPT ![p] = disk[p].text]
            /\ stat' = [stat EXCEPT ![p] = job.stamp]
            /\ record' = IF job.step = "warm" THEN record
                         ELSE [record EXCEPT ![p] = disk[p].text]
       ELSE UNCHANGED indexVars
  /\ job' = [job EXCEPT !.at = None, !.stamp = None]
  /\ UNCHANGED <<diskVars, eventVars, sessionVars>>

(* Nothing reads the cache the last session leaves: it saves at its load   *)
(* and its end only, and its saves do not fail.                            *)
AnotherStart == starts < MaxStarts

(* Mutant: an open buffer's stat is saved with the others.                 *)
SaveCacheWithOpen(i, s) ==
  \/ cache' = [iface |-> i, stat |-> s]
  \/ AnotherStart /\ cache' = cache

(* The stats of the open buffers are left out.  A failed save leaves the   *)
(* previous file: the new one is written aside and renamed.                *)
SaveCache(i, s) ==
  \/ cache' = [iface |-> i, stat |-> Forget(s, Open)]
  \/ AnotherStart /\ cache' = cache

(* A client that can be asked to watch the project's files is asked once   *)
(* the session is up.                                                      *)
Registered == client' \in {None} \cup (IF ClientWatches THEN {<<>>} ELSE {})

(* The removal pass drops what the walk did not see.                       *)
WalkEnd ==
  /\ job.step \in Walks /\ job.todo = {} /\ job.at = None
  /\ LET gone == {p \in Paths : iface[p] # None} \ (job.seen \cup Open) IN
       /\ iface' = Forget(iface, gone)
       /\ stat' = Forget(stat, gone)
       /\ record' = Forget(record, gone)
  /\ IF job.step = "warm"
     THEN job' = Settle /\ UNCHANGED <<session, cache>>
     ELSE /\ job' = IdleJob
          /\ session' = "up"
          /\ IF session = "loading" THEN SaveCache(iface', stat') ELSE cache' = cache
  /\ IF session' = session THEN client' = client ELSE Registered
  /\ UNCHANGED <<diskVars, native, watcher, starts, buffer>>

-----------------------------------------------------------------------------
(* The handlers of the event loop.                                         *)

Ready == session = "up" /\ job = IdleJob

(* Mutant: the stat of a removed file stays.                               *)
RemoveKeepsStat(S) ==
  /\ iface' = Forget(iface, S)
  /\ stat' = stat
  /\ record' = Forget(record, S)
  /\ job' = job

(* Mutant: the record of a removed file stays.                             *)
RemoveKeepsRecord(S) ==
  /\ iface' = Forget(iface, S)
  /\ stat' = Forget(stat, S)
  /\ record' = record
  /\ job' = job

(* Workspace::remove *)
Remove(S) ==
  /\ iface' = Forget(iface, S)
  /\ stat' = Forget(stat, S)
  /\ record' = Forget(record, S)
  /\ job' = job

(* A disk-sourced reindex of p, once the paths of S have been removed:     *)
(* read, reindex and record; the stat is taken a step later.               *)
ReadFromDisk(p, S) ==
  /\ iface' = [Forget(iface, S) EXCEPT ![p] = disk[p].text]
  /\ record' = [Forget(record, S) EXCEPT ![p] = disk[p].text]
  /\ stat' = Forget(stat, S)
  /\ job' = [IdleJob EXCEPT !.step = "restat", !.at = p]

(* update_stat_from_disk *)
Restat ==
  /\ job.step = "restat"
  /\ stat' = [stat EXCEPT ![job.at] = IF Exists(job.at) THEN disk[job.at].stamp
                                      ELSE None]
  /\ job' = IdleJob
  /\ UNCHANGED <<diskVars, eventVars, iface, record, sessionVars>>

Keep == UNCHANGED <<indexVars, job>>

(* A change that came on the other channel before is stamped, not indexed. *)
Duplicate(p) == record[p] = disk[p].text
OnlyRestat(p) ==
  /\ job' = [IdleJob EXCEPT !.step = "restat", !.at = p]
  /\ UNCHANGED indexVars

(* Created or Modified.  Mutant: the disk wins over an open buffer.        *)
ApplyChangedOverBuffer(p) ==
  \/ ~Exists(p) /\ Remove({p})
  \/ Exists(p) /\ ~Readable(p) /\ Keep
  \/ Readable(p) /\ Duplicate(p) /\ OnlyRestat(p)
  \/ Readable(p) /\ ~Duplicate(p) /\ ReadFromDisk(p, {})

(* Created or Modified: an open buffer wins over the disk, a file that     *)
(* cannot be read keeps its interface, and one that vanished is removed.   *)
ApplyChanged(p) ==
  \/ p \in Open /\ Keep
  \/ p \notin Open /\ ~Exists(p) /\ Remove({p})
  \/ p \notin Open /\ Exists(p) /\ ~Readable(p) /\ Keep
  \/ p \notin Open /\ Readable(p) /\ Duplicate(p) /\ OnlyRestat(p)
  \/ p \notin Open /\ Readable(p) /\ ~Duplicate(p) /\ ReadFromDisk(p, {})

ApplyDeleted(p) == IF p \in Open THEN Keep ELSE Remove({p})

(* Mutant: the open-buffer guard on the destination runs first.            *)
ApplyRenamedGuardFirst(p, q) ==
  IF q \notin Open /\ Readable(q) THEN ReadFromDisk(q, {p} \ Open)
  ELSE IF q \in Open THEN Keep
  ELSE Remove({p} \ Open)

(* The source goes first, whatever becomes of the destination.             *)
ApplyRenamed(p, q) ==
  IF q \notin Open /\ Readable(q) THEN ReadFromDisk(q, {p} \ Open)
  ELSE Remove({p} \ Open)

Apply(e) ==
  CASE e.kind = "changed" -> ApplyChanged(e.path)
    [] e.kind = "deleted" -> ApplyDeleted(e.path)
    [] e.kind = "renamed" -> ApplyRenamed(e.from, e.path)

TakeNative ==
  /\ Ready /\ native # <<>> /\ Head(native) # Rescan
  /\ Apply(Head(native))
  /\ native' = Tail(native)
  /\ UNCHANGED <<diskVars, client, watcher, sessionVars>>

TakeClient ==
  /\ Ready /\ client \notin {None, <<>>}
  /\ Apply(Head(client))
  /\ client' = Tail(client)
  /\ UNCHANGED <<diskVars, native, watcher, sessionVars>>

(* A batch with a rescan is not applied: the project is walked instead.    *)
TakeRescan(n) ==
  /\ Ready
  /\ \E i \in 1 .. n : native[i] = Rescan
  /\ native' = SubSeq(native, n + 1, Len(native))
  /\ job' = Begin("full", Paths)
  /\ UNCHANGED <<diskVars, client, watcher, indexVars, sessionVars>>

(* A fatal watcher error, or the liveness tick that finds the root gone.   *)
DisableWatcher ==
  /\ Ready /\ watcher = "armed"
  /\ watcher' = "disabled" /\ native' = <<>>
  /\ UNCHANGED <<diskVars, client, indexVars, sessionVars, job>>

(* Mutant: the fallback only looks for unknown files.                      *)
TickDiscovers ==
  /\ Ready /\ watcher = "disabled"
  /\ job' = Begin("discover", Paths)
  /\ UNCHANGED <<diskVars, eventVars, indexVars, sessionVars>>

(* The 60 s fallback of a session without a watcher.                       *)
Tick ==
  /\ Ready /\ watcher = "disabled"
  /\ job' = Begin("full", Paths)
  /\ UNCHANGED <<diskVars, eventVars, indexVars, sessionVars>>

(* Mutant: a buffer's reindex keeps the record of the disk's text.         *)
EditBufferKeepsRecord(p, t) ==
  /\ Ready /\ Cardinality(Open \cup {p}) <= MaxOpen
  /\ buffer' = [buffer EXCEPT ![p] = t]
  /\ iface' = [iface EXCEPT ![p] = t]
  /\ UNCHANGED <<diskVars, eventVars, stat, record, session, starts, cache, job>>

(* didOpen and didChange: the buffer is indexed, its stat is not touched.  *)
EditBuffer(p, t) ==
  /\ Ready /\ Cardinality(Open \cup {p}) <= MaxOpen
  /\ buffer' = [buffer EXCEPT ![p] = t]
  /\ iface' = [iface EXCEPT ![p] = t]
  /\ record' = [record EXCEPT ![p] = None]
  /\ UNCHANGED <<diskVars, eventVars, stat, session, starts, cache, job>>

(* didClose: reindex_from_disk.                                            *)
CloseBuffer(p) ==
  /\ Ready /\ p \in Open
  /\ "unreadable close" \in Faults \/ p \notin locked
  /\ buffer' = [buffer EXCEPT ![p] = None]
  /\ IF ~Exists(p) THEN Remove({p})
     ELSE IF Readable(p) THEN ReadFromDisk(p, {})
     ELSE Keep
  /\ UNCHANGED <<diskVars, eventVars, session, starts, cache>>

(* A native API adoption re-saves the cache.                               *)
SaveMidSession ==
  /\ Ready /\ AnotherStart
  /\ SaveCache(iface, stat)
  /\ UNCHANGED <<diskVars, eventVars, indexVars, session, starts, buffer, job>>

Ended ==
  /\ session' = "down" /\ buffer' = Nothing
  /\ native' = <<>> /\ client' = None /\ watcher' = "armed"
  /\ iface' = Nothing /\ stat' = Nothing /\ record' = Nothing
  /\ job' = IdleJob
  /\ UNCHANGED <<diskVars, starts>>

(* The event loop ends; events still queued are never applied.             *)
Shutdown ==
  /\ Ready
  /\ SaveCache(iface, stat)
  /\ Ended

Crash == session # "down" /\ cache' = cache /\ Ended
-----------------------------------------------------------------------------
Load ==
  \/ \E watch \in {"armed", "disabled"} : StartCold(watch) \/ StartWarm(watch)
  \/ BuildEnd \/ SweepEnd
  \/ \E p \in Paths : BuildRead(p) \/ SweepStat(p)

Walk == (\E p \in Paths : WalkStat(p)) \/ WalkRead \/ WalkEnd

Edit ==
  \/ \E p \in Paths, t \in Texts : EditBuffer(p, t)
  \/ \E p \in Paths : CloseBuffer(p)

TakeSomeRescan == \E n \in 1 .. Len(native) : TakeRescan(n)

Next ==
  \/ Environment
  \/ Load \/ Walk \/ Restat
  \/ TakeNative \/ TakeClient \/ TakeSomeRescan
  \/ DisableWatcher \/ Tick
  \/ Edit \/ SaveMidSession
  \/ Shutdown \/ Crash

Spec == Init /\ [][Next]_vars

(* A started job goes on to its end, and the event loop picks at random    *)
(* among the channels that are ready: none is passed over for ever.        *)
Fairness ==
  /\ WF_vars(BuildEnd \/ SweepEnd \/ (\E p \in Paths : BuildRead(p) \/ SweepStat(p)))
  /\ WF_vars(Walk \/ Restat)
  /\ SF_vars(TakeNative \/ TakeSomeRescan)
  /\ SF_vars(TakeClient)
  /\ SF_vars(Tick)

FairSpec == Spec /\ Fairness

-----------------------------------------------------------------------------
Content == Texts \cup {None}

(* Every variable has its type, a worker that waits has no path in hand,   *)
(* and a stat is only kept for a script that is indexed.                   *)
TypeOK ==
  /\ disk \in [Paths -> File \cup {None}]
  /\ clock \in Nat /\ locked \subseteq Paths
  /\ native \in Seq(Event) /\ client \in Seq(Event \ {Rescan}) \cup {None}
  /\ watcher \in {"armed", "disabled"}
  /\ session \in {"down", "loading", "up"} /\ starts \in Nat
  /\ buffer \in [Paths -> Content]
  /\ iface \in [Paths -> Content]
  /\ stat \in [Paths -> Stamps \cup {None}]
  /\ record \in [Paths -> Content]
  /\ job \in Job /\ (job.step = "restat" => job.at \in Paths)
  /\ cache \in {None} \cup [iface : [Paths -> Content],
                            stat : [Paths -> Stamps \cup {None}]]
  /\ \A p \in Paths : stat[p] # None => iface[p] # None

(* The gate against a change that comes on both channels compares with the *)
(* recorded text: a record is always what the index holds, so a skipped    *)
(* reindex never leaves an older interface (Workspace::last_applied_disk). *)
RecordMatchesIndex ==
  \A p \in Paths : record[p] # None => iface[p] = record[p]

(* An open buffer wins over the disk: whatever events, walks and renames   *)
(* come, its interface is that of its text (docs/01, vfs.rs).              *)
OpenBufferWins ==
  \A p \in Open : iface[p] = buffer[p]

(* A stat that equals the one on disk is never kept for other content than *)
(* the disk's, unless the file is open: the walks trust it.                *)
StatHonest ==
  \A p \in Paths \ Open :
    Exists(p) /\ stat[p] = disk[p].stamp => iface[p] = disk[p].text

(* So is a saved one: a warm start reuses no interface that differs from   *)
(* the file it stands for, an unsaved buffer's least of all.               *)
CacheHonest ==
  cache # None =>
    \A p \in Paths :
      Exists(p) /\ cache.stat[p] = disk[p].stamp
        => cache.iface[p] = disk[p].text

(* The index holds what the disk holds, for the files that are not open    *)
(* and can be read.                                                        *)
InStep ==
  \A p \in Paths \ (Open \cup locked) : iface[p] = IF Exists(p) THEN disk[p].text ELSE None

(* A session with a live watcher that has nothing left to do is in step    *)
(* with the disk: however it started, whichever events were lost to an     *)
(* overflow or came twice, and whatever was renamed, opened and closed.    *)
Settled == Ready /\ watcher = "armed" /\ native = <<>> /\ client \in {None, <<>>}
           => InStep

(* Once other programs leave the disk alone, a session that lives on is in *)
(* step with it for good, a disabled watcher's fallback tick included.     *)
EventuallyInStep == <>[](session = "up" => InStep)
=============================================================================
