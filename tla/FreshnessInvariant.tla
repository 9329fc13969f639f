------------------------- MODULE FreshnessInvariant -------------------------
(***************************************************************************)
(* The inductive invariant of Freshness.  Inv holds whatever fails; Honest *)
(* is added to it when no file is written between a read and its stat, and *)
(* no buffer is closed while its file cannot be read.                      *)
(***************************************************************************)
EXTENDS Freshness

(* Which jobs a session runs in which phase.  A job in the middle of a     *)
(* path has one without a buffer.                                          *)
PhaseInv ==
  /\ session # "up" => buffer = Nothing
  /\ session = "down" => job = IdleJob /\ iface = Nothing /\ record = Nothing
  /\ session = "loading" => job.step \in {"build", "sweep"} \cup Walks
  /\ job.step \in {"build", "sweep", "warm"}
       => session = "loading" /\ record = Nothing
  /\ job.step = "restat" => session = "up" /\ iface[job.at] # None
  /\ job.at # None => job.at \notin Open

(* A load fills the stat table after the index.                            *)
LoadInv ==
  /\ session = "down" \/ job.step = "build" => stat = Nothing
  /\ job.step = "sweep" => \A p \in job.todo : stat[p] = None
  /\ cache # None =>
       \A p \in Paths : cache.stat[p] # None => cache.iface[p] # None

Inv ==
  /\ TypeOK
  /\ PhaseInv /\ LoadInv
  /\ RecordMatchesIndex /\ OpenBufferWins

-----------------------------------------------------------------------------
(* What HonestInv needs of the environment.                                *)
Reliable == "race" \notin Faults /\ "unreadable close" \notin Faults

(* No two files ever have the same stamp, and none kept is from the future.*)
Given == Paths \cup 1 .. clock

StampInv ==
  /\ \A p \in Paths : Exists(p) => disk[p].stamp \in Given
  /\ \A p, q \in Paths :
       Exists(p) /\ Exists(q) /\ disk[p].stamp = disk[q].stamp => p = q
  /\ \A p \in Paths : stat[p] # None => stat[p] \in Given
  /\ job.stamp # None => job.stamp \in Given
  /\ cache # None =>
       \A p \in Paths : cache.stat[p] # None => cache.stat[p] \in Given

(* Interfaces i are the content of the files that stats s stand for, where *)
(* ever those files are by now: one may be renamed back.                   *)
Honest(i, s, S) ==
  \A p \in S, q \in Paths :
    Exists(q) /\ s[p] = disk[q].stamp => i[p] = disk[q].text

Restatting == IF job.step = "restat" THEN {job.at} ELSE {}

(* A path in hand: its read is still that of the file to be stamped, or    *)
(* its stamp is still of the file to be read.                              *)
InHandInv ==
  /\ job.step = "restat" /\ Exists(job.at) => iface[job.at] = disk[job.at].text
  /\ job.step \in Walks /\ job.at # None =>
       \A q \in Paths : Exists(q) /\ disk[q].stamp = job.stamp => q = job.at
  /\ \A p \in Paths :
       /\ job.step = "build" \/ (job.step = "sweep" /\ p \in job.todo)
       /\ iface[p] # None /\ Exists(p)
       => iface[p] = disk[p].text

HonestInv ==
  /\ StampInv /\ InHandInv
  /\ Honest(iface, stat, Paths \ (Open \cup Restatting))
  /\ cache # None => Honest(cache.iface, cache.stat, Paths)

-----------------------------------------------------------------------------
(* What Settled needs: with a live watcher, a path the index holds in an   *)
(* older state is waited for by a queued event, or is still to be reached  *)
(* by the job under way.                                                   *)
Right(p) == iface[p] = IF Exists(p) THEN disk[p].text ELSE None

Removes(e, p) == \/ e.kind = "deleted" /\ e.path = p
                 \/ e.kind = "renamed" /\ e.from = p
Arrives(e, p) == e.kind = "renamed" /\ e.path = p
Touches(e, p) == e.path = p \/ (e.kind = "renamed" /\ e.from = p)

Touched(Q, p) == \E i \in 1 .. Len(Q) : Touches(Q[i], p)
Waits(p) ==
  \/ \E i \in 1 .. Len(native) : native[i] = Rescan
  \/ Touched(native, p)
  \/ client # None /\ Touched(client, p)

(* Once the files of S exist, the last event of a queue that touches a     *)
(* path is true where it tells that the path's file has gone, or has come. *)
Files == {p \in Paths : Exists(p)}
LastWord(Q, S) ==
  \A i \in 1 .. Len(Q), p \in Paths :
    (\A j \in i + 1 .. Len(Q) : ~Touches(Q[j], p))
      => (Removes(Q[i], p) => p \notin S) /\ (Arrives(Q[i], p) => p \in S)

(* What the job under way has made, or will make, of a path.               *)
Placed(p) ==
  /\ job.step = "build" => p \in job.todo \/ Right(p)
  /\ job.step \in Walks =>
       IF p \in job.todo THEN job.step = "discover" => Right(p)
       ELSE IF p = job.at THEN Exists(p)
       ELSE IF p \in job.seen THEN Right(p) ELSE ~Exists(p)
  /\ job.step \in {"idle", "restat", "sweep"} => Right(p)

QueueInv ==
  /\ session = "down" => native = <<>>
  /\ session # "up" => client = None
  /\ job.step \in Walks => /\ job.todo \cap job.seen = {}
                           /\ job.at # None => job.at \in job.seen

FollowInv ==
  session # "down" /\ watcher = "armed" =>
    /\ LastWord(native, Files) /\ (client # None => LastWord(client, Files))
    /\ \A p \in Paths \ (Open \cup locked) : Waits(p) \/ Placed(p)
=============================================================================
