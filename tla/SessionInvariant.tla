-------------------------- MODULE SessionInvariant --------------------------
(***************************************************************************)
(* The inductive invariant of Session: how the queue, the registry, the    *)
(* worker, the supersession map and the format threads agree with one      *)
(* another.  SessionProofs proves it, and from it Session's safety         *)
(* properties and the refinement of RequestContract.                       *)
(***************************************************************************)
EXTENDS Session

(* A request on its way to the worker: registered unless it is shutdown,   *)
(* and, until a sweep marks it, sent after the last mutation the router    *)
(* has read.                                                               *)
OnItsWay(m) ==
  m.kind \in RequestKinds =>
    /\ stage[m.id] = "queued"
    /\ IF m.kind = "shutdown"
       THEN m.id \notin inFlight /\ m.id \notin cancelled
       ELSE m.id \in inFlight /\ (m.id \notin stale => m.n = swept)

(* The version reached by applying the first i forwarded messages.         *)
VersionAt(i) == IF i = 0 THEN applied ELSE forward[i].n

(* Only mutations change the version along the wire, which ends at swept.  *)
WireInv ==
  /\ applied <= swept
  /\ \A i \in 1 .. Len(forward) :
       /\ forward[i].n <= swept /\ OnItsWay(forward[i])
       /\ forward[i].kind \notin Mutations => forward[i].n = VersionAt(i - 1)
  /\ routing = None => VersionAt(Len(forward)) = swept
  /\ routing # None =>
       /\ OnItsWay(routing)
       /\ routing.n = swept
       /\ routing.kind \notin Mutations => VersionAt(Len(forward)) = swept

(* No request is on the wire twice.                                        *)
UniqueInv ==
  \A i \in 1 .. Len(forward) : forward[i].kind \in RequestKinds =>
    /\ \A j \in 1 .. Len(forward) :
         forward[j].kind \in RequestKinds /\ forward[j].id = forward[i].id
           => i = j
    /\ routing # None /\ routing.kind \in RequestKinds
         => routing.id # forward[i].id

(* A request being served is registered, and until a sweep marks it, it    *)
(* reads the last text; an unsent one has no lifecycle.                    *)
ServedInv ==
  \A r \in Requests :
    /\ stage[r] \in {"running", "formatting", "reaping", "done"} =>
         /\ r \in inFlight
         /\ basis[r] <= swept
         /\ r \notin stale => basis[r] = swept
    /\ stage[r] \in {"foundCancelled", "foundStale"} => r \in inFlight
    /\ stage[r] = "foundCancelled" => r \in cancelled
    /\ stage[r] \in {"unsent", "answered"} => r \notin inFlight
    /\ stage[r] = "unsent" => r \notin cancelled
    /\ replies[r] = <<>> \/ (stage[r] = "answered" /\ Len(replies[r]) = 1)
    /\ stage[r] = "answered" => replies[r] # <<>>

(* A token trips without an interrupt only for a format, so a handler that *)
(* bailed at a checkpoint was interrupted.                                 *)
BailInv ==
  /\ worker # None =>
       /\ stage[worker] \in {"foundCancelled", "foundStale", "running"}
       /\ sessionEnd = None
  /\ \A r \in bailed : \/ stage[r] = "answered"
                       \/ stage[r] = "running" /\ r \in tripped
  /\ \A r \in Requests :
       stage[r] \in {"unsent", "queued", "running"} /\ r \in tripped
         => Interrupted(r)

FormatInv ==
  /\ \A i \in 1 .. Len(done) : stage[done[i].id] = "done"
  /\ \A i, j \in 1 .. Len(done) : done[i].id = done[j].id => i = j
  /\ \A r \in Requests :
       stage[r] \in {"formatting", "reaping", "done"} => jobDoc[r] \in Docs
  /\ \A d \in Docs : formatMap[d] # None =>
       /\ stage[formatMap[d]] \in {"formatting", "reaping", "done"}
       /\ jobDoc[formatMap[d]] = d

Inv ==
  /\ TypeOK
  /\ WireInv /\ UniqueInv /\ ServedInv /\ BailInv /\ FormatInv
  /\ CurrentResults /\ NoPartialAnswer
  /\ OneLiveFormat /\ ShutdownTripsFormats
=============================================================================
