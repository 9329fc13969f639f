----------------------------- MODULE MCLiveness ----------------------------
(***************************************************************************)
(* A small instance of each component that a thread, a timer or another   *)
(* process has to keep going.  They share nothing that the properties      *)
(* read, so a behaviour is a behaviour of one of them, its part, while the *)
(* others stay where they start; each part has the fairness of its module. *)
(***************************************************************************)
EXTENDS NativeApi, MemoryLadder, TLC

CONSTANTS Requests, Docs, Failures, MaxMutations, MaxQueue  \* Session
CONSTANTS Paths, Texts, MaxOpen, Changes, Starts            \* Freshness

MCDefaultCaps == [soft |-> 1, hard |-> 2]
MCBenchCaps == {Unset, [soft |-> 1, hard |-> 0]}

VARIABLES routerUp, routing, swept, forward, inFlight, cancelled, stale, tripped, stage,
          basis, bailed, replies, worker, open, applied, shuttingDown, sessionEnd, jobDoc,
          formatMap, done, warned
VARIABLES disk, clock, locked, native, client, watcher, session, starts, buffer, iface,
          stat, record, job, cache
VARIABLE part

sessionPart == <<routerUp, routing, swept, forward, inFlight, cancelled, stale, tripped, stage,
  basis, bailed, replies, worker, open, applied, shuttingDown, sessionEnd, jobDoc, formatMap,
  done, warned>>
freshnessPart == <<disk, clock, locked, native, client, watcher, session, starts, buffer, iface,
  stat, record, job, cache>>

S == INSTANCE Session
F == INSTANCE Freshness WITH ClientWatches <- TRUE, MaxOps <- Changes, MaxStarts <- Starts,
                             Faults <- {}

NativeIdle == Init /\ binary = (CHOOSE b \in Binaries : TRUE) /\ surface = (CHOOSE s \in Surfaces : TRUE)
FreshIdle  == F!Init /\ \A p \in Paths : disk[p] = None
LadderIdle == LadderInit /\ rss = 0 /\ budget = DefaultCaps

LivenessInit ==
  \/ part = "session"   /\ S!Init    /\ NativeIdle /\ FreshIdle /\ LadderIdle
  \/ part = "freshness" /\ F!Init    /\ NativeIdle /\ S!Init    /\ LadderIdle
  \/ part = "native"    /\ Init      /\ S!Init     /\ FreshIdle /\ LadderIdle
  \/ part = "ladder"    /\ LadderInit    /\ NativeIdle /\ S!Init    /\ FreshIdle

LivenessNext ==
  /\ part' = part
  /\ \/ part = "session" /\ S!Next /\ UNCHANGED <<vars, freshnessPart, ladderVars>>
     \/ part = "freshness" /\ F!Next /\ UNCHANGED <<vars, sessionPart, ladderVars>>
     \/ part = "native" /\ Next /\ UNCHANGED <<sessionPart, freshnessPart, ladderVars>>
     \/ part = "ladder" /\ LadderNext /\ UNCHANGED <<vars, sessionPart, freshnessPart>>

LivenessVars == <<part, vars, sessionPart, freshnessPart, ladderVars>>

LivenessFairness ==
  \/ part = "session" /\ S!ThreadFairness /\ S!ChildFairness
  \/ part = "freshness" /\ F!Fairness
  \/ part = "native" /\ Fairness
  \/ part = "ladder" /\ LadderFairness

LivenessSpec == LivenessInit /\ [][LivenessNext]_LivenessVars /\ LivenessFairness

(* The properties of the parts, each defined and explained in its module.  *)
EveryRequestAnswered == S!EveryRequestAnswered
EventuallyInStep == F!EventuallyInStep
=============================================================================
