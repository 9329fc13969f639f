--------------------------- MODULE FreshnessProofs ---------------------------
(***************************************************************************)
(* Proofs about Freshness, for every set of paths and texts and every      *)
(* bound on disk operations, sessions and open buffers.                    *)
(***************************************************************************)
EXTENDS FreshnessInvariant, SequenceTheorems, TLAPS

USE DEF Walks

LEMMA NoneFresh == None \notin Paths /\ None \notin Texts
BY ConstantsAssumption

LEMMA Idle ==
  /\ IdleJob \in Job
  /\ IdleJob.step = "idle" /\ IdleJob.at = None /\ IdleJob.stamp = None
BY DEF IdleJob, Job

LEMMA InitInv == Init => Inv
<1> SUFFICES ASSUME Init PROVE Inv
  OBVIOUS
<1>1. disk \in [Paths -> File \cup {None}]
  <2>1. PICK text \in [Paths -> Texts \cup {None}] :
          disk = [p \in Paths |-> IF text[p] = None THEN None
                                  ELSE [text |-> text[p], stamp |-> p]]
    BY DEF Init
  <2>2. ASSUME NEW p \in Paths PROVE disk[p] \in File \cup {None}
    BY <2>1, <2>2 DEF File, Stamps
  <2> QED
    BY <2>1, <2>2
<1>2. Nothing \in [Paths -> Content] /\ Nothing \in [Paths -> Stamps \cup {None}]
  BY DEF Nothing, Content
<1>3. IdleJob \in Job
  BY DEF IdleJob, Job
<1>4. TypeOK
  <2>1. <<>> \in Seq(Event) /\ <<>> \in Seq(Event \ {Rescan})
    OBVIOUS
  <2> QED
    BY <1>1, <1>2, <1>3, <2>1 DEF Init, TypeOK, IdleJob, Nothing
<1>5. PhaseInv /\ LoadInv /\ RecordMatchesIndex /\ OpenBufferWins
  BY DEF Init, PhaseInv, LoadInv, RecordMatchesIndex, OpenBufferWins, Nothing,
         IdleJob, Open
<1> QED
  BY <1>4, <1>5 DEF Inv

-----------------------------------------------------------------------------
(* What a step of another program leaves for Inv: the disk, and new events *)
(* at the end of the queues.                                               *)
LEMMA ReportInv ==
  ASSUME Inv, NEW n \in Seq(Event), NEW c \in Seq(Event \ {Rescan}), Report(n, c),
         disk' \in [Paths -> File \cup {None}], clock' \in Nat,
         locked' \subseteq Paths
  PROVE  Inv'
<1>1. native' \in Seq(Event)
  BY ConcatProperties DEF Report, Inv, TypeOK
<1>2. client' \in Seq(Event \ {Rescan}) \cup {None}
  BY ConcatProperties DEF Report, Inv, TypeOK
<1>3. UNCHANGED <<watcher, indexVars, sessionVars, job>>
  BY DEF Report
<1>4. TypeOK'
  BY <1>1, <1>2, <1>3 DEF Inv, TypeOK, indexVars, sessionVars
<1> QED
  BY <1>3, <1>4 DEF Inv, PhaseInv, LoadInv, RecordMatchesIndex, OpenBufferWins,
                    indexVars, sessionVars, Open

LEMMA EventTypes ==
  ASSUME NEW p \in Paths, NEW q \in Paths
  PROVE  /\ <<Changed(p)>> \in Seq(Event \ {Rescan})
         /\ <<Deleted(p)>> \in Seq(Event \ {Rescan})
         /\ <<Changed(p)>> \in Seq(Event) /\ <<Deleted(p)>> \in Seq(Event)
         /\ <<Renamed(p, q)>> \in Seq(Event)
         /\ <<Deleted(p), Changed(q)>> \in Seq(Event \ {Rescan})
<1>1. /\ Changed(p) \in Event \ {Rescan} /\ Deleted(p) \in Event \ {Rescan}
      /\ Changed(q) \in Event \ {Rescan} /\ Renamed(p, q) \in Event
  BY DEF Changed, Deleted, Renamed, Rescan, Event
<1> HIDE DEF Changed, Deleted, Renamed, Rescan, Event
<1> QED
  BY <1>1

LEMMA EnvironmentInv == Inv /\ Environment => Inv'
<1> SUFFICES ASSUME Inv, Environment PROVE Inv'
  OBVIOUS
<1>1. ASSUME NEW p \in Paths, NEW t \in Texts, Write(p, t) PROVE Inv'
  <2>1. clock + 1 \in Nat
    BY DEF Inv, TypeOK
  <2>2. [text |-> t, stamp |-> clock + 1] \in File
    BY <2>1 DEF File, Stamps
  <2>3. disk' \in [Paths -> File \cup {None}] /\ clock' \in Nat /\ locked' \subseteq Paths
    BY <1>1, <2>1, <2>2 DEF Write, Inv, TypeOK
  <2> QED
    BY <1>1, <2>3, EventTypes, ReportInv DEF Write
<1>2. ASSUME NEW p \in Paths, Delete(p) PROVE Inv'
  <2>1. disk' \in [Paths -> File \cup {None}] /\ clock' \in Nat /\ locked' \subseteq Paths
    BY <1>2 DEF Delete, Inv, TypeOK
  <2>2. <<>> \in Seq(Event \ {Rescan})
    OBVIOUS
  <2> QED
    BY <1>2, <2>1, <2>2, EventTypes, ReportInv DEF Delete
<1>3. ASSUME NEW p \in Paths, Lock(p) PROVE Inv'
  <2>1. disk' \in [Paths -> File \cup {None}] /\ clock' \in Nat /\ locked' \subseteq Paths
    BY <1>3 DEF Lock, Inv, TypeOK
  <2>2. <<>> \in Seq(Event \ {Rescan})
    OBVIOUS
  <2> QED
    BY <1>3, <2>1, <2>2, EventTypes, ReportInv DEF Lock
<1>4. ASSUME NEW p \in Paths, NEW q \in Paths, Rename(p, q) PROVE Inv'
  <2>1. disk' \in [Paths -> File \cup {None}] /\ clock' \in Nat /\ locked' \subseteq Paths
    BY <1>4 DEF Rename, Inv, TypeOK
  <2> QED
    BY <1>4, <2>1, EventTypes, ReportInv DEF Rename
<1>5. CASE Overflow
  <2>1. <<Rescan>> \in Seq(Event)
    BY DEF Rescan, Event
  <2>2. TypeOK'
    BY <1>5, <2>1 DEF Overflow, Inv, TypeOK, diskVars, indexVars, sessionVars
  <2> QED
    BY <1>5, <2>2 DEF Overflow, Inv, PhaseInv, LoadInv, RecordMatchesIndex,
                      OpenBufferWins, diskVars, indexVars, sessionVars, Open
<1> QED
  BY <1>1, <1>2, <1>3, <1>4, <1>5 DEF Environment

-----------------------------------------------------------------------------
(* The parts of the loads and of the walks.                                *)
LEMMA LoadStepInv == Inv /\ Load => Inv'
<1> SUFFICES ASSUME Inv, Load PROVE Inv'
  OBVIOUS
<1> USE NoneFresh
<1>1. ASSUME NEW watch \in {"armed", "disabled"}, StartCold(watch) PROVE Inv'
  <2>1. Begin("build", {p \in Paths : Exists(p)}) \in Job
    BY DEF Begin, IdleJob, Job
  <2>0. starts + 1 \in Nat /\ UNCHANGED <<diskVars, native, client>>
    BY <1>1 DEF StartCold, Start, Inv, TypeOK
  <2>2. TypeOK'
    BY <1>1, <2>0, <2>1 DEF StartCold, Start, Inv, TypeOK, Begin, IdleJob, diskVars
  <2>3. PhaseInv' /\ LoadInv'
    BY <1>1 DEF StartCold, Start, Inv, PhaseInv, LoadInv, Begin, IdleJob, Open
  <2> QED
    BY <1>1, <2>2, <2>3 DEF StartCold, Start, Inv, RecordMatchesIndex,
                            OpenBufferWins, Open
<1>2. ASSUME NEW watch \in {"armed", "disabled"}, StartWarm(watch) PROVE Inv'
  <2>1. Begin("warm", Paths) \in Job
    BY DEF Begin, IdleJob, Job
  <2>2. /\ iface' \in [Paths -> Content] /\ stat' \in [Paths -> Stamps \cup {None}]
        /\ \A p \in Paths : stat'[p] # None => iface'[p] # None
    BY <1>2 DEF StartWarm, Inv, TypeOK, LoadInv
  <2>0. starts + 1 \in Nat /\ UNCHANGED <<diskVars, native, client>>
    BY <1>2 DEF StartWarm, Start, Inv, TypeOK
  <2>3. TypeOK'
    BY <1>2, <2>0, <2>1, <2>2
       DEF StartWarm, Start, Inv, TypeOK, Begin, IdleJob, diskVars
  <2>4. PhaseInv' /\ LoadInv'
    BY <1>2 DEF StartWarm, Start, Inv, PhaseInv, LoadInv, Begin, IdleJob, Open
  <2>5. record = Nothing /\ buffer = Nothing
    BY <1>2 DEF StartWarm, Start, Inv, PhaseInv
  <2> QED
    BY <1>2, <2>3, <2>4, <2>5
       DEF StartWarm, Start, Inv, RecordMatchesIndex, OpenBufferWins, Open, Nothing
<1>3. CASE BuildEnd
  <2>1. Begin("sweep", Paths) \in Job
    BY DEF Begin, IdleJob, Job
  <2>2. TypeOK'
    BY <1>3, <2>1 DEF BuildEnd, Inv, TypeOK, Begin, IdleJob, diskVars, eventVars,
                      indexVars, sessionVars
  <2>3. PhaseInv' /\ LoadInv'
    BY <1>3 DEF BuildEnd, Inv, PhaseInv, LoadInv, Begin, IdleJob, Open, indexVars,
                sessionVars, Nothing
  <2> QED
    BY <1>3, <2>2, <2>3 DEF BuildEnd, Inv, RecordMatchesIndex, OpenBufferWins,
                            Open, indexVars, sessionVars
<1>4. CASE SweepEnd
  <2>1. Settle \in Job /\ Settle.step \in Walks \ {"warm"} /\ Settle.at = None
    BY DEF Settle, Begin, IdleJob, Job
  <2>2. TypeOK'
    BY <1>4, <2>1 DEF SweepEnd, Inv, TypeOK, diskVars, eventVars, indexVars,
                      sessionVars
  <2>3. PhaseInv' /\ LoadInv'
    BY <1>4, <2>1 DEF SweepEnd, Inv, PhaseInv, LoadInv, Open, indexVars, sessionVars
  <2> QED
    BY <1>4, <2>2, <2>3 DEF SweepEnd, Inv, RecordMatchesIndex, OpenBufferWins,
                            Open, indexVars, sessionVars
<1>5. ASSUME NEW p \in Paths, BuildRead(p) PROVE Inv'
  <2>1. iface' \in [Paths -> Content]
    BY <1>5 DEF BuildRead, Inv, TypeOK, Content, File, Readable, Exists
  <2>2. job' \in Job /\ job'.step = "build" /\ job'.at = job.at
    BY <1>5 DEF BuildRead, Inv, TypeOK, Job
  <2>3. stat = Nothing /\ record = Nothing /\ buffer = Nothing
    BY <1>5 DEF BuildRead, Inv, LoadInv, PhaseInv
  <2>4. TypeOK'
    BY <1>5, <2>1, <2>2, <2>3 DEF BuildRead, Inv, TypeOK, diskVars, eventVars,
                                  sessionVars, Nothing
  <2>5. PhaseInv' /\ LoadInv'
    BY <1>5, <2>2, <2>3 DEF BuildRead, Inv, PhaseInv, LoadInv, Open, sessionVars
  <2> QED
    BY <1>5, <2>3, <2>4, <2>5 DEF BuildRead, Inv, RecordMatchesIndex,
                                  OpenBufferWins, Open, sessionVars, Nothing
<1>6. ASSUME NEW p \in Paths, SweepStat(p) PROVE Inv'
  <2>1. stat' \in [Paths -> Stamps \cup {None}]
    BY <1>6 DEF SweepStat, Inv, TypeOK, File, Exists
  <2>2. /\ job' \in Job /\ job'.step = "sweep" /\ job'.at = job.at
        /\ job'.todo = job.todo \ {p}
    BY <1>6 DEF SweepStat, Inv, TypeOK, Job
  <2>3. \A q \in Paths : stat'[q] # None => iface'[q] # None
    BY <1>6 DEF SweepStat, Inv, TypeOK
  <2>4. TypeOK'
    BY <1>6, <2>1, <2>2, <2>3 DEF SweepStat, Inv, TypeOK, diskVars, eventVars,
                                  sessionVars
  <2>5. \A q \in job'.todo : stat'[q] = None
    BY <1>6, <2>2 DEF SweepStat, Inv, TypeOK, Job, LoadInv
  <2>6. PhaseInv' /\ LoadInv'
    BY <1>6, <2>2, <2>5 DEF SweepStat, Inv, PhaseInv, LoadInv, Open, sessionVars
  <2> QED
    BY <1>6, <2>4, <2>6 DEF SweepStat, Inv, RecordMatchesIndex, OpenBufferWins,
                            Open, sessionVars
<1> QED
  BY <1>1, <1>2, <1>3, <1>4, <1>5, <1>6 DEF Load

LEMMA SaveType ==
  ASSUME Inv, NEW i \in [Paths -> Content], NEW s \in [Paths -> Stamps \cup {None}],
         \A p \in Paths : s[p] # None => i[p] # None, SaveCache(i, s)
  PROVE  /\ cache' \in {None} \cup [iface : [Paths -> Content],
                                   stat : [Paths -> Stamps \cup {None}]]
         /\ cache' # None =>
              \A p \in Paths : cache'.stat[p] # None => cache'.iface[p] # None
<1> DEFINE saved == [iface |-> i, stat |-> Forget(s, Open)]
<1>1. Forget(s, Open) \in [Paths -> Stamps \cup {None}]
  BY DEF Forget
<1>2. \A p \in Paths : Forget(s, Open)[p] # None => i[p] # None
  BY DEF Forget
<1>3. CASE cache' = saved
  BY <1>1, <1>2, <1>3
<1>4. CASE cache' = cache
  BY <1>4 DEF Inv, TypeOK, LoadInv
<1> QED
  BY <1>3, <1>4 DEF SaveCache

LEMMA WalkStepInv == Inv /\ Walk => Inv'
<1> SUFFICES ASSUME Inv, Walk PROVE Inv'
  OBVIOUS
<1> USE NoneFresh
<1>1. ASSUME NEW p \in Paths, WalkStat(p) PROVE Inv'
  <2>1. job' \in Job /\ job'.step = job.step
    BY <1>1 DEF WalkStat, Inv, TypeOK, Job, File, Exists
  <2>2. job'.at # None => job'.at \notin Open
    BY <1>1 DEF WalkStat, Inv, TypeOK, Job, Trusted
  <2>3. TypeOK'
    BY <1>1, <2>1 DEF WalkStat, Inv, TypeOK, diskVars, eventVars, indexVars,
                      sessionVars
  <2>4. PhaseInv' /\ LoadInv'
    <3>1. job' # IdleJob /\ job # IdleJob
      BY <1>1, <2>1, Idle DEF WalkStat
    <3> QED
      BY <1>1, <2>1, <2>2, <3>1 DEF WalkStat, Inv, PhaseInv, LoadInv, Open,
                                    indexVars, sessionVars
  <2> QED
    BY <1>1, <2>3, <2>4 DEF WalkStat, Inv, RecordMatchesIndex, OpenBufferWins,
                            Open, indexVars, sessionVars
<1>2. CASE WalkRead
  <2>1. /\ job' \in Job /\ job'.step = job.step /\ job'.at = None
        /\ job.at \in Paths \ Open /\ job.stamp \in Stamps \cup {None}
    BY <1>2 DEF WalkRead, Inv, TypeOK, Job, PhaseInv
  <2>2. CASE Readable(job.at)
    <3>1. disk[job.at].text \in Texts
      BY <2>1, <2>2 DEF Readable, Exists, Inv, TypeOK, File
    <3>2. /\ iface' = [iface EXCEPT ![job.at] = disk[job.at].text]
          /\ stat' = [stat EXCEPT ![job.at] = job.stamp]
          /\ record' = IF job.step = "warm" THEN record
                       ELSE [record EXCEPT ![job.at] = disk[job.at].text]
          /\ UNCHANGED <<diskVars, eventVars, sessionVars>>
      BY <1>2, <2>2 DEF WalkRead
    <3>3. /\ iface' \in [Paths -> Content] /\ record' \in [Paths -> Content]
          /\ stat' \in [Paths -> Stamps \cup {None}]
          /\ \A p \in Paths : stat'[p] # None => iface'[p] # None
      BY <2>1, <3>1, <3>2 DEF Inv, TypeOK, Content
    <3>4. TypeOK'
      BY <1>2, <2>1, <3>2, <3>3 DEF WalkRead, Inv, TypeOK, diskVars, eventVars, sessionVars
    <3>5. job.step \in Walks /\ job # IdleJob /\ job' # IdleJob
      BY <1>2, <2>1, Idle DEF WalkRead
    <3>6. job.step = "warm" => record' = Nothing
      BY <3>2 DEF Inv, PhaseInv
    <3>7. PhaseInv' /\ LoadInv'
      BY <2>1, <3>2, <3>5, <3>6 DEF Inv, PhaseInv, LoadInv, Open, sessionVars
    <3>8. OpenBufferWins'
      BY <2>1, <3>2 DEF Inv, TypeOK, OpenBufferWins, Open, sessionVars
    <3>9. RecordMatchesIndex'
      <4>1. CASE job.step = "warm"
        BY <3>6, <4>1 DEF RecordMatchesIndex, Nothing
      <4>2. CASE job.step # "warm"
        BY <2>1, <3>2, <4>2 DEF Inv, TypeOK, RecordMatchesIndex
      <4> QED
        BY <4>1, <4>2
    <3> QED
      BY <3>4, <3>7, <3>8, <3>9 DEF Inv
  <2>3. CASE ~Readable(job.at)
    <3>1. UNCHANGED <<diskVars, eventVars, sessionVars, indexVars>>
      BY <1>2, <2>3 DEF WalkRead
    <3>2. TypeOK'
      BY <1>2, <2>1, <3>1 DEF WalkRead, Inv, TypeOK, diskVars, eventVars, sessionVars, indexVars
    <3>3. job.step \in Walks /\ job # IdleJob /\ job' # IdleJob
      BY <1>2, <2>1, Idle DEF WalkRead
    <3> QED
      BY <2>1, <3>1, <3>2, <3>3
         DEF Inv, PhaseInv, LoadInv, RecordMatchesIndex, OpenBufferWins, Open,
             sessionVars, indexVars
  <2> QED
    BY <2>2, <2>3
<1>3. CASE WalkEnd
  <2> DEFINE gone == {p \in Paths : iface[p] # None} \ (job.seen \cup Open)
  <2>1. /\ iface' = Forget(iface, gone) /\ stat' = Forget(stat, gone)
        /\ record' = Forget(record, gone)
    BY <1>3 DEF WalkEnd
  <2>2. /\ iface' \in [Paths -> Content] /\ record' \in [Paths -> Content]
        /\ stat' \in [Paths -> Stamps \cup {None}]
        /\ \A p \in Paths : stat'[p] # None => iface'[p] # None
    BY <2>1 DEF Inv, TypeOK, Content, Forget
  <2>3. /\ \A p \in Paths : record'[p] # None => iface'[p] = record'[p]
        /\ \A p \in Open : iface'[p] = iface[p]
        /\ record = Nothing => record' = Nothing
    <3>1. gone \cap Open = {}
      OBVIOUS
    <3> QED
      BY <2>1, <3>1 DEF Inv, RecordMatchesIndex, Forget, Open, Nothing
  <2>4. /\ UNCHANGED <<diskVars, native, watcher, starts, buffer>>
        /\ job.at = None /\ job.step \in Walks
    BY <1>3 DEF WalkEnd
  <2>7. client' \in Seq(Event \ {Rescan}) \cup {None}
    <3>1. client' \in {client, None, <<>>}
      BY <1>3 DEF WalkEnd, Registered
    <3>2. <<>> \in Seq(Event \ {Rescan})
      OBVIOUS
    <3> QED
      BY <3>1, <3>2 DEF Inv, TypeOK
  <2>5. CASE job.step = "warm"
    <3>1. Settle \in Job /\ Settle.step \in Walks \ {"warm"} /\ Settle.at = None
      BY DEF Settle, Begin, IdleJob, Job
    <3>2. job' = Settle /\ UNCHANGED <<session, cache>>
      BY <1>3, <2>5 DEF WalkEnd
    <3>3. TypeOK'
      BY <2>2, <2>4, <2>7, <3>1, <3>2 DEF Inv, TypeOK, diskVars
    <3>4. PhaseInv' /\ LoadInv'
      BY <2>3, <2>4, <2>5, <3>1, <3>2 DEF Inv, PhaseInv, LoadInv, Open
    <3> QED
      BY <2>3, <2>4, <3>3, <3>4 DEF Inv, RecordMatchesIndex, OpenBufferWins, Open
  <2>6. CASE job.step # "warm"
    <3>1. /\ job' = IdleJob /\ session' = "up"
          /\ SaveCache(iface', stat') \/ cache' = cache
      BY <1>3, <2>6 DEF WalkEnd
    <3>2. /\ cache' \in {None} \cup [iface : [Paths -> Content],
                                     stat : [Paths -> Stamps \cup {None}]]
          /\ cache' # None =>
               \A p \in Paths : cache'.stat[p] # None => cache'.iface[p] # None
      <4>1. CASE SaveCache(iface', stat')
        BY <4>1, <2>2, SaveType
      <4>2. CASE cache' = cache
        BY <4>2 DEF Inv, TypeOK, LoadInv
      <4> QED
        BY <3>1, <4>1, <4>2
    <3>3. TypeOK'
      BY <2>2, <2>4, <2>7, <3>1, <3>2 DEF Inv, TypeOK, diskVars, IdleJob, Job
    <3>4. PhaseInv' /\ LoadInv'
      BY <2>4, <3>1, <3>2 DEF Inv, PhaseInv, LoadInv, IdleJob
    <3> QED
      BY <2>3, <2>4, <3>3, <3>4 DEF Inv, RecordMatchesIndex, OpenBufferWins, Open
  <2> QED
    BY <2>5, <2>6
<1> QED
  BY <1>1, <1>2, <1>3 DEF Walk

-----------------------------------------------------------------------------
(* What every handler leaves alone, and the type of the queues it takes    *)
(* from.                                                                   *)
Frame ==
  /\ Ready
  /\ UNCHANGED <<diskVars, session, starts, cache>>
  /\ native' \in Seq(Event) /\ client' \in Seq(Event \ {Rescan}) \cup {None}
  /\ watcher' \in {"armed", "disabled"}

(* The buffers of S are closed, the others are left alone.                 *)
Closing(S) ==
  buffer' = [p \in Paths |-> IF p \in S THEN None ELSE buffer[p]]

LEMMA ClosingKeeps ==
  ASSUME Inv, NEW S \in SUBSET (Paths \ Open), buffer' = buffer
  PROVE  Closing(S)
BY DEF Inv, TypeOK, Closing, Open

LEMMA KeepInv ==
  ASSUME Inv, Frame, Keep,
         buffer' = buffer \/ (\E p \in Paths : buffer' = [buffer EXCEPT ![p] = None])
  PROVE  Inv'
<1>1. /\ buffer' \in [Paths -> Content]
      /\ \A p \in Paths : buffer'[p] # None => buffer'[p] = buffer[p]
  BY DEF Inv, TypeOK, Content
<1>2. TypeOK'
  BY <1>1 DEF Frame, Keep, Inv, TypeOK, diskVars, indexVars
<1>3. job = IdleJob /\ session = "up"
  BY DEF Frame, Ready
<1> QED
  BY <1>1, <1>2, <1>3, Idle
     DEF Frame, Keep, Inv, PhaseInv, LoadInv, RecordMatchesIndex, OpenBufferWins,
         Open, indexVars

LEMMA RemoveInv ==
  ASSUME Inv, Frame, NEW S \in SUBSET Paths, Remove(S), Closing(S)
  PROVE  Inv'
<1>1. /\ iface' \in [Paths -> Content] /\ record' \in [Paths -> Content]
      /\ stat' \in [Paths -> Stamps \cup {None}]
      /\ buffer' \in [Paths -> Content]
      /\ \A p \in Paths : stat'[p] # None => iface'[p] # None
  BY DEF Remove, Closing, Forget, Inv, TypeOK, Content
<1>2. TypeOK'
  BY <1>1 DEF Frame, Remove, Inv, TypeOK, diskVars
<1>3. job' = IdleJob /\ session' = "up"
  BY DEF Frame, Ready, Remove
<1>4. RecordMatchesIndex' /\ OpenBufferWins'
  BY DEF Remove, Closing, Forget, Inv, RecordMatchesIndex, OpenBufferWins, Open
<1> QED
  BY <1>2, <1>3, <1>4, Idle DEF Frame, Inv, PhaseInv, LoadInv

LEMMA ReadInv ==
  ASSUME Inv, Frame, NEW p \in Paths, NEW S \in SUBSET (Paths \ Open),
         Readable(p), ReadFromDisk(p, S),
         Closing({p}) \/ (p \notin Open /\ buffer' = buffer)
  PROVE  Inv'
<1> USE NoneFresh
<1>1. disk[p].text \in Texts
  BY DEF Readable, Exists, Inv, TypeOK, File
<1>2. /\ iface' \in [Paths -> Content] /\ record' \in [Paths -> Content]
      /\ stat' \in [Paths -> Stamps \cup {None}]
      /\ buffer' \in [Paths -> Content]
      /\ \A q \in Paths : stat'[q] # None => iface'[q] # None
  BY <1>1 DEF ReadFromDisk, Closing, Forget, Inv, TypeOK, Content
<1>3. job' \in Job /\ job'.step = "restat" /\ job'.at = p
  BY Idle DEF ReadFromDisk, Job
<1>4. TypeOK'
  BY <1>2, <1>3 DEF Frame, Inv, TypeOK, diskVars
<1>5. iface'[p] # None /\ p \notin Open'
  BY <1>1 DEF ReadFromDisk, Forget, Closing, Inv, TypeOK, Open
<1>6. job' # IdleJob /\ session' = "up"
  BY <1>3, Idle DEF Frame, Ready
<1>7. RecordMatchesIndex'
  BY DEF ReadFromDisk, Forget, Inv, TypeOK, RecordMatchesIndex
<1>8. OpenBufferWins'
  BY <1>5 DEF ReadFromDisk, Forget, Closing, Inv, TypeOK, OpenBufferWins, Open
<1> QED
  BY <1>3, <1>4, <1>5, <1>6, <1>7, <1>8 DEF Frame, Inv, PhaseInv, LoadInv

LEMMA OnlyRestatInv ==
  ASSUME Inv, Frame, NEW p \in Paths, p \notin Open, Readable(p), Duplicate(p),
         OnlyRestat(p), buffer' = buffer
  PROVE  Inv'
<1> USE NoneFresh
<1>1. disk[p].text \in Texts
  BY DEF Readable, Exists, Inv, TypeOK, File
<1>2. iface[p] # None
  BY <1>1 DEF Duplicate, Inv, RecordMatchesIndex
<1>3. job' \in Job /\ job'.step = "restat" /\ job'.at = p
  BY Idle DEF OnlyRestat, Job
<1>4. TypeOK'
  BY <1>3 DEF Frame, OnlyRestat, Inv, TypeOK, diskVars, indexVars
<1>5. job' # IdleJob /\ session' = "up"
  BY <1>3, Idle DEF Frame, Ready
<1> QED
  BY <1>2, <1>3, <1>4, <1>5
     DEF Frame, OnlyRestat, Inv, PhaseInv, LoadInv, RecordMatchesIndex,
         OpenBufferWins, Open, indexVars

(* The outcomes of an event: the index is kept, paths without a buffer are *)
(* removed, one is read, or one that is known already is only stamped.     *)
LEMMA ApplyOutcomes ==
  ASSUME NEW e \in Event \ {Rescan}, Apply(e)
  PROVE  \/ Keep
         \/ \E S \in SUBSET (Paths \ Open) : Remove(S)
         \/ \E p \in Paths \ Open, S \in SUBSET (Paths \ Open) :
              Readable(p) /\ ReadFromDisk(p, S)
         \/ \E p \in Paths \ Open : Readable(p) /\ Duplicate(p) /\ OnlyRestat(p)
<1> DEFINE Goal ==
     \/ Keep
     \/ \E S \in SUBSET (Paths \ Open) : Remove(S)
     \/ \E p \in Paths \ Open, S \in SUBSET (Paths \ Open) :
          Readable(p) /\ ReadFromDisk(p, S)
     \/ \E p \in Paths \ Open : Readable(p) /\ Duplicate(p) /\ OnlyRestat(p)
<1>1. \/ e.kind = "changed" /\ e.path \in Paths
      \/ e.kind = "deleted" /\ e.path \in Paths
      \/ e.kind = "renamed" /\ e.path \in Paths /\ e.from \in Paths
  BY DEF Event, Rescan
<1>2. CASE e.kind = "changed" /\ e.path \in Paths
  <2>1. ApplyChanged(e.path)
    BY <1>2 DEF Apply
  <2>2. {} \in SUBSET (Paths \ Open)
    OBVIOUS
  <2>3. e.path \notin Open => {e.path} \in SUBSET (Paths \ Open)
    BY <1>2
  <2> QED
    BY <1>2, <2>1, <2>2, <2>3 DEF ApplyChanged
<1>3. CASE e.kind = "deleted" /\ e.path \in Paths
  <2>1. ApplyDeleted(e.path)
    BY <1>3 DEF Apply
  <2>2. e.path \notin Open => {e.path} \in SUBSET (Paths \ Open)
    BY <1>3
  <2> QED
    BY <2>1, <2>2 DEF ApplyDeleted
<1>4. CASE e.kind = "renamed" /\ e.path \in Paths /\ e.from \in Paths
  <2>1. ApplyRenamed(e.from, e.path)
    BY <1>4 DEF Apply
  <2>2. {e.from} \ Open \in SUBSET (Paths \ Open)
    BY <1>4
  <2> QED
    BY <1>4, <2>1, <2>2 DEF ApplyRenamed
<1> QED
  BY <1>1, <1>2, <1>3, <1>4

LEMMA ApplyInv ==
  ASSUME Inv, Frame, NEW e \in Event \ {Rescan}, Apply(e), buffer' = buffer
  PROVE  Inv'
<1>1. CASE Keep
  BY <1>1, KeepInv
<1>2. ASSUME NEW S \in SUBSET (Paths \ Open), Remove(S) PROVE Inv'
  BY <1>2, RemoveInv, ClosingKeeps
<1>3. ASSUME NEW p \in Paths \ Open, NEW S \in SUBSET (Paths \ Open),
             Readable(p), ReadFromDisk(p, S)
      PROVE  Inv'
  BY <1>3, ReadInv
<1>4. ASSUME NEW p \in Paths \ Open, Readable(p), Duplicate(p), OnlyRestat(p)
      PROVE  Inv'
  BY <1>4, OnlyRestatInv
<1> QED
  BY <1>1, <1>2, <1>3, <1>4, ApplyOutcomes

-----------------------------------------------------------------------------
LEMMA TakeInv == Inv /\ (TakeNative \/ TakeClient \/ TakeSomeRescan) => Inv'
<1> SUFFICES ASSUME Inv, TakeNative \/ TakeClient \/ TakeSomeRescan PROVE Inv'
  OBVIOUS
<1>0. native \in Seq(Event) /\ client \in Seq(Event \ {Rescan}) \cup {None}
      /\ watcher \in {"armed", "disabled"}
  BY DEF Inv, TypeOK
<1>1. CASE TakeNative
  <2>1. Head(native) \in Event \ {Rescan} /\ Tail(native) \in Seq(Event)
    BY <1>0, <1>1, HeadTailProperties DEF TakeNative
  <2>2. Frame /\ buffer' = buffer /\ Apply(Head(native))
    BY <1>0, <1>1, <2>1 DEF TakeNative, Frame, sessionVars
  <2> QED
    BY <2>1, <2>2, ApplyInv
<1>2. CASE TakeClient
  <2>1. Head(client) \in Event \ {Rescan} /\ Tail(client) \in Seq(Event \ {Rescan})
    BY <1>0, <1>2, HeadTailProperties DEF TakeClient
  <2>2. Frame /\ buffer' = buffer /\ Apply(Head(client))
    BY <1>0, <1>2, <2>1 DEF TakeClient, Frame, sessionVars
  <2> QED
    BY <2>1, <2>2, ApplyInv
<1>3. ASSUME NEW n \in 1 .. Len(native), TakeRescan(n) PROVE Inv'
  <2>1. SubSeq(native, n + 1, Len(native)) \in Seq(Event)
    BY <1>0
  <2>2. /\ Begin("full", Paths) \in Job /\ Begin("full", Paths).step = "full"
        /\ Begin("full", Paths).at = None
    BY DEF Begin, IdleJob, Job
  <2>3. session = "up" /\ job' # IdleJob
    BY <1>3, <2>2, Idle DEF TakeRescan, Ready
  <2>4. TypeOK'
    BY <1>3, <2>1, <2>2 DEF TakeRescan, Inv, TypeOK, diskVars, indexVars, sessionVars
  <2> QED
    BY <1>3, <2>2, <2>3, <2>4
       DEF TakeRescan, Inv, PhaseInv, LoadInv, RecordMatchesIndex, OpenBufferWins,
           Open, indexVars, sessionVars
<1> QED
  BY <1>1, <1>2, <1>3 DEF TakeSomeRescan

LEMMA BufferInv ==
  ASSUME Inv, NEW p \in Paths
  PROVE  /\ CloseBuffer(p) => Inv'
         /\ \A t \in Texts : EditBuffer(p, t) => Inv'
<1> USE NoneFresh
<1>1. ASSUME CloseBuffer(p) PROVE Inv'
  <2>1. /\ buffer' = [buffer EXCEPT ![p] = None]
        /\ p \in Open
        /\ \/ ~Exists(p) /\ Remove({p})
           \/ Readable(p) /\ ReadFromDisk(p, {})
           \/ Keep
    BY <1>1 DEF CloseBuffer, Readable
  <2>2. Frame
    BY <1>1 DEF CloseBuffer, Frame, eventVars, Inv, TypeOK
  <2>3. Closing({p})
    BY <2>1 DEF Closing, Inv, TypeOK
  <2> QED
    BY <2>1, <2>2, <2>3, KeepInv, RemoveInv, ReadInv
<1>2. ASSUME NEW t \in Texts, EditBuffer(p, t) PROVE Inv'
  <2>1. /\ buffer' = [buffer EXCEPT ![p] = t] /\ iface' = [iface EXCEPT ![p] = t]
        /\ record' = [record EXCEPT ![p] = None]
        /\ job = IdleJob /\ session = "up"
        /\ UNCHANGED <<diskVars, eventVars, stat, session, starts, cache, job>>
    BY <1>2 DEF EditBuffer, Ready
  <2>2. /\ buffer' \in [Paths -> Content] /\ iface' \in [Paths -> Content]
        /\ record' \in [Paths -> Content]
        /\ \A q \in Paths : stat'[q] # None => iface'[q] # None
    BY <2>1 DEF Inv, TypeOK, Content
  <2>3. TypeOK'
    BY <2>1, <2>2 DEF Inv, TypeOK, diskVars, eventVars
  <2>4. RecordMatchesIndex' /\ OpenBufferWins'
    BY <2>1 DEF Inv, TypeOK, RecordMatchesIndex, OpenBufferWins, Open
  <2> QED
    BY <2>1, <2>3, <2>4, Idle DEF Inv, PhaseInv, LoadInv
<1> QED
  BY <1>1, <1>2

LEMMA EndedInv ==
  ASSUME Inv, Ended, cache' = cache \/ SaveCache(iface, stat) PROVE Inv'
<1>1. /\ Nothing \in [Paths -> Content] /\ Nothing \in [Paths -> Stamps \cup {None}]
      /\ <<>> \in Seq(Event) /\ <<>> \in Seq(Event \ {Rescan})
  BY DEF Nothing, Content
<1>2. /\ cache' \in {None} \cup [iface : [Paths -> Content],
                                 stat : [Paths -> Stamps \cup {None}]]
      /\ cache' # None =>
           \A p \in Paths : cache'.stat[p] # None => cache'.iface[p] # None
  <2>1. CASE SaveCache(iface, stat)
    <3>1. /\ iface \in [Paths -> Content] /\ stat \in [Paths -> Stamps \cup {None}]
          /\ \A p \in Paths : stat[p] # None => iface[p] # None
      BY DEF Inv, TypeOK
    <3> QED
      BY <2>1, <3>1, SaveType
  <2>2. CASE cache' = cache
    BY <2>2 DEF Inv, TypeOK, LoadInv
  <2> QED
    BY <2>1, <2>2
<1>3. TypeOK'
  BY <1>1, <1>2, Idle DEF Ended, Inv, TypeOK, diskVars, Nothing
<1> QED
  BY <1>2, <1>3, Idle
     DEF Ended, Inv, PhaseInv, LoadInv, RecordMatchesIndex, OpenBufferWins, Open, Nothing

LEMMA OtherInv ==
  Inv /\ (Restat \/ DisableWatcher \/ Tick \/ SaveMidSession \/ Shutdown \/ Crash)
    => Inv'
<1> SUFFICES ASSUME Inv, Restat \/ DisableWatcher \/ Tick \/ SaveMidSession
                         \/ Shutdown \/ Crash
             PROVE  Inv'
  OBVIOUS
<1>1. CASE Restat
  <2>1. /\ job.step = "restat" /\ job.at \in Paths /\ iface[job.at] # None
        /\ session = "up" /\ job' = IdleJob
        /\ UNCHANGED <<diskVars, eventVars, iface, record, sessionVars>>
    BY <1>1 DEF Restat, Inv, TypeOK, PhaseInv
  <2>2. /\ stat' \in [Paths -> Stamps \cup {None}]
        /\ \A p \in Paths : stat'[p] # None => iface'[p] # None
    BY <1>1, <2>1 DEF Restat, Exists, Inv, TypeOK, File
  <2>3. TypeOK'
    BY <2>1, <2>2, Idle DEF Inv, TypeOK, diskVars, eventVars, sessionVars
  <2> QED
    BY <2>1, <2>3, Idle
       DEF Inv, PhaseInv, LoadInv, RecordMatchesIndex, OpenBufferWins, Open, sessionVars
<1>2. CASE DisableWatcher
  <2>1. <<>> \in Seq(Event)
    OBVIOUS
  <2>2. TypeOK'
    BY <1>2, <2>1 DEF DisableWatcher, Inv, TypeOK, diskVars, indexVars, sessionVars
  <2> QED
    BY <1>2, <2>2
       DEF DisableWatcher, Inv, PhaseInv, LoadInv, RecordMatchesIndex,
           OpenBufferWins, Open, indexVars, sessionVars
<1>3. CASE Tick
  <2>1. /\ Begin("full", Paths) \in Job /\ Begin("full", Paths).step = "full"
        /\ Begin("full", Paths).at = None
    BY DEF Begin, IdleJob, Job
  <2>2. session = "up" /\ job' # IdleJob
    BY <1>3, <2>1, Idle DEF Tick, Ready
  <2>3. TypeOK'
    BY <1>3, <2>1 DEF Tick, Inv, TypeOK, diskVars, eventVars, indexVars, sessionVars
  <2> QED
    BY <1>3, <2>1, <2>2, <2>3
       DEF Tick, Inv, PhaseInv, LoadInv, RecordMatchesIndex, OpenBufferWins,
           Open, indexVars, sessionVars
<1>4. CASE SaveMidSession
  <2>1. /\ SaveCache(iface, stat) /\ job = IdleJob /\ session = "up"
        /\ UNCHANGED <<diskVars, eventVars, indexVars, session, starts, buffer, job>>
    BY <1>4 DEF SaveMidSession, Ready
  <2>2. /\ iface \in [Paths -> Content] /\ stat \in [Paths -> Stamps \cup {None}]
        /\ \A p \in Paths : stat[p] # None => iface[p] # None
    BY DEF Inv, TypeOK
  <2>3. /\ cache' \in {None} \cup [iface : [Paths -> Content],
                                   stat : [Paths -> Stamps \cup {None}]]
        /\ cache' # None =>
             \A p \in Paths : cache'.stat[p] # None => cache'.iface[p] # None
    BY <2>1, <2>2, SaveType
  <2>4. TypeOK'
    BY <2>1, <2>3 DEF Inv, TypeOK, diskVars, eventVars, indexVars
  <2> QED
    BY <2>1, <2>3, <2>4, Idle
       DEF Inv, PhaseInv, LoadInv, RecordMatchesIndex, OpenBufferWins, Open, indexVars
<1>5. CASE Shutdown
  BY <1>5, EndedInv DEF Shutdown
<1>6. CASE Crash
  BY <1>6, EndedInv DEF Crash
<1> QED
  BY <1>1, <1>2, <1>3, <1>4, <1>5, <1>6

LEMMA StepInv == Inv /\ [Next]_vars => Inv'
<1> SUFFICES ASSUME Inv, [Next]_vars PROVE Inv'
  OBVIOUS
<1>1. CASE UNCHANGED vars
  BY <1>1 DEF vars, diskVars, eventVars, indexVars, sessionVars, Inv, TypeOK,
              PhaseInv, LoadInv, RecordMatchesIndex, OpenBufferWins, Open
<1>2. CASE Next
  BY <1>2, EnvironmentInv, LoadStepInv, WalkStepInv, TakeInv, BufferInv, OtherInv
     DEF Next, Edit
<1> QED
  BY <1>1, <1>2

(* Inv holds of every reachable state, whatever fails.                     *)
THEOREM Invariance == Spec => []Inv
BY InitInv, StepInv, PTL DEF Spec

(* Every variable keeps its type, and no stat is kept without a script.    *)
THEOREM TypeCorrect == Spec => []TypeOK
<1>1. Inv => TypeOK
  BY DEF Inv
<1> QED
  BY <1>1, Invariance, PTL

(* A change that is skipped as a duplicate is one the index has.           *)
THEOREM RecordsAreExact == Spec => []RecordMatchesIndex
<1>1. Inv => RecordMatchesIndex
  BY DEF Inv
<1> QED
  BY <1>1, Invariance, PTL

(* No event, walk or rename overrides an open buffer.                      *)
THEOREM BuffersWin == Spec => []OpenBufferWins
<1>1. Inv => OpenBufferWins
  BY DEF Inv
<1> QED
  BY <1>1, Invariance, PTL

-----------------------------------------------------------------------------
(* Honesty, in a reliable environment.                                     *)
LEMMA HonestInit == Init => HonestInv
<1> SUFFICES ASSUME Init PROVE HonestInv
  OBVIOUS
<1> USE NoneFresh
<1>1. PICK text \in [Paths -> Texts \cup {None}] :
        disk = [p \in Paths |-> IF text[p] = None THEN None
                                ELSE [text |-> text[p], stamp |-> p]]
  BY DEF Init
<1>2. \A p \in Paths : Exists(p) => disk[p].stamp = p
  BY <1>1 DEF Exists
<1>3. StampInv
  BY <1>2, Idle DEF Init, StampInv, Given, Nothing
<1>4. InHandInv
  BY Idle DEF Init, InHandInv
<1>5. Honest(iface, stat, Paths \ (Open \cup Restatting))
  BY <1>2 DEF Init, Honest, Nothing
<1> QED
  BY <1>3, <1>4, <1>5 DEF Init, HonestInv

LEMMA NoneIsNoStamp ==
  ASSUME Inv, NEW q \in Paths, Exists(q)
  PROVE  /\ disk[q].stamp # None /\ disk[q].stamp \in Stamps
         /\ disk[q].text # None /\ disk[q].text \in Texts
<1>1. disk[q].text \in Texts /\ disk[q].stamp \in Stamps
  BY DEF Inv, TypeOK, File, Exists
<1>2. None \notin Stamps /\ None \notin Texts
  BY ConstantsAssumption DEF Stamps
<1> QED
  BY <1>1, <1>2

LEMMA NewStamp ==
  ASSUME Inv, clock' = clock + 1
  PROVE  clock' \notin Given /\ clock' \in Given' /\ Given \subseteq Given'
<1>1. clock \in Nat
  BY DEF Inv, TypeOK
<1>2. clock + 1 \notin 1 .. clock /\ clock + 1 \in 1 .. (clock + 1)
      /\ 1 .. clock \subseteq 1 .. (clock + 1) /\ clock + 1 \in Nat
  BY <1>1
<1>3. clock + 1 \notin Paths
  BY <1>2, ConstantsAssumption
<1> QED
  BY <1>2, <1>3 DEF Given

LEMMA NoneIsNoStampNext ==
  ASSUME Inv', NEW q \in Paths, Exists(q)'
  PROVE  disk'[q].stamp # None
<1>1. disk'[q].stamp \in Stamps
  BY DEF Inv, TypeOK, File, Exists
<1>2. None \notin Stamps
  BY ConstantsAssumption DEF Stamps
<1> QED
  BY <1>1, <1>2

(* The files there are after a step of another program: new ones, with a   *)
(* new stamp, and old ones, perhaps under a new name.                      *)
Moved ==
  /\ clock' = clock + 1
  /\ \A q \in Paths : Exists(q)' =>
       \/ disk'[q].stamp = clock'
       \/ \E r \in Paths : Exists(r) /\ disk'[q] = disk[r]

LEMMA HonestKept ==
  ASSUME Inv, Inv', Moved, NEW i, NEW s, NEW S \in SUBSET Paths,
         Honest(i, s, S), \A p \in S : s[p] # None => s[p] \in Given
  PROVE  \A p \in S, q \in Paths :
           Exists(q)' /\ s[p] = disk'[q].stamp => i[p] = disk'[q].text
<1> SUFFICES ASSUME NEW p \in S, NEW q \in Paths, Exists(q)', s[p] = disk'[q].stamp
             PROVE  i[p] = disk'[q].text
  OBVIOUS
<1>1. disk'[q].stamp # None
  BY NoneIsNoStampNext
<1>2. s[p] # clock'
  BY <1>1, NewStamp DEF Moved
<1>3. PICK r \in Paths : Exists(r) /\ disk'[q] = disk[r]
  BY <1>2 DEF Moved
<1> QED
  BY <1>3 DEF Honest

(* Other programs never make a stat dishonest: the shared part.            *)
LEMMA MovedHonest ==
  ASSUME Inv, Inv', HonestInv, Moved, InHandInv',
         UNCHANGED <<indexVars, sessionVars, job>>,
         \A p, q \in Paths : Exists(p)' /\ Exists(q)'
                              /\ disk'[p].stamp = disk'[q].stamp => p = q
  PROVE  HonestInv'
<1>1. UNCHANGED <<iface, stat, buffer, cache, job>>
  BY DEF indexVars, sessionVars
<1>2. \A p \in Paths : Exists(p)' => disk'[p].stamp \in Given'
  BY NewStamp DEF Moved, HonestInv, StampInv
<1>3. StampInv'
  BY <1>1, <1>2, NewStamp DEF Moved, HonestInv, StampInv
<1>4. Honest(iface, stat, Paths \ (Open \cup Restatting))'
  <2>1. Paths \ (Open \cup Restatting) = (Paths \ (Open \cup Restatting))'
    BY <1>1 DEF Open, Restatting
  <2>2. Paths \ (Open \cup Restatting) \in SUBSET Paths
    OBVIOUS
  <2>3. \A p \in Paths \ (Open \cup Restatting), q \in Paths :
          Exists(q)' /\ stat[p] = disk'[q].stamp => iface[p] = disk'[q].text
    BY <2>2, HonestKept DEF HonestInv, StampInv
  <2> QED
    BY <1>1, <2>1, <2>3 DEF Honest
<1>5. ASSUME cache' # None PROVE Honest(cache.iface, cache.stat, Paths)'
  <2>1. \A p \in Paths, q \in Paths :
          Exists(q)' /\ cache.stat[p] = disk'[q].stamp
            => cache.iface[p] = disk'[q].text
    BY <1>1, <1>5, HonestKept DEF HonestInv, StampInv
  <2> QED
    BY <1>1, <2>1 DEF Honest
<1> QED
  BY <1>3, <1>4, <1>5 DEF HonestInv

LEMMA EnvironmentHonest ==
  ASSUME Inv, Inv', HonestInv, Reliable, Environment PROVE HonestInv'
<1> USE NoneFresh
<1>0. /\ disk \in [Paths -> File \cup {None}]
      /\ \A p, q \in Paths :
           Exists(p) /\ Exists(q) /\ disk[p].stamp = disk[q].stamp => p = q
      /\ \A p \in Paths : Exists(p) => disk[p].stamp \in Given
      /\ job.stamp # None => job.stamp \in Given
      /\ InHandInv
  BY DEF Inv, TypeOK, HonestInv, StampInv
<1>1. ASSUME NEW p \in Paths, NEW t \in Texts, Write(p, t) PROVE HonestInv'
  <2>1. /\ disk' = [disk EXCEPT ![p] = [text |-> t, stamp |-> clock']]
        /\ clock' = clock + 1
        /\ ~ReadNotStamped(p)
        /\ UNCHANGED <<indexVars, sessionVars, job>>
    BY <1>1 DEF Write, Report, Reliable
  <2>2. /\ disk'[p].stamp = clock'
        /\ \A q \in Paths \ {p} : disk'[q] = disk[q]
    BY <1>0, <2>1
  <2>3. Moved
    BY <2>1, <2>2 DEF Moved, Exists
  <2>4. clock' \notin Given
    BY <2>1, NewStamp
  <2>5. \A q, r \in Paths : Exists(q)' /\ Exists(r)'
                             /\ disk'[q].stamp = disk'[r].stamp => q = r
    BY <1>0, <2>2, <2>4 DEF Exists
  <2>6. InHandInv'
    <3>1. UNCHANGED <<iface, job>>
      BY <2>1 DEF indexVars
    <3>2. job.step = "restat" => job.at # p
      BY <2>1 DEF ReadNotStamped
    <3>3. job'.step = "restat" /\ Exists(job.at)' => iface'[job'.at] = disk'[job'.at].text
      <4>1. job.step = "restat" => job.at \in Paths
        BY DEF Inv, TypeOK
      <4> QED
        BY <1>0, <2>2, <3>1, <3>2, <4>1 DEF InHandInv, Exists
    <3>4. job'.step \in Walks /\ job'.at # None =>
            \A q \in Paths : Exists(q)' /\ disk'[q].stamp = job'.stamp => q = job'.at
      <4>1. ASSUME NEW q \in Paths, Exists(q)', disk'[q].stamp = job.stamp
            PROVE  q # p
        <5>1. disk'[q].stamp # None
          BY <4>1, NoneIsNoStampNext
        <5> QED
          BY <1>0, <2>2, <2>4, <4>1, <5>1
      <4> QED
        BY <1>0, <2>2, <3>1, <4>1 DEF InHandInv, Exists
    <3>5. \A q \in Paths :
            /\ job'.step = "build" \/ (job'.step = "sweep" /\ q \in job'.todo)
            /\ iface'[q] # None /\ Exists(q)'
            => iface'[q] = disk'[q].text
      BY <1>0, <2>1, <2>2, <3>1 DEF InHandInv, Exists, ReadNotStamped
    <3> QED
      BY <3>3, <3>4, <3>5 DEF InHandInv
  <2> QED
    BY <2>1, <2>3, <2>5, <2>6, MovedHonest
<1>2. ASSUME NEW p \in Paths, Delete(p) PROVE HonestInv'
  <2>1. /\ disk' = [disk EXCEPT ![p] = None]
        /\ clock' = clock + 1
        /\ UNCHANGED <<indexVars, sessionVars, job>>
    BY <1>2 DEF Delete, Report
  <2>2. \A q \in Paths : Exists(q)' => Exists(q) /\ disk'[q] = disk[q]
    BY <1>0, <2>1 DEF Exists
  <2>3. Moved
    BY <2>1, <2>2 DEF Moved
  <2>4. UNCHANGED <<iface, job>>
    BY <2>1 DEF indexVars
  <2>5. InHandInv'
    <3>1. job.step = "restat" => job.at \in Paths
      BY DEF Inv, TypeOK
    <3> QED
      BY <1>0, <2>2, <2>4, <3>1 DEF InHandInv
  <2> QED
    BY <1>0, <2>1, <2>2, <2>3, <2>5, MovedHonest
<1>3. ASSUME NEW p \in Paths, Lock(p) PROVE HonestInv'
  <2>1. /\ disk' = disk /\ clock' = clock + 1
        /\ UNCHANGED <<indexVars, sessionVars, job>>
    BY <1>3 DEF Lock, Report
  <2>2. Moved
    BY <2>1 DEF Moved, Exists
  <2>3. InHandInv'
    BY <1>0, <2>1 DEF InHandInv, Exists, indexVars
  <2> QED
    BY <1>0, <2>1, <2>2, <2>3, MovedHonest DEF Exists
<1>4. ASSUME NEW p \in Paths, NEW q \in Paths, Rename(p, q) PROVE HonestInv'
  <2>1. /\ p # q /\ Exists(p)
        /\ disk' = [disk EXCEPT ![q] = disk[p], ![p] = None]
        /\ clock' = clock + 1
        /\ ~ReadNotStamped(q) /\ ~StampedNotRead(p)
        /\ UNCHANGED <<indexVars, sessionVars, job>>
    BY <1>4 DEF Rename, Report, Reliable
  <2>2. /\ disk'[q] = disk[p] /\ ~Exists(p)'
        /\ \A r \in Paths \ {p, q} : disk'[r] = disk[r]
    BY <1>0, <2>1 DEF Exists
  <2>3. Moved
    BY <2>1, <2>2 DEF Moved, Exists
  <2>4. \A r, s \in Paths : Exists(r)' /\ Exists(s)'
                             /\ disk'[r].stamp = disk'[s].stamp => r = s
    BY <1>0, <2>1, <2>2 DEF Exists
  <2>5. InHandInv'
    <3>1. UNCHANGED <<iface, job>>
      BY <2>1 DEF indexVars
    <3>2. job'.step = "restat" /\ Exists(job.at)' => iface'[job'.at] = disk'[job'.at].text
      <4>1. job.step = "restat" => job.at \in Paths \ {q}
        BY <2>1 DEF Inv, TypeOK, ReadNotStamped
      <4> QED
        BY <1>0, <2>2, <3>1, <4>1 DEF InHandInv, Exists
    <3>3. job'.step \in Walks /\ job'.at # None =>
            \A r \in Paths : Exists(r)' /\ disk'[r].stamp = job'.stamp => r = job'.at
      BY <1>0, <2>1, <2>2, <3>1 DEF InHandInv, Exists, StampedNotRead
    <3>4. \A r \in Paths :
            /\ job'.step = "build" \/ (job'.step = "sweep" /\ r \in job'.todo)
            /\ iface'[r] # None /\ Exists(r)'
            => iface'[r] = disk'[r].text
      BY <1>0, <2>1, <2>2, <3>1 DEF InHandInv, Exists, ReadNotStamped
    <3> QED
      BY <3>1, <3>2, <3>3, <3>4 DEF InHandInv
  <2> QED
    BY <2>1, <2>3, <2>4, <2>5, MovedHonest
<1>5. CASE Overflow
  BY <1>5 DEF Overflow, HonestInv, StampInv, InHandInv, Honest, Given, Restatting,
              Open, Exists, diskVars, indexVars, sessionVars
<1> QED
  BY <1>1, <1>2, <1>3, <1>4, <1>5 DEF Environment

-----------------------------------------------------------------------------
(* A step of the worker: the disk stays.                                   *)
LEMMA WorkerHonest ==
  ASSUME HonestInv, UNCHANGED diskVars, InHandInv',
         \A p \in Paths : stat'[p] # None => stat'[p] \in Given,
         job'.stamp # None => job'.stamp \in Given,
         \A p \in Paths \ (Open \cup Restatting)', q \in Paths :
           Exists(q) /\ stat'[p] = disk[q].stamp => iface'[p] = disk[q].text,
         cache' = cache
           \/ (/\ \A p \in Paths : cache'.stat[p] # None => cache'.stat[p] \in Given
               /\ Honest(cache'.iface, cache'.stat, Paths))
  PROVE  HonestInv'
<1>1. UNCHANGED <<disk, clock, Given>>
  BY DEF diskVars, Given
<1>2. StampInv'
  BY <1>1 DEF HonestInv, StampInv, Exists
<1>3. Honest(iface, stat, Paths \ (Open \cup Restatting))'
  BY <1>1 DEF Honest, Exists
<1>4. ASSUME cache' # None PROVE Honest(cache.iface, cache.stat, Paths)'
  BY <1>1, <1>4 DEF HonestInv, Honest, Exists
<1> QED
  BY <1>2, <1>3, <1>4 DEF HonestInv

LEMMA SaveHonest ==
  ASSUME Inv, NEW i, NEW s, SaveCache(i, s),
         \A p \in Paths : s[p] # None => s[p] \in Given,
         Honest(i, s, Paths \ Open)
  PROVE  cache' = cache
           \/ (/\ \A p \in Paths : cache'.stat[p] # None => cache'.stat[p] \in Given
               /\ Honest(cache'.iface, cache'.stat, Paths))
<1> SUFFICES ASSUME cache' = [iface |-> i, stat |-> Forget(s, Open)]
             PROVE  /\ \A p \in Paths : cache'.stat[p] # None => cache'.stat[p] \in Given
                    /\ Honest(cache'.iface, cache'.stat, Paths)
  BY DEF SaveCache
<1>1. \A p \in Paths : cache'.stat[p] = IF p \in Open THEN None ELSE s[p]
  BY DEF Forget
<1>2. \A q \in Paths : Exists(q) => disk[q].stamp # None
  BY NoneIsNoStamp
<1> QED
  BY <1>1, <1>2 DEF Honest

LEMMA LoadHonest ==
  ASSUME Inv, HonestInv, Load PROVE HonestInv'
<1> USE NoneFresh
<1>0. /\ \A q \in Paths : Exists(q) => disk[q].stamp # None
      /\ \A p \in Paths : stat[p] # None => stat[p] \in Given
      /\ Honest(iface, stat, Paths \ (Open \cup Restatting))
      /\ InHandInv /\ StampInv
  BY NoneIsNoStamp DEF HonestInv, StampInv
<1>1. ASSUME NEW watch \in {"armed", "disabled"}, StartCold(watch) PROVE HonestInv'
  <2>1. /\ iface = Nothing /\ stat = Nothing /\ session = "down"
        /\ UNCHANGED <<diskVars, iface, stat, cache>>
        /\ job' = Begin("build", {p \in Paths : Exists(p)})
    BY <1>1 DEF StartCold, Start, Inv, PhaseInv, LoadInv
  <2>2. job'.step = "build" /\ job'.stamp = None
    BY <2>1 DEF Begin, IdleJob
  <2>3. InHandInv'
    BY <2>1, <2>2 DEF InHandInv, Nothing
  <2>4. \A p \in Paths : stat'[p] = None
    BY <2>1 DEF Nothing
  <2> QED
    BY <1>0, <2>1, <2>2, <2>3, <2>4, WorkerHonest
<1>2. ASSUME NEW watch \in {"armed", "disabled"}, StartWarm(watch) PROVE HonestInv'
  <2>1. /\ cache # None /\ iface' = cache.iface /\ stat' = cache.stat
        /\ UNCHANGED <<diskVars, cache>>
        /\ job' = Begin("warm", Paths)
    BY <1>2 DEF StartWarm, Start
  <2>2. job'.step = "warm" /\ job'.stamp = None /\ job'.at = None
    BY <2>1 DEF Begin, IdleJob
  <2>3. InHandInv'
    BY <2>2 DEF InHandInv
  <2>4. \A p \in Paths : stat'[p] # None => stat'[p] \in Given
    BY <2>1 DEF HonestInv, StampInv
  <2>5. Honest(iface', stat', Paths)
    BY <2>1 DEF HonestInv
  <2> QED
    BY <2>1, <2>2, <2>3, <2>4, <2>5, WorkerHonest DEF Honest
<1>3. CASE BuildEnd
  <2>1. /\ job.step = "build" /\ UNCHANGED <<diskVars, iface, stat, buffer, cache>>
        /\ job' = Begin("sweep", Paths)
    BY <1>3 DEF BuildEnd, indexVars, sessionVars
  <2>2. job'.step = "sweep" /\ job'.stamp = None
    BY <2>1 DEF Begin, IdleJob
  <2>3. InHandInv'
    BY <1>0, <2>1, <2>2 DEF InHandInv, Exists, diskVars
  <2>4. \A p \in Paths : stat'[p] = None
    BY <2>1 DEF Inv, LoadInv, Nothing
  <2> QED
    BY <1>0, <2>1, <2>2, <2>3, <2>4, WorkerHonest
<1>4. CASE SweepEnd
  <2>1. /\ job.step = "sweep" /\ UNCHANGED <<diskVars, iface, stat, buffer, cache>>
        /\ job' = Settle
    BY <1>4 DEF SweepEnd, indexVars, sessionVars
  <2>2. Settle.step \in Walks /\ Settle.stamp = None /\ Settle.at = None
    BY DEF Settle, Begin, IdleJob
  <2>3. InHandInv'
    BY <2>1, <2>2 DEF InHandInv
  <2>4. Restatting = {} /\ Restatting' = {} /\ Open' = Open
    BY <2>1, <2>2 DEF Restatting, Open
  <2> QED
    BY <1>0, <2>1, <2>2, <2>3, <2>4, WorkerHonest DEF Honest
<1>5. ASSUME NEW p \in Paths, BuildRead(p) PROVE HonestInv'
  <2>1. /\ job.step = "build" /\ p \in job.todo
        /\ iface' = [iface EXCEPT ![p] = IF Readable(p) THEN disk[p].text ELSE None]
        /\ job' = [job EXCEPT !.todo = @ \ {p}]
        /\ UNCHANGED <<diskVars, stat, buffer, cache>>
    BY <1>5 DEF BuildRead, sessionVars
  <2>2. job'.step = "build" /\ job'.stamp = job.stamp
    BY <2>1 DEF Inv, TypeOK, Job
  <2>3. \A q \in Paths : iface'[q] # None /\ Exists(q) => iface'[q] = disk[q].text
    BY <1>0, <2>1 DEF InHandInv, Inv, TypeOK
  <2>4. InHandInv'
    BY <2>1, <2>2, <2>3 DEF InHandInv, Exists, diskVars
  <2>5. \A q \in Paths : stat'[q] = None
    BY <2>1 DEF Inv, LoadInv, Nothing
  <2> QED
    BY <1>0, <2>1, <2>2, <2>4, <2>5, WorkerHonest DEF StampInv
<1>6. ASSUME NEW p \in Paths, SweepStat(p) PROVE HonestInv'
  <2>1. /\ job.step = "sweep" /\ p \in job.todo
        /\ stat' = [stat EXCEPT ![p] = IF iface[p] # None /\ Exists(p)
                                       THEN disk[p].stamp ELSE None]
        /\ job' = [job EXCEPT !.todo = @ \ {p}]
        /\ UNCHANGED <<diskVars, iface, buffer, cache>>
    BY <1>6 DEF SweepStat, sessionVars
  <2>2. /\ job'.step = "sweep" /\ job'.stamp = job.stamp
        /\ job'.todo = job.todo \ {p}
    BY <2>1 DEF Inv, TypeOK, Job
  <2>3. InHandInv'
    BY <1>0, <2>1, <2>2 DEF InHandInv, Exists, diskVars
  <2>4. \A q \in Paths : stat'[q] # None => stat'[q] \in Given
    BY <1>0, <2>1 DEF Inv, TypeOK, StampInv
  <2>5. Restatting = {} /\ Restatting' = {} /\ Open' = Open
    BY <2>1, <2>2 DEF Restatting, Open
  <2>6. ASSUME NEW q \in Paths \ Open, NEW r \in Paths, Exists(r),
               stat'[q] = disk[r].stamp
        PROVE  iface[q] = disk[r].text
    <3>1. CASE q = p
      <4>1. iface[p] # None /\ Exists(p) /\ disk[p].stamp = disk[r].stamp
        BY <1>0, <2>1, <2>6, <3>1 DEF Inv, TypeOK
      <4>2. p = r
        BY <1>0, <2>6, <4>1 DEF StampInv
      <4> QED
        BY <1>0, <2>1, <3>1, <4>1, <4>2 DEF InHandInv
    <3>2. CASE q # p
      BY <1>0, <2>1, <2>5, <2>6, <3>2 DEF Honest, Inv, TypeOK
    <3> QED
      BY <3>1, <3>2
  <2> QED
    BY <1>0, <2>1, <2>2, <2>3, <2>4, <2>5, <2>6, WorkerHonest DEF StampInv
<1> QED
  BY <1>1, <1>2, <1>3, <1>4, <1>5, <1>6 DEF Load

LEMMA WalkHonest ==
  ASSUME Inv, HonestInv, Walk PROVE HonestInv'
<1> USE NoneFresh
<1>0. /\ \A q \in Paths : Exists(q) => disk[q].stamp # None
      /\ \A p \in Paths : stat[p] # None => stat[p] \in Given
      /\ Honest(iface, stat, Paths \ (Open \cup Restatting))
      /\ InHandInv /\ StampInv
  BY NoneIsNoStamp DEF HonestInv, StampInv
<1>1. ASSUME NEW p \in Paths, WalkStat(p) PROVE HonestInv'
  <2>1. /\ job.step \in Walks /\ job.at = None
        /\ UNCHANGED <<diskVars, iface, stat, buffer, cache>>
        /\ job'.step = job.step
    BY <1>1 DEF WalkStat, indexVars, sessionVars, Inv, TypeOK, Job
  <2>2. \/ job'.at = None /\ (job'.stamp = None \/ job'.stamp = job.stamp)
        \/ Exists(p) /\ job'.at = p /\ job'.stamp = disk[p].stamp
    BY <1>1 DEF WalkStat, Inv, TypeOK, Job
  <2>3. InHandInv'
    BY <1>0, <2>1, <2>2 DEF InHandInv, StampInv, Exists, diskVars
  <2>4. job'.stamp # None => job'.stamp \in Given
    BY <1>0, <2>2 DEF StampInv
  <2>5. Restatting = {} /\ Restatting' = {} /\ Open' = Open
    BY <2>1 DEF Restatting, Open
  <2> QED
    BY <1>0, <2>1, <2>3, <2>4, <2>5, WorkerHonest DEF Honest
<1>2. CASE WalkRead
  <2>1. /\ job.step \in Walks /\ job.at \in Paths \ Open
        /\ UNCHANGED <<diskVars, buffer, cache>>
        /\ job'.step = job.step /\ job'.at = None /\ job'.stamp = None
    BY <1>2 DEF WalkRead, sessionVars, Inv, TypeOK, PhaseInv, Job
  <2>2. InHandInv'
    BY <2>1 DEF InHandInv
  <2>3. Restatting = {} /\ Restatting' = {} /\ Open' = Open
    BY <2>1 DEF Restatting, Open
  <2>4. CASE Readable(job.at)
    <3>1. /\ iface' = [iface EXCEPT ![job.at] = disk[job.at].text]
          /\ stat' = [stat EXCEPT ![job.at] = job.stamp]
      BY <1>2, <2>4 DEF WalkRead
    <3>2. \A p \in Paths : stat'[p] # None => stat'[p] \in Given
      BY <1>0, <2>1, <3>1 DEF Inv, TypeOK, StampInv
    <3>3. ASSUME NEW p \in Paths \ Open, NEW q \in Paths, Exists(q),
                 stat'[p] = disk[q].stamp
          PROVE  iface'[p] = disk[q].text
      <4>1. CASE p = job.at
        <5>1. disk[q].stamp = job.stamp
          BY <2>1, <3>1, <3>3, <4>1 DEF Inv, TypeOK
        <5>2. q = job.at
          BY <1>0, <2>1, <3>3, <5>1 DEF InHandInv
        <5> QED
          BY <2>1, <3>1, <4>1, <5>2 DEF Inv, TypeOK
      <4>2. CASE p # job.at
        BY <1>0, <2>3, <3>1, <3>3, <4>2 DEF Honest, Inv, TypeOK
      <4> QED
        BY <4>1, <4>2
    <3> QED
      BY <2>1, <2>2, <2>3, <3>2, <3>3, WorkerHonest
  <2>5. CASE ~Readable(job.at)
    <3>1. UNCHANGED <<iface, stat>>
      BY <1>2, <2>5 DEF WalkRead, indexVars
    <3> QED
      BY <1>0, <2>1, <2>2, <2>3, <3>1, WorkerHonest DEF Honest
  <2> QED
    BY <2>4, <2>5
<1>3. CASE WalkEnd
  <2> DEFINE gone == {p \in Paths : iface[p] # None} \ (job.seen \cup Open)
  <2>1. /\ iface' = Forget(iface, gone) /\ stat' = Forget(stat, gone)
        /\ UNCHANGED <<diskVars, buffer>>
        /\ job.step \in Walks
    BY <1>3 DEF WalkEnd
  <2>2. /\ job'.step \in Walks \cup {"idle"} /\ job'.at = None /\ job'.stamp = None
    <3>1. Settle.step \in Walks /\ Settle.stamp = None /\ Settle.at = None
      BY DEF Settle, Begin, IdleJob
    <3> QED
      BY <1>3, <3>1, Idle DEF WalkEnd
  <2>3. InHandInv'
    BY <2>2 DEF InHandInv
  <2>4. Restatting = {} /\ Restatting' = {} /\ Open' = Open
    BY <2>1, <2>2 DEF Restatting, Open
  <2>5. \A p \in Paths : /\ stat'[p] # None => stat'[p] = stat[p]
                         /\ stat'[p] # None => iface'[p] = iface[p]
    BY <2>1 DEF Forget
  <2>6. \A p \in Paths : stat'[p] # None => stat'[p] \in Given
    BY <1>0, <2>5
  <2>7. Honest(iface', stat', Paths \ Open)
    BY <1>0, <2>4, <2>5 DEF Honest
  <2>8. SaveCache(iface', stat') \/ cache' = cache
    BY <1>3 DEF WalkEnd
  <2>9. CASE SaveCache(iface', stat')
    BY <2>1, <2>2, <2>3, <2>4, <2>6, <2>7, <2>9, SaveHonest, WorkerHonest DEF Honest
  <2>10. CASE cache' = cache
    BY <2>1, <2>2, <2>3, <2>4, <2>6, <2>7, <2>10, WorkerHonest DEF Honest
  <2> QED
    BY <2>8, <2>9, <2>10
<1> QED
  BY <1>1, <1>2, <1>3 DEF Walk

LEMMA RemoveHonest ==
  ASSUME Inv, HonestInv, Frame, NEW S \in SUBSET Paths, Remove(S), Closing(S)
  PROVE  HonestInv'
<1>1. /\ \A q \in Paths : Exists(q) => disk[q].stamp # None
      /\ UNCHANGED <<diskVars, cache>> /\ job = IdleJob /\ job' = IdleJob
  BY NoneIsNoStamp DEF Frame, Ready, Remove
<1>2. InHandInv'
  BY <1>1, Idle DEF InHandInv
<1>3. \A p \in Paths :
        stat'[p] # None => p \notin S /\ stat'[p] = stat[p] /\ iface'[p] = iface[p]
  BY DEF Remove, Forget
<1>4. \A p \in Paths : stat'[p] # None => stat'[p] \in Given
  BY <1>3 DEF HonestInv, StampInv
<1>5. /\ Restatting = {} /\ Restatting' = {}
      /\ \A p \in Paths \ S : p \in Open' <=> p \in Open
  BY <1>1, Idle DEF Restatting, Closing, Open
<1>6. \A p \in Paths \ (Open \cup Restatting)', q \in Paths :
        Exists(q) /\ stat'[p] = disk[q].stamp => iface'[p] = disk[q].text
  BY <1>1, <1>3, <1>5 DEF HonestInv, Honest
<1> QED
  BY <1>1, <1>2, <1>4, <1>6, Idle, WorkerHonest

(* The file in hand is left out until its stat is taken.                   *)
LEMMA ReadHonest ==
  ASSUME Inv, HonestInv, Frame, NEW p \in Paths, NEW S \in SUBSET (Paths \ Open),
         Readable(p), ReadFromDisk(p, S),
         Closing({p}) \/ (p \notin Open /\ buffer' = buffer)
  PROVE  HonestInv'
<1>1. /\ \A q \in Paths : Exists(q) => disk[q].stamp # None
      /\ UNCHANGED <<diskVars, cache>> /\ job = IdleJob
  BY NoneIsNoStamp DEF Frame, Ready
<1>2. job'.step = "restat" /\ job'.at = p /\ job'.stamp = None
  BY DEF ReadFromDisk, IdleJob
<1>3. iface'[p] = disk[p].text
  BY DEF ReadFromDisk, Forget, Inv, TypeOK
<1>4. InHandInv'
  BY <1>1, <1>2, <1>3 DEF InHandInv, diskVars
<1>5. \A q \in Paths :
        /\ stat'[q] # None => stat'[q] = stat[q]
        /\ stat'[q] # None /\ q # p => iface'[q] = iface[q]
  BY DEF ReadFromDisk, Forget, Inv, TypeOK
<1>6. \A q \in Paths : stat'[q] # None => stat'[q] \in Given
  BY <1>5 DEF HonestInv, StampInv
<1>7. /\ Restatting = {} /\ Restatting' = {p}
      /\ \A q \in Paths \ {p} : q \in Open' <=> q \in Open
  BY <1>1, <1>2, Idle DEF Restatting, Closing, Open
<1>8. \A q \in Paths \ (Open \cup Restatting)', r \in Paths :
        Exists(r) /\ stat'[q] = disk[r].stamp => iface'[q] = disk[r].text
  BY <1>1, <1>5, <1>7 DEF HonestInv, Honest
<1> QED
  BY <1>1, <1>2, <1>4, <1>6, <1>8, WorkerHonest

LEMMA OnlyRestatHonest ==
  ASSUME Inv, HonestInv, Frame, NEW p \in Paths, Readable(p), Duplicate(p),
         OnlyRestat(p), buffer' = buffer
  PROVE  HonestInv'
<1>1. UNCHANGED <<diskVars, iface, stat, buffer, cache>> /\ job = IdleJob
  BY DEF Frame, Ready, OnlyRestat, indexVars
<1>2. job'.step = "restat" /\ job'.at = p /\ job'.stamp = None
  BY DEF OnlyRestat, IdleJob
<1>3. iface[p] = disk[p].text
  BY NoneIsNoStamp DEF Readable, Duplicate, Inv, RecordMatchesIndex
<1>4. InHandInv'
  BY <1>1, <1>2, <1>3 DEF InHandInv, diskVars
<1>5. Restatting = {} /\ Open' = Open
  BY <1>1, Idle DEF Restatting, Open
<1> QED
  BY <1>1, <1>2, <1>4, <1>5, WorkerHonest DEF HonestInv, StampInv, Honest

(* Steps that leave the index and the disk alone, and pick up no path.     *)
LEMMA StillHonest ==
  ASSUME HonestInv, UNCHANGED <<diskVars, iface, stat, buffer, cache>>,
         job.step # "restat", job'.at = None, job'.stamp = None,
         job'.step \in Walks \cup {"idle"}
  PROVE  HonestInv'
<1>1. InHandInv'
  BY DEF InHandInv
<1>2. Restatting = {} /\ Restatting' = {} /\ Open' = Open
  BY DEF Restatting, Open
<1> QED
  BY <1>1, <1>2, WorkerHonest DEF HonestInv, StampInv, Honest

LEMMA ApplyHonest ==
  ASSUME Inv, HonestInv, Frame, NEW e \in Event \ {Rescan}, Apply(e), buffer' = buffer
  PROVE  HonestInv'
<1>1. CASE Keep
  <2>1. UNCHANGED <<diskVars, iface, stat, buffer, cache, job>> /\ job = IdleJob
    BY <1>1 DEF Keep, Frame, Ready, indexVars
  <2> QED
    BY <2>1, Idle, StillHonest
<1>2. ASSUME NEW S \in SUBSET (Paths \ Open), Remove(S) PROVE HonestInv'
  BY <1>2, RemoveHonest, ClosingKeeps
<1>3. ASSUME NEW p \in Paths \ Open, NEW S \in SUBSET (Paths \ Open),
             Readable(p), ReadFromDisk(p, S)
      PROVE  HonestInv'
  BY <1>3, ReadHonest
<1>4. ASSUME NEW p \in Paths \ Open, Readable(p), Duplicate(p), OnlyRestat(p)
      PROVE  HonestInv'
  BY <1>4, OnlyRestatHonest
<1> QED
  BY <1>1, <1>2, <1>3, <1>4, ApplyOutcomes

LEMMA TakeHonest ==
  ASSUME Inv, HonestInv, TakeNative \/ TakeClient \/ TakeSomeRescan PROVE HonestInv'
<1>0. native \in Seq(Event) /\ client \in Seq(Event \ {Rescan}) \cup {None}
      /\ watcher \in {"armed", "disabled"}
  BY DEF Inv, TypeOK
<1>1. CASE TakeNative
  <2>1. Head(native) \in Event \ {Rescan} /\ Tail(native) \in Seq(Event)
    BY <1>0, <1>1, HeadTailProperties DEF TakeNative
  <2>2. Frame /\ buffer' = buffer /\ Apply(Head(native))
    BY <1>0, <1>1, <2>1 DEF TakeNative, Frame, sessionVars
  <2> QED
    BY <2>1, <2>2, ApplyHonest
<1>2. CASE TakeClient
  <2>1. Head(client) \in Event \ {Rescan} /\ Tail(client) \in Seq(Event \ {Rescan})
    BY <1>0, <1>2, HeadTailProperties DEF TakeClient
  <2>2. Frame /\ buffer' = buffer /\ Apply(Head(client))
    BY <1>0, <1>2, <2>1 DEF TakeClient, Frame, sessionVars
  <2> QED
    BY <2>1, <2>2, ApplyHonest
<1>3. ASSUME NEW n \in 1 .. Len(native), TakeRescan(n) PROVE HonestInv'
  <2>1. /\ Begin("full", Paths).stamp = None /\ Begin("full", Paths).step = "full"
        /\ Begin("full", Paths).at = None
    BY DEF Begin, IdleJob
  <2> QED
    BY <1>3, <2>1, Idle, StillHonest DEF TakeRescan, Ready, indexVars, sessionVars
<1> QED
  BY <1>1, <1>2, <1>3 DEF TakeSomeRescan

LEMMA BufferHonest ==
  ASSUME Inv, HonestInv, Reliable, NEW p \in Paths
  PROVE  /\ CloseBuffer(p) => HonestInv'
         /\ \A t \in Texts : EditBuffer(p, t) => HonestInv'
<1> USE NoneFresh
<1>1. ASSUME CloseBuffer(p) PROVE HonestInv'
  <2>1. /\ buffer' = [buffer EXCEPT ![p] = None]
        /\ p \in Open
        /\ \/ ~Exists(p) /\ Remove({p})
           \/ Readable(p) /\ ReadFromDisk(p, {})
    BY <1>1 DEF CloseBuffer, Readable, Reliable
  <2>2. Frame
    BY <1>1 DEF CloseBuffer, Frame, eventVars, Inv, TypeOK
  <2>3. Closing({p})
    BY <2>1 DEF Closing, Inv, TypeOK
  <2> QED
    BY <2>1, <2>2, <2>3, RemoveHonest, ReadHonest
<1>2. ASSUME NEW t \in Texts, EditBuffer(p, t) PROVE HonestInv'
  <2>1. /\ buffer' = [buffer EXCEPT ![p] = t] /\ iface' = [iface EXCEPT ![p] = t]
        /\ job = IdleJob
        /\ UNCHANGED <<diskVars, stat, cache, job>>
    BY <1>2 DEF EditBuffer, Ready
  <2>2. InHandInv'
    BY <2>1, Idle DEF InHandInv
  <2>3. /\ Restatting = {} /\ Restatting' = {}
        /\ p \in Open' /\ \A q \in Paths \ {p} : q \in Open' <=> q \in Open
    BY <2>1, Idle DEF Restatting, Open, Inv, TypeOK
  <2>4. \A q \in Paths \ (Open \cup Restatting)', r \in Paths :
          Exists(r) /\ stat'[q] = disk[r].stamp => iface'[q] = disk[r].text
    BY <2>1, <2>3 DEF HonestInv, Honest, Inv, TypeOK
  <2> QED
    BY <2>1, <2>2, <2>4, WorkerHonest DEF HonestInv, StampInv
<1> QED
  BY <1>1, <1>2

LEMMA EndedHonest ==
  ASSUME Inv, HonestInv, Ended,
         cache' = cache \/ (job = IdleJob /\ SaveCache(iface, stat))
  PROVE  HonestInv'
<1>1. /\ UNCHANGED diskVars /\ job' = IdleJob
      /\ \A p \in Paths : stat'[p] = None
  BY DEF Ended, Nothing
<1>2. InHandInv'
  BY <1>1, Idle DEF InHandInv
<1>3. \A q \in Paths : Exists(q) => disk[q].stamp # None
  BY NoneIsNoStamp
<1>4. CASE cache' = cache
  BY <1>1, <1>2, <1>3, <1>4, Idle, WorkerHonest
<1>5. CASE job = IdleJob /\ SaveCache(iface, stat)
  <2>1. Honest(iface, stat, Paths \ Open)
    BY <1>5, Idle DEF HonestInv, Honest, Restatting
  <2>2. \A p \in Paths : stat[p] # None => stat[p] \in Given
    BY DEF HonestInv, StampInv
  <2> QED
    BY <1>1, <1>2, <1>3, <1>5, <2>1, <2>2, Idle, SaveHonest, WorkerHonest
<1> QED
  BY <1>4, <1>5

LEMMA OtherHonest ==
  ASSUME Inv, HonestInv,
         Restat \/ DisableWatcher \/ Tick \/ SaveMidSession \/ Shutdown \/ Crash
  PROVE  HonestInv'
<1>1. CASE Restat
  <2>1. /\ job.step = "restat" /\ job.at \in Paths /\ job' = IdleJob
        /\ stat' = [stat EXCEPT ![job.at] = IF Exists(job.at)
                                            THEN disk[job.at].stamp ELSE None]
        /\ UNCHANGED <<diskVars, iface, buffer, cache>>
    BY <1>1 DEF Restat, sessionVars, Inv, TypeOK
  <2>2. InHandInv'
    BY <2>1, Idle DEF InHandInv
  <2>3. \A p \in Paths : stat'[p] # None => stat'[p] \in Given
    BY <2>1 DEF HonestInv, StampInv, Inv, TypeOK
  <2>4. Restatting = {job.at} /\ Open' = Open
    BY <2>1 DEF Restatting, Open
  <2>5. ASSUME NEW p \in Paths \ Open, NEW q \in Paths, Exists(q),
               stat'[p] = disk[q].stamp
        PROVE  iface[p] = disk[q].text
    <3>1. CASE p = job.at
      <4>1. Exists(p) /\ disk[p].stamp = disk[q].stamp
        BY <2>1, <2>5, <3>1, NoneIsNoStamp DEF Inv, TypeOK
      <4>2. p = q
        BY <2>5, <4>1 DEF HonestInv, StampInv
      <4> QED
        BY <2>1, <3>1, <4>1, <4>2 DEF HonestInv, InHandInv
    <3>2. CASE p # job.at
      BY <2>1, <2>4, <2>5, <3>2 DEF HonestInv, Honest, Inv, TypeOK
    <3> QED
      BY <3>1, <3>2
  <2> QED
    BY <2>1, <2>2, <2>3, <2>4, <2>5, Idle, WorkerHonest
<1>2. CASE DisableWatcher
  BY <1>2, Idle, StillHonest DEF DisableWatcher, Ready, indexVars, sessionVars
<1>3. CASE Tick
  <2>1. /\ Begin("full", Paths).stamp = None /\ Begin("full", Paths).step = "full"
        /\ Begin("full", Paths).at = None
    BY DEF Begin, IdleJob
  <2> QED
    BY <1>3, <2>1, Idle, StillHonest DEF Tick, Ready, indexVars, sessionVars
<1>4. CASE SaveMidSession
  <2>1. /\ SaveCache(iface, stat) /\ job = IdleJob
        /\ UNCHANGED <<diskVars, iface, stat, buffer, job>>
    BY <1>4 DEF SaveMidSession, Ready, indexVars
  <2>2. InHandInv'
    BY <2>1, Idle DEF InHandInv
  <2>3. Restatting = {} /\ Restatting' = {} /\ Open' = Open
    BY <2>1, Idle DEF Restatting, Open
  <2>4. /\ Honest(iface, stat, Paths \ Open)
        /\ \A p \in Paths : stat[p] # None => stat[p] \in Given
    BY <2>3 DEF HonestInv, StampInv, Honest
  <2> QED
    BY <2>1, <2>2, <2>3, <2>4, Idle, SaveHonest, WorkerHonest DEF Honest
<1>5. CASE Shutdown
  BY <1>5, EndedHonest DEF Shutdown, Ready
<1>6. CASE Crash
  BY <1>6, EndedHonest DEF Crash
<1> QED
  BY <1>1, <1>2, <1>3, <1>4, <1>5, <1>6

LEMMA StepHonest ==
  ASSUME Reliable PROVE Inv /\ Inv' /\ HonestInv /\ [Next]_vars => HonestInv'
<1> SUFFICES ASSUME Inv, Inv', HonestInv, [Next]_vars PROVE HonestInv'
  OBVIOUS
<1>1. CASE UNCHANGED vars
  BY <1>1 DEF vars, diskVars, eventVars, indexVars, sessionVars, HonestInv, StampInv,
              InHandInv, Honest, Given, Restatting, Open, Exists
<1>2. CASE Next
  BY <1>2, EnvironmentHonest, LoadHonest, WalkHonest, TakeHonest, BufferHonest,
     OtherHonest DEF Next, Edit
<1> QED
  BY <1>1, <1>2

(* In a reliable environment HonestInv holds of every reachable state.     *)
LEMMA Honesty == ASSUME Reliable PROVE Spec => []HonestInv
BY HonestInit, StepHonest, Invariance, PTL DEF Spec

(* In a reliable environment a stat that a walk would trust stands for the *)
(* content the index holds.                                                *)
THEOREM StatsAreHonest == ASSUME Reliable PROVE Spec => []StatHonest
<1>1. HonestInv => StatHonest
  <2> SUFFICES ASSUME HonestInv, NEW p \in Paths \ Open, Exists(p),
                      stat[p] = disk[p].stamp
               PROVE  iface[p] = disk[p].text
    BY DEF StatHonest
  <2> QED
    BY DEF HonestInv, InHandInv, Honest, Restatting
<1> QED
  BY <1>1, Honesty, PTL

(* In a reliable environment a warm start reuses only interfaces of what   *)
(* the files still hold, however the session before it ended.              *)
THEOREM CacheIsHonest == ASSUME Reliable PROVE Spec => []CacheHonest
<1>1. HonestInv => CacheHonest
  BY DEF HonestInv, Honest, CacheHonest
<1> QED
  BY <1>1, Honesty, PTL
-----------------------------------------------------------------------------
(* Following the disk: events that join a queue, or leave it.              *)
LEMMA TouchedMore ==
  ASSUME NEW Q \in Seq(Event), NEW R \in Seq(Event), NEW p
  PROVE  Touched(Q \o R, p) <=> Touched(Q, p) \/ Touched(R, p)
<1>1. /\ Len(Q) \in Nat /\ Len(R) \in Nat
      /\ Len(Q \o R) = Len(Q) + Len(R)
      /\ \A i \in 1 .. Len(Q) + Len(R) :
           (Q \o R)[i] = IF i <= Len(Q) THEN Q[i] ELSE R[i - Len(Q)]
  BY ConcatProperties
<1>2. ASSUME Touched(Q \o R, p) PROVE Touched(Q, p) \/ Touched(R, p)
  <2>1. PICK i \in 1 .. Len(Q) + Len(R) : Touches((Q \o R)[i], p)
    BY <1>1, <1>2 DEF Touched
  <2>2. CASE i <= Len(Q)
    BY <1>1, <2>1, <2>2 DEF Touched
  <2>3. CASE i > Len(Q)
    <3>1. i - Len(Q) \in 1 .. Len(R) /\ Touches(R[i - Len(Q)], p)
      BY <1>1, <2>1, <2>3
    <3> QED
      BY <3>1 DEF Touched
  <2> QED
    BY <1>1, <2>2, <2>3
<1>3. ASSUME Touched(Q, p) PROVE Touched(Q \o R, p)
  <2>1. PICK i \in 1 .. Len(Q) : Touches(Q[i], p)
    BY <1>3 DEF Touched
  <2>2. i \in 1 .. Len(Q) + Len(R) /\ Touches((Q \o R)[i], p)
    BY <1>1, <2>1
  <2> QED
    BY <1>1, <2>2 DEF Touched
<1>4. ASSUME Touched(R, p) PROVE Touched(Q \o R, p)
  <2>1. PICK i \in 1 .. Len(R) : Touches(R[i], p)
    BY <1>4 DEF Touched
  <2>2. /\ Len(Q) + i \in 1 .. Len(Q) + Len(R)
        /\ Touches((Q \o R)[Len(Q) + i], p)
    BY <1>1, <2>1
  <2> QED
    BY <1>1, <2>2 DEF Touched
<1> QED
  BY <1>2, <1>3, <1>4

LEMMA LastWordMore ==
  ASSUME NEW Q \in Seq(Event), NEW R \in Seq(Event), NEW S, NEW T,
         LastWord(Q, S), LastWord(R, T),
         \A p \in Paths : ~Touched(R, p) => (p \in T <=> p \in S)
  PROVE  LastWord(Q \o R, T)
<1>1. /\ Len(Q) \in Nat /\ Len(R) \in Nat
      /\ Len(Q \o R) = Len(Q) + Len(R)
      /\ \A i \in 1 .. Len(Q) + Len(R) :
           (Q \o R)[i] = IF i <= Len(Q) THEN Q[i] ELSE R[i - Len(Q)]
  BY ConcatProperties
<1>2. SUFFICES ASSUME NEW i \in 1 .. Len(Q) + Len(R), NEW p \in Paths,
                      \A j \in i + 1 .. Len(Q) + Len(R) : ~Touches((Q \o R)[j], p)
               PROVE  /\ Removes((Q \o R)[i], p) => p \notin T
                      /\ Arrives((Q \o R)[i], p) => p \in T
  BY <1>1 DEF LastWord
<1>3. CASE i <= Len(Q)
  <2>1. (Q \o R)[i] = Q[i] /\ i \in 1 .. Len(Q)
    BY <1>1, <1>3
  <2>2. \A j \in i + 1 .. Len(Q) : ~Touches(Q[j], p)
    <3>1. ASSUME NEW j \in i + 1 .. Len(Q) PROVE ~Touches(Q[j], p)
      <4>1. j \in i + 1 .. Len(Q) + Len(R) /\ (Q \o R)[j] = Q[j]
        BY <1>1, <1>3
      <4> QED
        BY <1>2, <4>1
    <3> QED
      BY <3>1
  <2>3. ~Touched(R, p)
    <3>1. ASSUME NEW k \in 1 .. Len(R) PROVE ~Touches(R[k], p)
      <4>1. Len(Q) + k \in i + 1 .. Len(Q) + Len(R) /\ (Q \o R)[Len(Q) + k] = R[k]
        BY <1>1, <1>3
      <4> QED
        BY <1>2, <4>1
    <3> QED
      BY <3>1 DEF Touched
  <2> QED
    BY <2>1, <2>2, <2>3 DEF LastWord
<1>4. CASE i > Len(Q)
  <2>1. (Q \o R)[i] = R[i - Len(Q)] /\ i - Len(Q) \in 1 .. Len(R)
    BY <1>1, <1>4
  <2>2. \A j \in (i - Len(Q)) + 1 .. Len(R) : ~Touches(R[j], p)
    <3>1. ASSUME NEW j \in (i - Len(Q)) + 1 .. Len(R) PROVE ~Touches(R[j], p)
      <4>1. Len(Q) + j \in i + 1 .. Len(Q) + Len(R) /\ (Q \o R)[Len(Q) + j] = R[j]
        BY <1>1, <1>4
      <4> QED
        BY <1>2, <4>1
    <3> QED
      BY <3>1
  <2> QED
    BY <2>1, <2>2 DEF LastWord
<1> QED
  BY <1>1, <1>3, <1>4

(* What is left of a queue once its first n events are taken.              *)
LEMMA LastWordLess ==
  ASSUME NEW Q \in Seq(Event), NEW S, LastWord(Q, S), NEW R \in Seq(Event),
         NEW n \in Nat, Len(R) = Len(Q) - n,
         \A i \in 1 .. Len(R) : R[i] = Q[i + n]
  PROVE  LastWord(R, S)
<1>1. Len(Q) \in Nat /\ Len(R) \in Nat
  OBVIOUS
<1>2. SUFFICES ASSUME NEW i \in 1 .. Len(R), NEW p \in Paths,
                      \A j \in i + 1 .. Len(R) : ~Touches(R[j], p)
               PROVE  /\ Removes(R[i], p) => p \notin S
                      /\ Arrives(R[i], p) => p \in S
  BY DEF LastWord
<1>3. i + n \in 1 .. Len(Q) /\ R[i] = Q[i + n]
  BY <1>1
<1>4. ASSUME NEW j \in (i + n) + 1 .. Len(Q) PROVE ~Touches(Q[j], p)
  <2>1. j - n \in i + 1 .. Len(R) /\ R[j - n] = Q[j]
    BY <1>1, <1>4
  <2> QED
    BY <1>2, <2>1
<1> QED
  BY <1>3, <1>4 DEF LastWord

(* The event taken is the last word on a path no later one touches.        *)
LEMMA TakenFirst ==
  ASSUME NEW Q \in Seq(Event), Q # <<>>, NEW p \in Paths
  PROVE  /\ Touched(Q, p) <=> Touches(Head(Q), p) \/ Touched(Tail(Q), p)
         /\ \A S : LastWord(Q, S) =>
              /\ LastWord(Tail(Q), S)
              /\ ~Touched(Tail(Q), p) =>
                   /\ Removes(Head(Q), p) => p \notin S
                   /\ Arrives(Head(Q), p) => p \in S
<1>1. /\ Tail(Q) \in Seq(Event) /\ Len(Tail(Q)) = Len(Q) - 1
      /\ Len(Q) \in Nat \ {0} /\ Head(Q) = Q[1]
      /\ \A i \in 1 .. Len(Tail(Q)) : Tail(Q)[i] = Q[i + 1]
  BY HeadTailProperties
<1>2. Touched(Q, p) => Touches(Head(Q), p) \/ Touched(Tail(Q), p)
  <2>1. SUFFICES ASSUME NEW i \in 1 .. Len(Q), Touches(Q[i], p), ~Touches(Q[1], p)
                 PROVE  Touched(Tail(Q), p)
    BY <1>1 DEF Touched
  <2>2. i - 1 \in 1 .. Len(Tail(Q)) /\ Tail(Q)[i - 1] = Q[i]
    BY <1>1, <2>1
  <2> QED
    BY <2>1, <2>2 DEF Touched
<1>3. Touched(Tail(Q), p) => Touched(Q, p)
  <2>1. SUFFICES ASSUME NEW i \in 1 .. Len(Tail(Q)), Touches(Tail(Q)[i], p)
                 PROVE  Touched(Q, p)
    BY DEF Touched
  <2>2. i + 1 \in 1 .. Len(Q) /\ Touches(Q[i + 1], p)
    BY <1>1, <2>1
  <2> QED
    BY <2>2 DEF Touched
<1>4. Touches(Head(Q), p) => Touched(Q, p)
  <2>1. 1 \in 1 .. Len(Q)
    BY <1>1
  <2> QED
    BY <1>1, <2>1 DEF Touched
<1>5. ASSUME NEW S, LastWord(Q, S)
      PROVE  /\ LastWord(Tail(Q), S)
             /\ ~Touched(Tail(Q), p) =>
                  /\ Removes(Head(Q), p) => p \notin S
                  /\ Arrives(Head(Q), p) => p \in S
  <2>1. LastWord(Tail(Q), S)
    BY <1>1, <1>5, LastWordLess
  <2>2. ASSUME ~Touched(Tail(Q), p)
        PROVE  \A j \in 1 + 1 .. Len(Q) : ~Touches(Q[j], p)
    <3>1. ASSUME NEW j \in 1 + 1 .. Len(Q) PROVE ~Touches(Q[j], p)
      <4>1. j - 1 \in 1 .. Len(Tail(Q)) /\ Tail(Q)[j - 1] = Q[j]
        BY <1>1
      <4> QED
        BY <2>2, <4>1 DEF Touched
    <3> QED
      BY <3>1
  <2>3. 1 \in 1 .. Len(Q)
    BY <1>1
  <2> QED
    BY <1>1, <1>5, <2>1, <2>2, <2>3 DEF LastWord
<1> QED
  BY <1>2, <1>3, <1>4, <1>5

-----------------------------------------------------------------------------
(* A step of another program: what it does to a path is the last word on   *)
(* the path, and the others stay as they are.                              *)
LEMMA ReportFollow ==
  ASSUME Inv, FollowInv, NEW n \in Seq(Event), NEW c \in Seq(Event \ {Rescan}),
         Report(n, c), LastWord(n, Files'), LastWord(c, Files'),
         \A p \in Paths : ~Touched(c, p) => (Exists(p)' <=> Exists(p)),
         \A p \in Paths : ~Touched(n, p) =>
           disk'[p] = disk[p] /\ (p \in locked <=> p \in locked')
  PROVE  FollowInv'
<1>1. UNCHANGED <<watcher, iface, record, stat, buffer, job, session>>
  BY DEF Report, indexVars, sessionVars
<1>2. SUFFICES ASSUME session # "down", watcher = "armed"
               PROVE  /\ LastWord(native', Files')
                      /\ client' # None => LastWord(client', Files')
                      /\ \A p \in Paths \ (Open \cup locked') : Waits(p)' \/ Placed(p)'
  BY <1>1 DEF FollowInv, Open
<1>3. /\ native \in Seq(Event) /\ native' = native \o n
      /\ client # None => client \in Seq(Event) /\ client' = client \o c
      /\ client = None => client' = None
      /\ c \in Seq(Event)
  BY <1>2 DEF Report, Inv, TypeOK
<1>4. \A p \in Paths : ~Touched(n, p) => (Exists(p)' <=> Exists(p))
  BY DEF Exists
<1>5. /\ \A p \in Paths : ~Touched(n, p) => (p \in Files' <=> p \in Files)
      /\ \A p \in Paths : ~Touched(c, p) => (p \in Files' <=> p \in Files)
  BY <1>4 DEF Files
<1>6. /\ LastWord(native, Files) /\ (client # None => LastWord(client, Files))
      /\ \A p \in Paths \ (Open \cup locked) : Waits(p) \/ Placed(p)
  BY <1>2 DEF FollowInv
<1>7. LastWord(native', Files')
  BY <1>3, <1>5, <1>6, LastWordMore
<1>8. client' # None => LastWord(client', Files')
  <2>1. SUFFICES ASSUME client' # None PROVE LastWord(client', Files')
    OBVIOUS
  <2>2. client # None /\ client \in Seq(Event) /\ client' = client \o c
    BY <1>3, <2>1
  <2>3. LastWord(client, Files) /\ c \in Seq(Event)
    BY <1>3, <1>6, <2>2
  <2>4. LastWord(client \o c, Files')
    BY <1>5, <2>2, <2>3, LastWordMore
  <2> QED
    BY <2>2, <2>4
<1>9. ASSUME NEW p \in Paths \ (Open \cup locked') PROVE Waits(p)' \/ Placed(p)'
  <2>1. CASE Touched(n, p)
    <3>1. Touched(native', p)
      BY <1>3, <2>1, TouchedMore
    <3> QED
      BY <3>1 DEF Waits
  <2>2. CASE ~Touched(n, p) /\ Waits(p)
    <3>1. CASE \E i \in 1 .. Len(native) : native[i] = Rescan
      <4>1. PICK i \in 1 .. Len(native) : native[i] = Rescan
        BY <3>1
      <4>2. i \in 1 .. Len(native') /\ native'[i] = Rescan
        BY <1>3, <4>1, ConcatProperties
      <4> QED
        BY <4>2 DEF Waits
    <3>2. CASE Touched(native, p)
      <4>1. Touched(native', p)
        BY <1>3, <3>2, TouchedMore
      <4> QED
        BY <4>1 DEF Waits
    <3>3. CASE client # None /\ Touched(client, p)
      <4>1. client \in Seq(Event) /\ c \in Seq(Event) /\ client' = client \o c
        BY <1>3, <3>3
      <4>2. Touched(client \o c, p)
        BY <3>3, <4>1, TouchedMore
      <4>3. client' # None
        <5>1. client' \in Seq(Event)
          BY <4>1, ConcatProperties
        <5> QED
          BY <5>1, NoneIsNoQueue
      <4> QED
        BY <4>1, <4>2, <4>3 DEF Waits
    <3> QED
      BY <2>2, <3>1, <3>2, <3>3 DEF Waits
  <2>3. CASE ~Touched(n, p) /\ ~Waits(p)
    <3>1. disk'[p] = disk[p] /\ p \notin locked /\ Placed(p)
      BY <1>6, <1>9, <2>3
    <3> QED
      BY <1>1, <3>1 DEF Placed, Right, Exists
  <2> QED
    BY <2>1, <2>2, <2>3
<1> QED
  BY <1>7, <1>8, <1>9

(* Rules that take the two queues as they are.                             *)
LEMMA OneEvent ==
  ASSUME NEW e, NEW S
  PROVE  /\ LastWord(<<e>>, S) <=>
              \A p \in Paths : (Removes(e, p) => p \notin S) /\ (Arrives(e, p) => p \in S)
         /\ \A p : Touched(<<e>>, p) <=> Touches(e, p)
         /\ LastWord(<<>>, S)
         /\ \A p : ~Touched(<<>>, p)
<1>1. Len(<<e>>) = 1 /\ <<e>>[1] = e /\ 1 .. 1 = {1} /\ 1 + 1 .. 1 = {}
  OBVIOUS
<1>2. Len(<<>>) = 0 /\ 1 .. 0 = {}
  OBVIOUS
<1>3. LastWord(<<>>, S) /\ \A p : ~Touched(<<>>, p)
  BY <1>2 DEF LastWord, Touched
<1>4. \A p : Touched(<<e>>, p) <=> Touches(e, p)
  BY <1>1 DEF Touched
<1>5. LastWord(<<e>>, S) <=>
         \A p \in Paths : (Removes(e, p) => p \notin S) /\ (Arrives(e, p) => p \in S)
  BY <1>1 DEF LastWord
<1> QED
  BY <1>3, <1>4, <1>5

LEMMA TwoEvents ==
  ASSUME NEW p \in Paths, NEW q \in Paths, NEW S, p \notin S
  PROVE  /\ LastWord(<<Deleted(p), Changed(q)>>, S)
         /\ \A r : Touched(<<Deleted(p), Changed(q)>>, r) <=> r \in {p, q}
<1> DEFINE Q == <<Deleted(p), Changed(q)>>
<1>1. Len(Q) = 2 /\ Q[1] = Deleted(p) /\ Q[2] = Changed(q) /\ 1 .. 2 = {1, 2}
  OBVIOUS
<1>2. /\ \A r : Removes(Deleted(p), r) => r = p
      /\ \A r : ~Arrives(Deleted(p), r) /\ ~Removes(Changed(q), r) /\ ~Arrives(Changed(q), r)
      /\ \A r : Touches(Deleted(p), r) <=> r = p
      /\ \A r : Touches(Changed(q), r) <=> r = q
  BY DEF Removes, Arrives, Touches, Deleted, Changed
<1> HIDE DEF Q
<1>3. LastWord(Q, S)
  BY <1>1, <1>2 DEF LastWord
<1>4. \A r : Touched(Q, r) <=> r \in {p, q}
  BY <1>1, <1>2 DEF Touched
<1> QED
  BY <1>3, <1>4 DEF Q

LEMMA EnvironmentFollow == Inv /\ FollowInv /\ Environment => FollowInv'
<1> SUFFICES ASSUME Inv, FollowInv, Environment PROVE FollowInv'
  OBVIOUS
<1> USE NoneFresh
<1>0. \A p \in Paths : p \in Files' <=> Exists(p)'
  BY DEF Files
<1>1. ASSUME NEW p \in Paths, NEW t \in Texts, Write(p, t) PROVE FollowInv'
  <2>1. /\ \A r : ~Removes(Changed(p), r) /\ ~Arrives(Changed(p), r)
        /\ \A r : Touches(Changed(p), r) <=> r = p
    BY DEF Removes, Arrives, Touches, Changed
  <2>2. /\ LastWord(<<Changed(p)>>, Files')
        /\ \A r : Touched(<<Changed(p)>>, r) <=> r = p
    BY <2>1, OneEvent
  <2>3. \A r \in Paths : r # p => disk'[r] = disk[r] /\ locked' = locked
    BY <1>1 DEF Write, Inv, TypeOK
  <2>4. \A r \in Paths : r # p => (Exists(r)' <=> Exists(r))
    BY <2>3 DEF Exists
  <2>5. Report(<<Changed(p)>>, <<Changed(p)>>)
    BY <1>1 DEF Write
  <2> QED
    BY <2>2, <2>3, <2>4, <2>5, EventTypes, ReportFollow
<1>2. ASSUME NEW p \in Paths, Delete(p) PROVE FollowInv'
  <2>1. /\ \A r : Removes(Deleted(p), r) => r = p
        /\ \A r : ~Arrives(Deleted(p), r)
        /\ \A r : Touches(Deleted(p), r) <=> r = p
    BY DEF Removes, Arrives, Touches, Deleted
  <2>2. p \notin Files'
    BY <1>2, <1>0 DEF Delete, Exists, Inv, TypeOK
  <2>3. /\ LastWord(<<Deleted(p)>>, Files')
        /\ \A r : Touched(<<Deleted(p)>>, r) <=> r = p
    BY <2>1, <2>2, OneEvent
  <2>4. \A r \in Paths : r # p => disk'[r] = disk[r] /\ (r \in locked <=> r \in locked')
    BY <1>2 DEF Delete, Inv, TypeOK
  <2>5. \A r \in Paths : r # p => (Exists(r)' <=> Exists(r))
    BY <2>4 DEF Exists
  <2>6. Report(<<Deleted(p)>>, <<Deleted(p)>>)
    BY <1>2 DEF Delete
  <2> QED
    BY <2>3, <2>4, <2>5, <2>6, EventTypes, ReportFollow
<1>3. ASSUME NEW p \in Paths, Lock(p) PROVE FollowInv'
  <2>1. /\ \A r : ~Removes(Changed(p), r) /\ ~Arrives(Changed(p), r)
        /\ \A r : Touches(Changed(p), r) <=> r = p
    BY DEF Removes, Arrives, Touches, Changed
  <2>2. /\ LastWord(<<Changed(p)>>, Files') /\ LastWord(<<>>, Files')
        /\ \A r : Touched(<<Changed(p)>>, r) <=> r = p
    BY <2>1, OneEvent
  <2>3. disk' = disk /\ \A r \in Paths : r # p => (r \in locked <=> r \in locked')
    BY <1>3 DEF Lock
  <2>4. \A r \in Paths : Exists(r)' <=> Exists(r)
    BY <2>3 DEF Exists
  <2>5. Report(<<Changed(p)>>, <<>>) /\ <<>> \in Seq(Event \ {Rescan})
    BY <1>3 DEF Lock
  <2> QED
    BY <2>2, <2>3, <2>4, <2>5, EventTypes, ReportFollow
<1>4. ASSUME NEW p \in Paths, NEW q \in Paths, Rename(p, q) PROVE FollowInv'
  <2>1. /\ \A r : Removes(Renamed(p, q), r) => r = p
        /\ \A r : Arrives(Renamed(p, q), r) => r = q
        /\ \A r : Touches(Renamed(p, q), r) <=> r \in {p, q}
    BY DEF Removes, Arrives, Touches, Renamed
  <2>2. disk'[p] = None /\ disk'[q] = disk[p] /\ disk[p] # None
    BY <1>4 DEF Rename, Exists, Inv, TypeOK
  <2>3. p \notin Files' /\ q \in Files'
    BY <1>0, <2>2 DEF Exists
  <2>4. /\ LastWord(<<Renamed(p, q)>>, Files')
        /\ \A r : Touched(<<Renamed(p, q)>>, r) <=> r \in {p, q}
    BY <2>1, <2>3, OneEvent
  <2>5. /\ LastWord(<<Deleted(p), Changed(q)>>, Files')
        /\ \A r : Touched(<<Deleted(p), Changed(q)>>, r) <=> r \in {p, q}
    BY <2>3, TwoEvents
  <2>6. \A r \in Paths : r \notin {p, q} =>
           disk'[r] = disk[r] /\ (r \in locked <=> r \in locked')
    BY <1>4 DEF Rename, Inv, TypeOK
  <2>7. \A r \in Paths : r \notin {p, q} => (Exists(r)' <=> Exists(r))
    BY <2>6 DEF Exists
  <2>8. Report(<<Renamed(p, q)>>, <<Deleted(p), Changed(q)>>)
    BY <1>4 DEF Rename
  <2> QED
    BY <2>4, <2>5, <2>6, <2>7, <2>8, EventTypes, ReportFollow
<1>5. CASE Overflow
  <2>1. native' = <<Rescan>> /\ UNCHANGED <<diskVars, client, watcher, session, buffer>>
    BY <1>5 DEF Overflow, sessionVars
  <2>2. \E i \in 1 .. Len(native') : native'[i] = Rescan
    <3>1. 1 \in 1 .. Len(native') /\ native'[1] = Rescan
      BY <2>1
    <3> QED
      BY <3>1
  <2>3. \A r : ~Removes(Rescan, r) /\ ~Arrives(Rescan, r)
    BY DEF Removes, Arrives, Rescan
  <2>4. LastWord(native', Files')
    BY <2>1, <2>3, OneEvent
  <2>5. Files' = Files
    BY <2>1 DEF Files, Exists, diskVars
  <2> QED
    BY <2>1, <2>2, <2>4, <2>5 DEF FollowInv, Waits, Open, diskVars
<1> QED
  BY <1>1, <1>2, <1>3, <1>4, <1>5 DEF Environment

-----------------------------------------------------------------------------
(* A step of the worker that takes no event.                               *)
LEMMA WorkerFollow ==
  ASSUME FollowInv, session # "down", UNCHANGED <<diskVars, native, watcher>>,
         client' = client \/ (client = None /\ client' \in {None, <<>>}),
         watcher = "armed" =>
           \A p \in Paths \ (Open' \cup locked) : p \in Open \/ Placed(p) => Placed(p)'
  PROVE  FollowInv'
<1>1. SUFFICES ASSUME watcher = "armed"
               PROVE  /\ LastWord(native', Files')
                      /\ client' # None => LastWord(client', Files')
                      /\ \A p \in Paths \ (Open' \cup locked') : Waits(p)' \/ Placed(p)'
  BY DEF FollowInv
<1>2. Files' = Files /\ locked' = locked /\ native' = native
  BY DEF Files, Exists, diskVars
<1>3. /\ LastWord(native, Files) /\ (client # None => LastWord(client, Files))
      /\ \A p \in Paths \ (Open \cup locked) : Waits(p) \/ Placed(p)
  BY <1>1 DEF FollowInv
<1>4. client' # None => LastWord(client', Files')
  BY <1>2, <1>3, OneEvent
<1>5. \A p \in Paths : Waits(p) => Waits(p)'
  BY <1>2 DEF Waits
<1> QED
  BY <1>1, <1>2, <1>3, <1>4, <1>5

(* A walk begins with every path to do, and none seen.                     *)
LEMMA Begun ==
  ASSUME NEW step, NEW S
  PROVE  /\ Begin(step, S).step = step /\ Begin(step, S).todo = S
         /\ Begin(step, S).seen = {} /\ Begin(step, S).at = None
BY DEF Begin, IdleJob

LEMMA QueueInit == Init => QueueInv /\ FollowInv
BY Idle DEF Init, QueueInv, FollowInv

LEMMA LoadFollow ==
  ASSUME Reliable PROVE Inv /\ QueueInv /\ FollowInv /\ Load => FollowInv'
<1> SUFFICES ASSUME Inv, QueueInv, FollowInv, Load PROVE FollowInv'
  OBVIOUS
<1>1. ASSUME NEW watch \in {"armed", "disabled"}, StartCold(watch) PROVE FollowInv'
  <2>1. /\ session = "down" /\ iface' = iface /\ iface = Nothing
        /\ native' = <<>> /\ client' = None /\ UNCHANGED diskVars
        /\ job' = Begin("build", {p \in Paths : Exists(p)})
    BY <1>1 DEF StartCold, Start, Inv, PhaseInv, QueueInv
  <2>2. LastWord(native', Files')
    BY <2>1, OneEvent
  <2>3. ASSUME NEW p \in Paths PROVE Placed(p)'
    <3>1. p \in job'.todo <=> Exists(p)
      BY <2>1, Begun
    <3>2. ~Exists(p) => Right(p)'
      BY <2>1 DEF Right, Exists, Nothing, diskVars
    <3> QED
      BY <2>1, <3>1, <3>2, Begun DEF Placed
  <2> QED
    BY <2>1, <2>2, <2>3 DEF FollowInv
<1>2. ASSUME NEW watch \in {"armed", "disabled"}, StartWarm(watch) PROVE FollowInv'
  <2>1. /\ native' = <<>> /\ client' = None /\ job' = Begin("warm", Paths)
    BY <1>2 DEF StartWarm, Start, QueueInv
  <2>2. LastWord(native', Files')
    BY <2>1, OneEvent
  <2>3. \A p \in Paths : Placed(p)'
    BY <2>1, Begun DEF Placed
  <2> QED
    BY <2>1, <2>2, <2>3 DEF FollowInv
<1>3. CASE BuildEnd
  <2>1. /\ job.step = "build" /\ job.todo = {} /\ job' = Begin("sweep", Paths)
        /\ UNCHANGED <<diskVars, eventVars, indexVars, sessionVars>>
        /\ session # "down"
    BY <1>3 DEF BuildEnd, Inv, PhaseInv
  <2>2. \A p \in Paths : Right(p) => Right(p)'
    BY <2>1 DEF Right, Exists, diskVars, indexVars
  <2>3. \A p \in Paths : Placed(p) => Placed(p)'
    BY <2>1, <2>2, Begun DEF Placed
  <2>4. Open' = Open
    BY <2>1 DEF Open, sessionVars
  <2> QED
    BY <2>1, <2>3, <2>4, WorkerFollow DEF eventVars
<1>4. CASE SweepEnd
  <2>1. /\ job.step = "sweep" /\ job' = Settle
        /\ UNCHANGED <<diskVars, eventVars, indexVars, sessionVars>>
        /\ session # "down"
    BY <1>4 DEF SweepEnd, Inv, PhaseInv
  <2>2. \A p \in Paths : Right(p) => Right(p)'
    BY <2>1 DEF Right, Exists, diskVars, indexVars
  <2>3. ASSUME watcher = "armed", NEW p \in Paths, Placed(p) PROVE Placed(p)'
    <3>1. job' = Begin("discover", Paths)
      BY <2>1, <2>3 DEF Settle
    <3> QED
      BY <2>1, <2>2, <2>3, <3>1, Begun DEF Placed
  <2>4. Open' = Open
    BY <2>1 DEF Open, sessionVars
  <2> QED
    BY <2>1, <2>3, <2>4, WorkerFollow DEF eventVars
<1>5. ASSUME NEW p \in Paths, BuildRead(p) PROVE FollowInv'
  <2>1. /\ job.step = "build" /\ p \in job.todo /\ job' = [job EXCEPT !.todo = @ \ {p}]
        /\ iface' = [iface EXCEPT ![p] = IF Readable(p) THEN disk[p].text ELSE None]
        /\ UNCHANGED <<diskVars, eventVars, stat, record, sessionVars>>
        /\ session # "down"
    BY <1>5 DEF BuildRead, Inv, PhaseInv
  <2>2. job'.step = "build" /\ job'.todo = job.todo \ {p}
    BY <2>1 DEF Inv, TypeOK, Job
  <2>3. p \notin locked => Right(p)'
    BY <2>1 DEF Right, Exists, Readable, Inv, TypeOK, diskVars
  <2>4. \A q \in Paths : q # p /\ Right(q) => Right(q)'
    BY <2>1 DEF Right, Exists, Inv, TypeOK, diskVars
  <2>5. \A q \in Paths \ locked : Placed(q) => Placed(q)'
    BY <2>1, <2>2, <2>3, <2>4 DEF Placed
  <2>6. Open' = Open
    BY <2>1 DEF Open, sessionVars
  <2> QED
    BY <2>1, <2>5, <2>6, WorkerFollow DEF eventVars
<1>6. ASSUME NEW p \in Paths, SweepStat(p) PROVE FollowInv'
  <2>1. /\ job.step = "sweep" /\ job' = [job EXCEPT !.todo = @ \ {p}]
        /\ UNCHANGED <<diskVars, eventVars, iface, record, sessionVars>>
        /\ session # "down"
    BY <1>6 DEF SweepStat, Inv, PhaseInv
  <2>2. job'.step = "sweep"
    BY <2>1 DEF Inv, TypeOK, Job
  <2>3. \A q \in Paths : Right(q) => Right(q)'
    BY <2>1 DEF Right, Exists, diskVars
  <2>4. \A q \in Paths : Placed(q) => Placed(q)'
    BY <2>1, <2>2, <2>3 DEF Placed
  <2>5. Open' = Open
    BY <2>1 DEF Open, sessionVars
  <2> QED
    BY <2>1, <2>4, <2>5, WorkerFollow DEF eventVars
<1> QED
  BY <1>1, <1>2, <1>3, <1>4, <1>5, <1>6 DEF Load

LEMMA WalkFollow ==
  Inv /\ HonestInv /\ QueueInv /\ FollowInv /\ Walk => FollowInv'
<1> SUFFICES ASSUME Inv, HonestInv, QueueInv, FollowInv, Walk PROVE FollowInv'
  OBVIOUS
<1> USE NoneFresh
<1>0. /\ job.step \in Walks /\ session # "down"
      /\ job.step \notin {"build", "idle", "restat", "sweep"}
  BY Idle DEF Walk, WalkStat, WalkRead, WalkEnd, Inv, PhaseInv
<1>1. ASSUME NEW p \in Paths, WalkStat(p) PROVE FollowInv'
  <2>1. /\ job.at = None /\ p \in job.todo
        /\ UNCHANGED <<diskVars, eventVars, indexVars, sessionVars>>
    BY <1>1 DEF WalkStat
  <2>2. /\ job'.step = job.step /\ job'.todo = job.todo \ {p}
        /\ job'.seen = IF Exists(p) THEN job.seen \cup {p} ELSE job.seen
        /\ job'.at = IF Exists(p) /\ ~Trusted(p) THEN p ELSE None
    BY <1>1, <2>1 DEF WalkStat, Inv, TypeOK, Job
  <2>3. /\ \A q \in Paths : Right(q) <=> Right(q)'
        /\ \A q \in Paths : Exists(q) <=> Exists(q)'
    BY <2>1 DEF Right, Exists, diskVars, indexVars
  <2>4. p \notin Open /\ Exists(p) /\ Trusted(p) /\ Placed(p) => Right(p)
    <3>1. SUFFICES ASSUME p \notin Open, Exists(p), Trusted(p), Placed(p) PROVE Right(p)
      OBVIOUS
    <3>2. CASE job.step = "discover"
      BY <1>0, <2>1, <3>1, <3>2 DEF Placed
    <3>3. CASE stat[p] = disk[p].stamp
      <4>1. p \in Paths \ (Open \cup Restatting)
        BY <1>0, <3>1 DEF Restatting
      <4> QED
        BY <3>1, <3>3, <4>1 DEF HonestInv, Honest, Right
    <3> QED
      BY <3>1, <3>2, <3>3 DEF Trusted
  <2>5. job.todo \cap job.seen = {}
    BY <1>0 DEF QueueInv
  <2>6. ASSUME NEW q \in Paths \ (Open \cup locked), Placed(q) PROVE Placed(q)'
    <3>1. CASE q = p
      BY <1>0, <2>1, <2>2, <2>3, <2>4, <2>5, <2>6, <3>1 DEF Placed
    <3>2. CASE q # p
      BY <1>0, <2>1, <2>2, <2>3, <2>6, <3>2 DEF Placed
    <3> QED
      BY <3>1, <3>2
  <2>7. Open' = Open
    BY <2>1 DEF Open, sessionVars
  <2> QED
    BY <1>0, <2>1, <2>6, <2>7, WorkerFollow DEF eventVars
<1>2. CASE WalkRead
  <2>1. /\ job.at \in Paths /\ UNCHANGED <<diskVars, eventVars, sessionVars>>
        /\ job.at \in job.seen /\ job.at \notin job.todo
    BY <1>0, <1>2 DEF WalkRead, Inv, TypeOK, Job, QueueInv
  <2>2. PICK p \in Paths : p = job.at
    BY <2>1
  <2>3. /\ job'.step = job.step /\ job'.todo = job.todo /\ job'.seen = job.seen
        /\ job'.at = None
    BY <1>2 DEF WalkRead, Inv, TypeOK, Job
  <2>4. Exists(p) /\ p \notin locked => Right(p)'
    BY <1>2, <2>1, <2>2 DEF WalkRead, Readable, Right, Exists, Inv, TypeOK, diskVars
  <2>5. \A q \in Paths : q # p => (Right(q) <=> Right(q)')
    BY <1>2, <2>1, <2>2 DEF WalkRead, Right, Exists, Inv, TypeOK, diskVars, indexVars
  <2>6. \A q \in Paths : Exists(q) <=> Exists(q)'
    BY <2>1 DEF Exists, diskVars
  <2>7. ASSUME NEW q \in Paths \ (Open \cup locked), Placed(q) PROVE Placed(q)'
    <3>1. CASE q = p
      BY <1>0, <2>1, <2>2, <2>3, <2>4, <2>7, <3>1 DEF Placed
    <3>2. CASE q # p
      BY <1>0, <2>1, <2>2, <2>3, <2>5, <2>6, <2>7, <3>2 DEF Placed
    <3> QED
      BY <3>1, <3>2
  <2>8. Open' = Open
    BY <2>1 DEF Open, sessionVars
  <2> QED
    BY <1>0, <2>1, <2>7, <2>8, WorkerFollow DEF eventVars
<1>3. CASE WalkEnd
  <2> DEFINE gone == {p \in Paths : iface[p] # None} \ (job.seen \cup Open)
  <2>1. /\ job.todo = {} /\ job.at = None
        /\ iface' = Forget(iface, gone)
        /\ UNCHANGED <<diskVars, native, watcher, buffer>>
        /\ job' = IF job.step = "warm" THEN Settle ELSE IdleJob
    BY <1>3 DEF WalkEnd
  <2>2. client' = client \/ (client = None /\ client' \in {None, <<>>})
    BY <1>0, <1>3 DEF WalkEnd, Registered, QueueInv
  <2>3. ASSUME NEW p \in Paths \ Open, Placed(p) PROVE Right(p)'
    <3>1. IF p \in job.seen THEN Right(p) ELSE ~Exists(p)
      BY <1>0, <2>1, <2>3 DEF Placed
    <3>2. iface'[p] = IF p \in gone THEN None ELSE iface[p]
      BY <2>1 DEF Forget
    <3>3. CASE p \in job.seen
      BY <2>1, <3>1, <3>2, <3>3 DEF Right, Exists, diskVars
    <3>4. CASE p \notin job.seen
      BY <2>1, <2>3, <3>1, <3>2, <3>4 DEF Right, Exists, diskVars
    <3> QED
      BY <3>3, <3>4
  <2>4. Open' = Open
    BY <2>1 DEF Open
  <2>5. ASSUME watcher = "armed", NEW p \in Paths \ Open, Placed(p) PROVE Placed(p)'
    <3>1. job' \in {Begin("discover", Paths), IdleJob}
      BY <2>1, <2>5 DEF Settle
    <3>2. job'.step \in {"discover", "idle"} /\ job'.todo \in {Paths, {}}
          /\ (job'.step = "discover" => job'.todo = Paths)
      BY <3>1, Begun, Idle DEF IdleJob
    <3> QED
      BY <2>3, <2>5, <3>2 DEF Placed
  <2> QED
    BY <1>0, <2>1, <2>2, <2>4, <2>5, WorkerFollow
<1> QED
  BY <1>1, <1>2, <1>3 DEF Walk

-----------------------------------------------------------------------------
(* An event leaves its paths right, when it tells true where they are.     *)
LEMMA ApplyRight ==
  ASSUME Inv, Ready, NEW e \in Event \ {Rescan}, Apply(e),
         UNCHANGED <<diskVars, buffer>>,
         NEW p \in Paths \ (Open \cup locked),
         Touches(e, p) => /\ Removes(e, p) => ~Exists(p)
                          /\ Arrives(e, p) => Exists(p),
         ~Touches(e, p) => Right(p)
  PROVE  Right(p)' /\ job'.step \in {"idle", "restat"}
<1> USE NoneFresh
<1>1. \/ e.kind = "changed" /\ e.path \in Paths
      \/ e.kind = "deleted" /\ e.path \in Paths
      \/ e.kind = "renamed" /\ e.path \in Paths /\ e.from \in Paths
  BY DEF Event, Rescan
<1>2. disk' = disk /\ (Exists(p)' <=> Exists(p)) /\ iface \in [Paths -> Content]
  BY DEF diskVars, Exists, Inv, TypeOK
<1>3. job'.step \in {"idle", "restat"}
  BY ApplyOutcomes, Idle DEF Keep, Remove, ReadFromDisk, OnlyRestat, Ready, IdleJob
<1>4. CASE e.kind = "changed" /\ e.path \in Paths
  <2>1. ApplyChanged(e.path)
    BY <1>4 DEF Apply
  <2>2. CASE p = e.path
    <3>1. CASE ~Exists(p)
      <4>1. iface' = Forget(iface, {p})
        BY <2>1, <2>2, <3>1 DEF ApplyChanged, Remove, Readable
      <4> QED
        BY <1>2, <1>3, <3>1, <4>1 DEF Right, Forget
    <3>2. CASE Exists(p) /\ Duplicate(p)
      <4>1. UNCHANGED iface
        BY <2>1, <2>2, <3>2 DEF ApplyChanged, OnlyRestat, Readable, indexVars
      <4>2. iface[p] = disk[p].text
        <5>1. record[p] = disk[p].text /\ disk[p].text \in Texts
          BY <3>2 DEF Duplicate, Exists, Inv, TypeOK, File
        <5> QED
          BY <5>1 DEF Inv, RecordMatchesIndex
      <4> QED
        BY <1>2, <1>3, <3>2, <4>1, <4>2 DEF Right
    <3>3. CASE Exists(p) /\ ~Duplicate(p)
      <4>1. iface' = [Forget(iface, {}) EXCEPT ![p] = disk[p].text]
        BY <2>1, <2>2, <3>3 DEF ApplyChanged, ReadFromDisk, Readable
      <4> QED
        BY <1>2, <1>3, <3>3, <4>1 DEF Right, Forget
    <3> QED
      BY <3>1, <3>2, <3>3
  <2>3. CASE p # e.path
    <3>1. ~Touches(e, p)
      BY <1>4, <2>3 DEF Touches
    <3>2. iface'[p] = iface[p]
      BY <1>2, <2>1, <2>3
         DEF ApplyChanged, Keep, Remove, OnlyRestat, ReadFromDisk, Forget, indexVars
    <3> QED
      BY <1>2, <1>3, <3>1, <3>2 DEF Right
  <2> QED
    BY <2>2, <2>3
<1>5. CASE e.kind = "deleted" /\ e.path \in Paths
  <2>1. ApplyDeleted(e.path)
    BY <1>5 DEF Apply
  <2>2. CASE p = e.path
    <3>1. ~Exists(p)
      BY <1>5, <2>2 DEF Touches, Removes
    <3>2. iface' = Forget(iface, {p})
      BY <2>1, <2>2 DEF ApplyDeleted, Remove
    <3> QED
      BY <1>2, <1>3, <3>1, <3>2 DEF Right, Forget
  <2>3. CASE p # e.path
    <3>1. ~Touches(e, p)
      BY <1>5, <2>3 DEF Touches
    <3>2. iface'[p] = iface[p]
      BY <1>2, <2>1, <2>3 DEF ApplyDeleted, Keep, Remove, Forget, indexVars
    <3> QED
      BY <1>2, <1>3, <3>1, <3>2 DEF Right
  <2> QED
    BY <2>2, <2>3
<1>6. CASE e.kind = "renamed" /\ e.path \in Paths /\ e.from \in Paths
  <2>1. ApplyRenamed(e.from, e.path)
    BY <1>6 DEF Apply
  <2>2. /\ p = e.from => ~Exists(p)
        /\ p = e.path => Exists(p)
    BY <1>6 DEF Touches, Removes, Arrives
  <2>3. CASE p = e.path
    <3>1. Exists(p) /\ p # e.from
      BY <2>2, <2>3
    <3>2. iface' = [Forget(iface, {e.from} \ Open) EXCEPT ![p] = disk[p].text]
      BY <2>1, <2>3, <3>1 DEF ApplyRenamed, ReadFromDisk, Readable
    <3> QED
      BY <1>2, <1>3, <3>1, <3>2 DEF Right, Forget
  <2>4. CASE p # e.path
    <3>1. iface'[p] = Forget(iface, {e.from} \ Open)[p]
      BY <2>1, <2>4 DEF ApplyRenamed, ReadFromDisk, Remove, Forget
    <3>2. CASE p = e.from
      BY <1>2, <1>3, <2>2, <3>1, <3>2 DEF Right, Forget
    <3>3. CASE p # e.from
      <4>1. ~Touches(e, p)
        BY <1>6, <2>4, <3>3 DEF Touches
      <4> QED
        BY <1>2, <1>3, <3>1, <3>3, <4>1 DEF Right, Forget
    <3> QED
      BY <3>2, <3>3
  <2> QED
    BY <2>3, <2>4
<1> QED
  BY <1>1, <1>3, <1>4, <1>5, <1>6

LEMMA TakeFollow ==
  Inv /\ FollowInv /\ (TakeNative \/ TakeClient \/ TakeSomeRescan) => FollowInv'
<1> SUFFICES ASSUME Inv, FollowInv, TakeNative \/ TakeClient \/ TakeSomeRescan
             PROVE  FollowInv'
  OBVIOUS
<1>1. native \in Seq(Event) /\ client \in Seq(Event \ {Rescan}) \cup {None}
  BY DEF Inv, TypeOK
<1>2. UNCHANGED <<diskVars, watcher, session, buffer>> /\ Ready
  BY DEF TakeNative, TakeClient, TakeSomeRescan, TakeRescan, sessionVars
<1>3. Files' = Files /\ Open' = Open /\ locked' = locked
  BY <1>2 DEF Files, Exists, Open, diskVars
<1>4. \A p \in Paths : p \in Files <=> Exists(p)
  BY DEF Files
<1>5. job.step = "idle" /\ \A p \in Paths : Placed(p) => Right(p)
  BY <1>2, Idle DEF Ready, Placed
<1>6. SUFFICES ASSUME session # "down", watcher = "armed"
               PROVE  /\ LastWord(native', Files)
                      /\ client' # None => LastWord(client', Files)
                      /\ \A p \in Paths \ (Open \cup locked) : Waits(p)' \/ Placed(p)'
  BY <1>2, <1>3 DEF FollowInv
<1>7. /\ LastWord(native, Files) /\ (client # None => LastWord(client, Files))
      /\ \A p \in Paths \ (Open \cup locked) : Waits(p) \/ Placed(p)
  BY <1>6 DEF FollowInv
<1>8. CASE TakeNative
  <2>1. /\ native # <<>> /\ Head(native) \in Event \ {Rescan} /\ Apply(Head(native))
        /\ native' = Tail(native) /\ client' = client
    BY <1>1, <1>8, HeadTailProperties DEF TakeNative
  <2>2. LastWord(native', Files)
    <3>1. CASE Paths = {}
      BY <3>1 DEF LastWord
    <3>2. CASE Paths # {}
      BY <1>1, <1>7, <2>1, <3>2, TakenFirst
    <3> QED
      BY <3>1, <3>2
  <2>3. (\E i \in 1 .. Len(native) : native[i] = Rescan)
          => \E i \in 1 .. Len(native') : native'[i] = Rescan
    <3>1. SUFFICES ASSUME NEW i \in 1 .. Len(native), native[i] = Rescan
                   PROVE  \E k \in 1 .. Len(native') : native'[k] = Rescan
      OBVIOUS
    <3>2. /\ Len(native) \in Nat /\ Len(native') = Len(native) - 1
          /\ Head(native) = native[1]
          /\ \A k \in 1 .. Len(native') : native'[k] = native[k + 1]
      BY <1>1, <2>1, HeadTailProperties
    <3>3. i # 1
      BY <2>1, <3>1, <3>2
    <3>4. i - 1 \in 1 .. Len(native') /\ native'[i - 1] = Rescan
      BY <3>1, <3>2, <3>3
    <3> QED
      BY <3>4
  <2>4. ASSUME NEW p \in Paths \ (Open \cup locked), ~Waits(p)' PROVE Placed(p)'
    <3>1. ~Touched(Tail(native), p)
      BY <2>1, <2>4 DEF Waits
    <3>2. Touches(Head(native), p) => /\ Removes(Head(native), p) => ~Exists(p)
                                      /\ Arrives(Head(native), p) => Exists(p)
      BY <1>1, <1>4, <1>7, <2>1, <3>1, TakenFirst
    <3>3. ~Touches(Head(native), p) => Right(p)
      <4>1. SUFFICES ASSUME ~Touches(Head(native), p) PROVE ~Waits(p)
        BY <1>5, <1>7
      <4>2. ~Touched(native, p)
        BY <1>1, <2>1, <3>1, <4>1, TakenFirst
      <4> QED
        BY <2>1, <2>3, <2>4, <4>2 DEF Waits
    <3>4. Right(p)' /\ job'.step \in {"idle", "restat"}
      BY <1>2, <2>1, <3>2, <3>3, ApplyRight
    <3> QED
      BY <3>4 DEF Placed
  <2> QED
    BY <1>7, <2>1, <2>2, <2>4
<1>9. CASE TakeClient
  <2>1. /\ client # None /\ client # <<>> /\ client \in Seq(Event)
        /\ Head(client) \in Event \ {Rescan}
        /\ Apply(Head(client)) /\ client' = Tail(client) /\ native' = native
    BY <1>1, <1>9, HeadTailProperties DEF TakeClient
  <2>2. Tail(client) \in Seq(Event) /\ Tail(client) # None
    BY <2>1, HeadTailProperties, NoneIsNoQueue
  <2>3. LastWord(client', Files)
    <3>1. CASE Paths = {}
      BY <3>1 DEF LastWord
    <3>2. CASE Paths # {}
      BY <1>7, <2>1, <3>2, TakenFirst
    <3> QED
      BY <3>1, <3>2
  <2>4. ASSUME NEW p \in Paths \ (Open \cup locked), ~Waits(p)' PROVE Placed(p)'
    <3>1. ~Touched(Tail(client), p)
      BY <2>1, <2>2, <2>4 DEF Waits
    <3>2. Touches(Head(client), p) => /\ Removes(Head(client), p) => ~Exists(p)
                                      /\ Arrives(Head(client), p) => Exists(p)
      BY <1>4, <1>7, <2>1, <3>1, TakenFirst
    <3>3. ~Touches(Head(client), p) => Right(p)
      <4>1. SUFFICES ASSUME ~Touches(Head(client), p) PROVE ~Waits(p)
        BY <1>5, <1>7
      <4>2. ~Touched(client, p)
        BY <2>1, <3>1, <4>1, TakenFirst
      <4> QED
        BY <2>1, <2>4, <4>2 DEF Waits
    <3>4. Right(p)' /\ job'.step \in {"idle", "restat"}
      BY <1>2, <2>1, <3>2, <3>3, ApplyRight
    <3> QED
      BY <3>4 DEF Placed
  <2> QED
    BY <1>7, <2>1, <2>3, <2>4
<1>10. ASSUME NEW n \in 1 .. Len(native), TakeRescan(n)
       PROVE  /\ LastWord(native', Files)
              /\ client' # None => LastWord(client', Files)
              /\ \A p \in Paths \ (Open \cup locked) : Waits(p)' \/ Placed(p)'
  <2>1. /\ native' = SubSeq(native, n + 1, Len(native)) /\ client' = client
        /\ job' = Begin("full", Paths)
    BY <1>10 DEF TakeRescan
  <2>2. LastWord(native', Files)
    <3>1. Len(native) \in Nat /\ n \in Nat
      BY <1>1
    <3>2. /\ native' \in Seq(Event) /\ Len(native') = Len(native) - n
          /\ \A i \in 1 .. Len(native') : native'[i] = native[i + n]
      BY <1>1, <2>1, <3>1
    <3> QED
      BY <1>1, <1>7, <3>1, <3>2, LastWordLess
  <2>3. \A p \in Paths : Placed(p)'
    BY <2>1, Begun DEF Placed
  <2> QED
    BY <1>7, <2>1, <2>2, <2>3
<1> QED
  BY <1>8, <1>9, <1>10 DEF TakeSomeRescan

LEMMA BufferFollow ==
  ASSUME Inv, FollowInv, NEW p \in Paths
  PROVE  /\ CloseBuffer(p) => FollowInv'
         /\ \A t \in Texts : EditBuffer(p, t) => FollowInv'
<1> USE NoneFresh
<1>1. ASSUME CloseBuffer(p) PROVE FollowInv'
  <2>1. /\ session # "down" /\ job = IdleJob /\ UNCHANGED <<diskVars, eventVars>>
        /\ buffer' = [buffer EXCEPT ![p] = None]
        /\ IF ~Exists(p) THEN Remove({p})
           ELSE IF Readable(p) THEN ReadFromDisk(p, {}) ELSE Keep
    BY <1>1 DEF CloseBuffer, Ready
  <2>2. /\ disk' = disk /\ \A q \in Paths : Exists(q)' <=> Exists(q)
        /\ iface \in [Paths -> Content]
    BY <2>1 DEF diskVars, Exists, Inv, TypeOK
  <2>3. job'.step \in {"idle", "restat"} /\ job.step = "idle"
    BY <2>1, Idle DEF Keep, Remove, ReadFromDisk, IdleJob
  <2>4. p \notin locked => Right(p)'
    <3>1. CASE ~Exists(p)
      <4>1. iface' = Forget(iface, {p})
        BY <2>1, <3>1 DEF Remove
      <4> QED
        BY <2>2, <3>1, <4>1 DEF Right, Forget
    <3>2. CASE Readable(p)
      <4>1. iface' = [Forget(iface, {}) EXCEPT ![p] = disk[p].text] /\ Exists(p)
        BY <2>1, <3>2 DEF ReadFromDisk, Readable
      <4> QED
        BY <2>2, <4>1 DEF Right, Forget
    <3> QED
      BY <3>1, <3>2 DEF Readable
  <2>5. ASSUME NEW q \in Paths, q # p, Right(q) PROVE Right(q)'
    <3>1. iface'[q] = iface[q]
      BY <2>1, <2>2, <2>5 DEF Keep, Remove, ReadFromDisk, Forget, indexVars
    <3> QED
      BY <2>2, <2>5, <3>1 DEF Right
  <2>6. \A q \in Paths : q # p => (q \in Open' <=> q \in Open)
    BY <2>1 DEF Open, Inv, TypeOK
  <2>7. ASSUME NEW q \in Paths \ (Open' \cup locked), q \in Open \/ Placed(q)
        PROVE  Placed(q)'
    <3>1. CASE q = p
      BY <2>3, <2>4, <2>7, <3>1 DEF Placed
    <3>2. CASE q # p
      <4>1. Right(q)
        BY <2>3, <2>6, <2>7, <3>2 DEF Placed
      <4> QED
        BY <2>3, <2>5, <3>2, <4>1 DEF Placed
    <3> QED
      BY <3>1, <3>2
  <2> QED
    BY <2>1, <2>7, WorkerFollow DEF eventVars
<1>2. ASSUME NEW t \in Texts, EditBuffer(p, t) PROVE FollowInv'
  <2>1. /\ session # "down" /\ UNCHANGED <<diskVars, eventVars, job>>
        /\ buffer' = [buffer EXCEPT ![p] = t] /\ iface' = [iface EXCEPT ![p] = t]
    BY <1>2 DEF EditBuffer, Ready
  <2>2. /\ p \in Open' /\ \A q \in Paths : q # p => (q \in Open' <=> q \in Open)
    BY <2>1 DEF Open, Inv, TypeOK
  <2>3. ASSUME NEW q \in Paths \ (Open' \cup locked), q \in Open \/ Placed(q)
        PROVE  Placed(q)'
    <3>1. q # p /\ Placed(q)
      BY <2>2, <2>3
    <3>2. (Exists(q)' <=> Exists(q)) /\ (Right(q)' <=> Right(q))
      BY <2>1, <3>1 DEF Exists, Right, diskVars, Inv, TypeOK
    <3> QED
      BY <2>1, <3>1, <3>2 DEF Placed
  <2> QED
    BY <2>1, <2>3, WorkerFollow DEF eventVars
<1> QED
  BY <1>1, <1>2

LEMMA OtherFollow ==
  Inv /\ FollowInv
    /\ (Restat \/ DisableWatcher \/ Tick \/ SaveMidSession \/ Shutdown \/ Crash)
    => FollowInv'
<1> SUFFICES ASSUME Inv, FollowInv, Restat \/ DisableWatcher \/ Tick \/ SaveMidSession
                                    \/ Shutdown \/ Crash
             PROVE  FollowInv'
  OBVIOUS
<1>1. CASE Restat \/ SaveMidSession
  <2>1. /\ session # "down" /\ UNCHANGED <<diskVars, eventVars, iface, buffer>>
        /\ job.step \in {"idle", "restat"} /\ job'.step = "idle"
    BY <1>1, Idle DEF Restat, SaveMidSession, Ready, Inv, PhaseInv, sessionVars, indexVars
  <2>2. Open' = Open /\ \A p \in Paths : Right(p) => Right(p)'
    BY <2>1 DEF Open, Right, Exists, diskVars
  <2>3. \A p \in Paths : Placed(p) => Placed(p)'
    BY <2>1, <2>2 DEF Placed
  <2> QED
    BY <2>1, <2>2, <2>3, WorkerFollow DEF eventVars
<1>2. CASE DisableWatcher \/ Tick
  BY <1>2 DEF DisableWatcher, Tick, FollowInv, eventVars
<1>3. CASE Shutdown \/ Crash
  BY <1>3 DEF Shutdown, Crash, Ended, FollowInv
<1> QED
  BY <1>1, <1>2, <1>3

(* The queues of a session that is down or loading.                        *)
LEMMA QueueStep == Inv /\ QueueInv /\ [Next]_vars => QueueInv'
<1> SUFFICES ASSUME Inv, QueueInv, [Next]_vars PROVE QueueInv'
  OBVIOUS
<1> USE NoneFresh
<1>1. CASE Environment
  <2>1. UNCHANGED <<session, job>>
    BY <1>1 DEF Environment, Write, Delete, Lock, Rename, Overflow, Report, sessionVars
  <2>2. (session = "down" => native' = native) /\ (client = None => client' = None)
    BY <1>1 DEF Environment, Write, Delete, Lock, Rename, Overflow, Report
  <2> QED
    BY <2>1, <2>2 DEF QueueInv
<1>2. CASE Load
  <2>1. (job'.seen = {} /\ job'.at = None) \/ job'.step \in {"build", "sweep"}
    <3>1. CASE BuildEnd \/ SweepEnd
              \/ \E watch \in {"armed", "disabled"} : StartCold(watch) \/ StartWarm(watch)
      BY <3>1, Begun DEF BuildEnd, SweepEnd, StartCold, StartWarm, Settle
    <3>2. CASE \E p \in Paths : BuildRead(p) \/ SweepStat(p)
      BY <3>2 DEF BuildRead, SweepStat, Inv, TypeOK, Job
    <3> QED
      BY <1>2, <3>1, <3>2 DEF Load
  <2>2. session' # "down" /\ client' = client /\ (session' # "up" => session # "up")
    BY <1>2 DEF Load, StartCold, StartWarm, Start, BuildEnd, SweepEnd, BuildRead, SweepStat,
                eventVars, sessionVars, Inv, PhaseInv
  <2> QED
    BY <2>1, <2>2 DEF QueueInv
<1>3. CASE Walk
  <2>1. session # "down" /\ job.step \in Walks
    BY <1>3, Idle DEF Walk, WalkStat, WalkRead, WalkEnd, Inv, PhaseInv
  <2>2. ASSUME NEW p \in Paths, WalkStat(p) PROVE QueueInv'
    <3>1. /\ job'.step = job.step /\ job'.todo = job.todo \ {p}
          /\ job'.seen = IF Exists(p) THEN job.seen \cup {p} ELSE job.seen
          /\ job'.at # None => job'.at = p /\ Exists(p)
          /\ UNCHANGED <<native, client, session>>
      BY <2>2 DEF WalkStat, Inv, TypeOK, Job, eventVars, sessionVars
    <3> QED
      BY <2>1, <3>1 DEF QueueInv
  <2>3. CASE WalkRead
    <3>1. /\ job'.step = job.step /\ job'.todo = job.todo /\ job'.seen = job.seen
          /\ job'.at = None /\ UNCHANGED <<native, client, session>>
      BY <2>3 DEF WalkRead, Inv, TypeOK, Job, eventVars, sessionVars
    <3> QED
      BY <2>1, <3>1 DEF QueueInv
  <2>4. CASE WalkEnd
    <3>1. job'.seen = {} /\ job'.at = None
      BY <2>4, Begun DEF WalkEnd, Settle, IdleJob
    <3>2. session' # "down" /\ (session' # "up" => session # "up" /\ client' = client)
      BY <2>1, <2>4 DEF WalkEnd
    <3> QED
      BY <3>1, <3>2 DEF QueueInv
  <2> QED
    BY <1>3, <2>2, <2>3, <2>4 DEF Walk
<1>4. CASE TakeNative \/ TakeClient \/ TakeSomeRescan
  <2>1. session' = "up"
    BY <1>4 DEF TakeNative, TakeClient, TakeSomeRescan, TakeRescan, Ready, sessionVars
  <2>2. job'.step \in Walks => job'.seen = {} /\ job'.at = None
    <3>1. CASE TakeSomeRescan
      BY <3>1, Begun DEF TakeSomeRescan, TakeRescan
    <3>2. CASE TakeNative \/ TakeClient
      <4>1. \E e \in Event \ {Rescan} : Apply(e) /\ job = IdleJob
        BY <3>2, HeadTailProperties DEF TakeNative, TakeClient, Ready, Inv, TypeOK
      <4> QED
        BY <4>1, ApplyOutcomes, Idle
           DEF Keep, Remove, ReadFromDisk, OnlyRestat, IdleJob
    <3> QED
      BY <1>4, <3>1, <3>2
  <2> QED
    BY <2>1, <2>2 DEF QueueInv
<1>5. CASE Edit
  <2>1. session' = "up"
    BY <1>5 DEF Edit, EditBuffer, CloseBuffer, Ready
  <2>2. job'.step \notin Walks
    BY <1>5, Idle DEF Edit, EditBuffer, CloseBuffer, Ready, Keep, Remove, ReadFromDisk,
                       IdleJob
  <2> QED
    BY <2>1, <2>2 DEF QueueInv
<1>6. CASE Restat \/ DisableWatcher \/ Tick \/ SaveMidSession
  <2>1. session' = "up"
    BY <1>6 DEF Restat, DisableWatcher, Tick, SaveMidSession, Ready, sessionVars, Inv, PhaseInv
  <2>2. job'.step \in Walks => job'.seen = {} /\ job'.at = None
    BY <1>6, Begun, Idle DEF Restat, DisableWatcher, Tick, SaveMidSession, Ready
  <2> QED
    BY <2>1, <2>2 DEF QueueInv
<1>7. CASE Shutdown \/ Crash
  BY <1>7, Idle DEF Shutdown, Crash, Ended, QueueInv
<1>8. CASE UNCHANGED vars
  BY <1>8 DEF vars, eventVars, sessionVars, QueueInv
<1> QED
  BY <1>1, <1>2, <1>3, <1>4, <1>5, <1>6, <1>7, <1>8 DEF Next

LEMMA StepFollow ==
  ASSUME Reliable
  PROVE  Inv /\ HonestInv /\ QueueInv /\ FollowInv /\ [Next]_vars => FollowInv'
<1> SUFFICES ASSUME Inv, HonestInv, QueueInv, FollowInv, [Next]_vars PROVE FollowInv'
  OBVIOUS
<1>1. CASE UNCHANGED vars
  BY <1>1 DEF vars, diskVars, eventVars, indexVars, sessionVars, FollowInv, Waits, Placed,
              Right, Exists, Files, Open
<1>2. CASE Next
  BY <1>2, EnvironmentFollow, LoadFollow, WalkFollow, TakeFollow, BufferFollow,
     OtherFollow DEF Next, Edit
<1> QED
  BY <1>1, <1>2

(* In a reliable environment a session with a live watcher that has no     *)
(* event left to take and no walk under way holds of every file that is    *)
(* not open and can be read what the file holds: however it started,       *)
(* whichever events an overflow lost, and in whatever order renames,       *)
(* rewrites and deletions met the walks.                                   *)
THEOREM IndexSettles == ASSUME Reliable PROVE Spec => []Settled
<1>1. Inv /\ QueueInv /\ FollowInv => Settled
  <2>1. SUFFICES ASSUME FollowInv, Ready, watcher = "armed", native = <<>>,
                        client \in {None, <<>>}, NEW p \in Paths \ (Open \cup locked)
                 PROVE  Right(p)
    BY DEF Settled, InStep, Right
  <2>2. session # "down" /\ job.step = "idle"
    BY <2>1, Idle DEF Ready
  <2>3. ~Waits(p)
    <3>1. ~Touched(<<>>, p) /\ ~(\E i \in 1 .. Len(<<>>) : <<>>[i] = Rescan)
      <4>1. Len(<<>>) = 0 /\ 1 .. 0 = {}
        OBVIOUS
      <4> QED
        BY <4>1 DEF Touched
    <3>2. client # None => client = <<>>
      BY <2>1
    <3> QED
      BY <2>1, <3>1, <3>2 DEF Waits
  <2>4. Placed(p)
    BY <2>1, <2>2, <2>3 DEF FollowInv
  <2> QED
    BY <2>2, <2>4 DEF Placed
<1> QED
  BY <1>1, QueueInit, QueueStep, StepFollow, Invariance, Honesty, PTL DEF Spec
=============================================================================
