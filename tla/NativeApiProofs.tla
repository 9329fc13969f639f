--------------------------- MODULE NativeApiProofs --------------------------
(***************************************************************************)
(* What the dump ladder and the event loop promise each other, for every   *)
(* set of Godot builds and addon sets, any number of sessions, user        *)
(* actions and faults.                                                     *)
(***************************************************************************)
EXTENDS NativeApi, TLAPS

Kinds == {"stopped", "unwaited", "changed", "meddled", "left", "unwritten", "unremoved",
          "unrestored"}

TypeOK ==
  /\ binary \in Binaries \cup {None} /\ surface \in Surfaces
  /\ root \in File /\ managed \in File /\ shadow \in File
  /\ aside \in Dump \cup {None} /\ best \in Dump \cup {None}
  /\ meta \in [binary : Binaries, surface : Surfaces] \cup {None}
  /\ up \in BOOLEAN /\ arm \in BOOLEAN
  /\ live \in Dump \cup {Stock} /\ outcome \in Dump \cup {None, Failed}
  /\ events \subseteq {"root", "project"}
  /\ pc \in {"idle", "spawn", "run", "move", "load", "describe", "judge", "restore"}
  /\ rung \in {"direct", "shadow"}
  /\ child # None => child \in [dump : Dump, wrote : {"nothing", "part", "all"}]
  /\ loaded \subseteq 0..MaxMissing /\ faults \subseteq Kinds
  /\ orphans \subseteq [dump : Dump, wrote : {"nothing", "part"}, into : {"direct", "shadow"}]

(* The thread lives as long as the session that spawned it, runs its child *)
(* in one step only, judges the dump it finds in the managed place, and    *)
(* has set none aside before the shadow rung.  A Godot that nobody waits   *)
(* for is the trace of one of two faults.                                  *)
ThreadInv ==
  /\ faults \cap {"stopped", "unwaited"} = {} => orphans = {}
  /\ child # None => pc = "run"
  /\ pc # "idle" => arm
  /\ outcome # None => pc = "idle" /\ arm
  /\ arm => up
  /\ ~up => events = {}
  /\ pc # "idle" /\ rung = "direct" => best = None
  /\ pc \in {"describe", "judge"} => cand \in Dump /\ managed = cand

-----------------------------------------------------------------------------
(* The project root: what a direct run writes there it takes away again.   *)
OwnRoot == root = None \/ (root \in Dump /\ root.by = "user")
RootInv ==
  faults \cap {"stopped", "unwaited", "left"} = {} =>
    OwnRoot \/ (rung = "direct" /\ pc \in {"run", "move"})

-----------------------------------------------------------------------------
(* A ladder that no fault hits: whatever it handles is what the binary in  *)
(* use makes of the addons in use, and the meta file tells of the managed  *)
(* dump, except between the move and the writing of the meta file.         *)
Current(d) == d.by = "godot" /\ d.binary = binary /\ d.surface = surface
Described(d) == d.by = "godot" /\ (meta # None => meta.binary = d.binary /\ meta.surface = d.surface)
MetaCurrent == meta = [binary |-> binary, surface |-> surface]

FreshInv ==
  faults = {} =>
    /\ pc # "idle" => binary # None
    /\ child # None => Current(child.dump)
    /\ pc \in {"run", "move"} /\ Out \in Dump => Current(Out)
    /\ managed \in Dump => Described(managed) \/ pc \in {"load", "describe"}
    /\ managed \in Dump /\ pc \in {"load", "describe", "judge"} => Current(managed)
    /\ pc = "judge" => MetaCurrent
    /\ pc = "idle" \/ rung = "direct" => aside = None
    /\ aside # None => Current(aside) /\ MetaCurrent

-----------------------------------------------------------------------------
(* Which dumps the ladder has loaded, and where the best of them is.  A    *)
(* dump that was aside before the ladder is none of them.                  *)
Before == {"spawn", "run", "move", "load"}
Judged == {"describe", "judge"}
LadderInv ==
  /\ outcome \in Dump => managed = outcome /\ \A m \in loaded : outcome.missing <= m
  /\ rung = "direct" =>
       /\ pc \in Before => loaded = {}
       /\ pc \in Judged => loaded = {cand.missing}
  /\ rung = "shadow" =>
       /\ pc \in Before => loaded = IF best = None THEN {} ELSE {best.missing}
       /\ pc \in Judged =>
            loaded = {cand.missing} \cup (IF best = None THEN {} ELSE {best.missing})
       /\ pc \in Before \cup Judged /\ best # None => aside = best
  /\ pc = "restore" /\ best # None =>
       /\ aside = best \/ (aside = None /\ managed = best)
       /\ \A m \in loaded : best.missing <= m
KeepInv == "unremoved" \notin faults => LadderInv

-----------------------------------------------------------------------------
(* What the session serves, when no file is torn, left over or meddled     *)
(* with: what a restart would, unless an event or an outcome that makes it *)
(* look again is pending, or the ladder is yet to report.                  *)
Quiet == faults \subseteq {"changed", "unwritten"}
InStep == live = Resolved \/ Resolved = Stock
Pending ==
  \/ "project" \in events
  \/ "root" \in events /\ managed = None
  \/ outcome \in Dump
  \/ pc \in {"load", "describe", "judge"}
  \/ pc # "idle" /\ best # None

TidyInv ==
  Quiet =>
    /\ managed = Torn => pc = "load"
    /\ pc = "idle" \/ best = None => aside = None
    /\ pc # "idle" => root = None \/ (rung = "direct" /\ pc \in {"run", "move"})

LiveInv == Quiet /\ up => InStep \/ Pending

NativeInv ==
  TypeOK /\ ThreadInv /\ RootInv /\ FreshInv /\ KeepInv /\ TidyInv /\ LiveInv

-----------------------------------------------------------------------------
(* What a resolution serves, and what it leaves of the managed dump.       *)
LEMMA ResolvedType ==
  ASSUME TypeOK
  PROVE  Resolved \in Dump \cup {Stock}
BY DEF TypeOK, Resolved, Served

LEMMA KeptIs == KeptManaged = managed \/ (managed = Torn /\ KeptManaged = None)
BY DEF KeptManaged

(* A dump the user made is a dump.                                         *)
LEMMA UserDump ==
  ASSUME NEW d \in [binary : Binaries, surface : {surface}, missing : {0}, by : {"user"}],
         surface \in Surfaces
  PROVE  d \in Dump /\ d.by = "user"
BY ConstantsAssumption DEF Dump

LEMMA MissingNat ==
  ASSUME NEW d \in Dump
  PROVE  d.missing \in Nat /\ d.missing \in 0..MaxMissing
BY DEF Dump

LEMMA DumpIs ==
  /\ None # Torn /\ None # Failed
  /\ None \notin Dump /\ Torn \notin Dump /\ Failed \notin Dump /\ Stock \notin Dump
BY ConstantsAssumption

LEMMA OrphanedType ==
  ASSUME TypeOK
  PROVE  orphans \cup Orphaned \subseteq
           [dump : Dump, wrote : {"nothing", "part"}, into : {"direct", "shadow"}]
BY DEF TypeOK, Orphaned

(* Every step keeps the types. *)
LEMMA TypeStep ==
  ASSUME TypeOK, ThreadInv, [Next]_vars
  PROVE  TypeOK'
<1> USE DEF TypeOK, ThreadInv, File, Kinds, fileVars, envVars, sessionVars, loopVars,
            threadVars
<1>1. CASE Start
  BY <1>1, ResolvedType, KeptIs DEF Start
<1>2. CASE Stop
  BY <1>2, OrphanedType DEF Stop, During, Hit
<1>3. CASE HandleEvents
  BY <1>3, ResolvedType, KeptIs DEF HandleEvents, Reload, AdoptNative
<1>4. CASE HandleOutcome
  <2>1. CASE outcome = Failed
    BY <1>4, <2>1 DEF HandleOutcome
  <2>2. CASE outcome # Failed
    <3>1. live' \in Dump \cup {Stock} /\ managed' \in File
      BY <1>4, <2>2, ResolvedType, KeptIs DEF HandleOutcome, Reload, AdoptNative
    <3> QED
      BY <1>4, <3>1 DEF HandleOutcome
  <2> QED
    BY <2>1, <2>2
<1>5. CASE Spawn
  BY <1>5 DEF Spawn, NextRung, Boots
<1>6. CASE EndRun
  BY <1>6, OrphanedType DEF EndRun, NextRung, Out, Hit
<1>7. CASE MoveDump
  BY <1>7 DEF MoveDump, NextRung, Out, SetOut, Write, Hit
<1>8. CASE LoadDump
  BY <1>8 DEF LoadDump, NextRung, Dump
<1>9. CASE WriteMeta
  BY <1>9 DEF WriteMeta, Hit
<1>10. CASE JudgeDirect
  BY <1>10 DEF JudgeDirect, NextRung, Announce
<1>11. CASE JudgeShadow
  BY <1>11 DEF JudgeShadow, Announce, Beats, Hit
<1>12. CASE Restore
  BY <1>12 DEF Restore, Announce, Hit
<1>13. CASE ChildWrites
  BY <1>13 DEF ChildWrites, SetOut, Write
<1>14. CASE ChangeBinary
  BY <1>14 DEF ChangeBinary, UserActs, During, Hit
<1>15. CASE ChangeAddons
  BY <1>15 DEF ChangeAddons, UserActs, During, Hit
<1>16. CASE ChangeRoot
  BY <1>16, UserDump DEF ChangeRoot, UserActs, During, Hit
<1>17. CASE DeleteManaged
  BY <1>17 DEF DeleteManaged, UserActs
<1>18. CASE UNCHANGED vars
  BY <1>18 DEF vars
<1>19. CASE OrphanWrites
  BY <1>19 DEF OrphanWrites, Write
<1> QED
  BY <1>1, <1>2, <1>3, <1>4, <1>5, <1>6, <1>7, <1>8, <1>9, <1>10, <1>11, <1>12, <1>13,
     <1>14, <1>15, <1>16, <1>17, <1>18, <1>19
     DEF Next, Thread, User

(* A fault stays known.                                                    *)
LEMMA FaultsGrow ==
  ASSUME [Next]_vars
  PROVE  faults \subseteq faults'
BY DEF Next, Thread, User, vars, fileVars, envVars, sessionVars, loopVars,
       threadVars, Start, Stop, HandleEvents, HandleOutcome, Spawn, EndRun,
       MoveDump, LoadDump, WriteMeta, JudgeDirect, JudgeShadow, Restore,
       ChildWrites, OrphanWrites, ChangeBinary, ChangeAddons, ChangeRoot, DeleteManaged,
       During, Hit, UserActs

(* Every step keeps the thread in order. *)
LEMMA ThreadStep ==
  ASSUME TypeOK, ThreadInv, [Next]_vars
  PROVE  ThreadInv'
<1> USE DEF TypeOK, ThreadInv, fileVars, envVars, sessionVars, loopVars, threadVars
<1> faults \subseteq faults'
  BY FaultsGrow
<1>1. CASE Start
  BY <1>1 DEF Start
<1>2. CASE Stop
  BY <1>2 DEF Stop, During, Hit, Orphaned
<1>3. CASE HandleEvents
  BY <1>3, KeptIs, DumpIs DEF HandleEvents, Reload, AdoptNative
<1>4. CASE HandleOutcome
  BY <1>4 DEF HandleOutcome, Reload, AdoptNative
<1>5. CASE Spawn
  BY <1>5 DEF Spawn, NextRung, Boots
<1>6. CASE EndRun
  BY <1>6 DEF EndRun, NextRung, Out, Orphaned, Hit
<1>7. CASE MoveDump
  BY <1>7 DEF MoveDump, NextRung, Out, SetOut, Write, Hit
<1>8. CASE LoadDump
  BY <1>8 DEF LoadDump, NextRung
<1>9. CASE WriteMeta
  BY <1>9 DEF WriteMeta
<1>10. CASE JudgeDirect
  <2>1. CASE Announce(cand) /\ UNCHANGED <<aside, managed, best, rung>>
    BY <1>10, <2>1 DEF JudgeDirect, Announce
  <2>2. CASE /\ cand.missing > 0 /\ managed # None
             /\ aside' = managed /\ managed' = None /\ best' = cand
             /\ NextRung /\ outcome' = outcome
    <3>1. pc' = "spawn" /\ rung' = "shadow" /\ cand \in Dump /\ managed = cand
      BY <1>10, <2>2, MissingNat, ConstantsAssumption DEF JudgeDirect, NextRung
    <3> QED
      BY <1>10, <2>2, <3>1 DEF JudgeDirect
  <2> QED
    BY <1>10, <2>1, <2>2 DEF JudgeDirect
<1>11. CASE JudgeShadow
  BY <1>11 DEF JudgeShadow, Announce, Beats
<1>12. CASE Restore
  BY <1>12 DEF Restore, Announce
<1>13. CASE ChildWrites
  BY <1>13 DEF ChildWrites, SetOut, Write
<1>14. CASE ChangeBinary
  BY <1>14 DEF ChangeBinary, UserActs, During
<1>15. CASE ChangeAddons
  BY <1>15 DEF ChangeAddons, UserActs, During
<1>16. CASE ChangeRoot
  BY <1>16 DEF ChangeRoot, UserActs, During
<1>17. CASE DeleteManaged
  BY <1>17 DEF DeleteManaged, UserActs
<1>18. CASE UNCHANGED vars
  BY <1>18 DEF vars
<1>19. CASE OrphanWrites
  BY <1>19 DEF OrphanWrites, Write
<1> QED
  BY <1>1, <1>2, <1>3, <1>4, <1>5, <1>6, <1>7, <1>8, <1>9, <1>10, <1>11, <1>12, <1>13,
     <1>14, <1>15, <1>16, <1>17, <1>18, <1>19
     DEF Next, Thread, User

(* Every step keeps the root, but for the three faults that leave a dump   *)
(* of Godot's there.                                                       *)
LEMMA RootStep ==
  ASSUME TypeOK, ThreadInv, RootInv, [Next]_vars
  PROVE  RootInv'
<1> USE DEF TypeOK, ThreadInv, RootInv, OwnRoot, fileVars, envVars, sessionVars, loopVars,
            threadVars
<1>1. CASE Start
  BY <1>1 DEF Start
<1>2. CASE Stop
  BY <1>2 DEF Stop, During, Hit, Orphaned
<1>3. CASE HandleEvents
  BY <1>3 DEF HandleEvents, Reload, AdoptNative
<1>4. CASE HandleOutcome
  BY <1>4 DEF HandleOutcome, Reload, AdoptNative
<1>5. CASE Spawn
  BY <1>5 DEF Spawn, Boots
<1>6. CASE EndRun
  BY <1>6 DEF EndRun, Out, Orphaned, Hit
<1>7. CASE MoveDump
  BY <1>7 DEF MoveDump, Out, SetOut, Write, Hit
<1>8. CASE LoadDump
  BY <1>8 DEF LoadDump
<1>9. CASE WriteMeta
  BY <1>9 DEF WriteMeta, Hit
<1>10. CASE JudgeDirect
  BY <1>10 DEF JudgeDirect, Announce
<1>11. CASE JudgeShadow
  BY <1>11 DEF JudgeShadow, Announce, Beats, Hit
<1>12. CASE Restore
  BY <1>12 DEF Restore, Announce, Hit
<1>13. CASE ChildWrites
  BY <1>13 DEF ChildWrites, SetOut, Write
<1>14. CASE ChangeBinary
  BY <1>14 DEF ChangeBinary, UserActs, During, Hit
<1>15. CASE ChangeAddons
  BY <1>15 DEF ChangeAddons, UserActs, During, Hit
<1>16. CASE ChangeRoot
  BY <1>16, UserDump DEF ChangeRoot, UserActs, During
<1>17. CASE DeleteManaged
  BY <1>17 DEF DeleteManaged, UserActs
<1>18. CASE UNCHANGED vars
  BY <1>18 DEF vars
<1>19. CASE OrphanWrites
  BY <1>19 DEF OrphanWrites, Write
<1> QED
  BY <1>1, <1>2, <1>3, <1>4, <1>5, <1>6, <1>7, <1>8, <1>9, <1>10, <1>11, <1>12, <1>13,
     <1>14, <1>15, <1>16, <1>17, <1>18, <1>19
     DEF Next, Thread, User

(* While no fault hits a ladder, every step keeps its dumps current. *)
LEMMA FreshStep ==
  ASSUME TypeOK, ThreadInv, FreshInv, [Next]_vars
  PROVE  FreshInv'
<1> USE DEF TypeOK, ThreadInv, FreshInv, Current, Described, MetaCurrent, Out, fileVars,
            envVars, sessionVars, loopVars, threadVars
<1>1. CASE Start
  BY <1>1, KeptIs, DumpIs DEF Start
<1>2. CASE Stop
  BY <1>2 DEF Stop, During, Hit, Orphaned
<1>3. CASE HandleEvents
  BY <1>3, KeptIs, DumpIs DEF HandleEvents, Reload, AdoptNative
<1>4. CASE HandleOutcome
  BY <1>4, KeptIs, DumpIs DEF HandleOutcome, Reload, AdoptNative
<1>5. CASE Spawn
  BY <1>5, DumpIs DEF Spawn, NextRung, Boots
<1>6. CASE EndRun
  BY <1>6 DEF EndRun, NextRung, Out, Orphaned, Hit
<1>7. CASE MoveDump
  BY <1>7 DEF MoveDump, NextRung, Out, SetOut, Write, Hit
<1>8. CASE LoadDump
  BY <1>8, DumpIs DEF LoadDump, NextRung
<1>9. CASE WriteMeta
  BY <1>9 DEF WriteMeta, Hit
<1>10. CASE JudgeDirect
  <2>1. CASE Announce(cand) /\ UNCHANGED <<aside, managed, best, rung>>
    BY <1>10, <2>1 DEF JudgeDirect, Announce
  <2>2. CASE /\ cand.missing > 0 /\ managed # None
             /\ aside' = managed /\ managed' = None /\ best' = cand
             /\ NextRung /\ outcome' = outcome
    <3>1. pc' = "spawn" /\ rung' = "shadow" /\ cand \in Dump /\ managed = cand
      BY <1>10, <2>2, MissingNat, ConstantsAssumption DEF JudgeDirect, NextRung
    <3> QED
      BY <1>10, <2>2, <3>1, DumpIs DEF JudgeDirect
  <2> QED
    BY <1>10, <2>1, <2>2 DEF JudgeDirect
<1>11. CASE JudgeShadow
  BY <1>11 DEF JudgeShadow, Announce, Beats, Hit
<1>12. CASE Restore
  BY <1>12 DEF Restore, Announce, Hit
<1>13. CASE ChildWrites
  BY <1>13, DumpIs DEF ChildWrites, SetOut, Write
<1>14. CASE ChangeBinary
  BY <1>14 DEF ChangeBinary, UserActs, During, Hit
<1>15. CASE ChangeAddons
  BY <1>15 DEF ChangeAddons, UserActs, During, Hit
<1>16. CASE ChangeRoot
  BY <1>16 DEF ChangeRoot, UserActs, During, Hit
<1>17. CASE DeleteManaged
  BY <1>17, DumpIs DEF DeleteManaged, UserActs
<1>18. CASE UNCHANGED vars
  BY <1>18 DEF vars
<1>19. CASE OrphanWrites
  BY <1>19 DEF OrphanWrites, Write
<1> QED
  BY <1>1, <1>2, <1>3, <1>4, <1>5, <1>6, <1>7, <1>8, <1>9, <1>10, <1>11, <1>12, <1>13,
     <1>14, <1>15, <1>16, <1>17, <1>18, <1>19
     DEF Next, Thread, User

(* Every step keeps the account of what the ladder loaded. *)
LEMMA KeepStep ==
  ASSUME TypeOK, ThreadInv, KeepInv, [Next]_vars
  PROVE  KeepInv'
<1> USE DEF TypeOK, ThreadInv, KeepInv, LadderInv, Before, Judged, fileVars, envVars,
            sessionVars, loopVars, threadVars
<1>1. CASE Start
  BY <1>1, KeptIs DEF Start
<1>2. CASE Stop
  BY <1>2, DumpIs DEF Stop, During, Hit, Orphaned
<1>3. CASE HandleEvents
  BY <1>3, KeptIs, DumpIs DEF HandleEvents, Reload, AdoptNative
<1>4. CASE HandleOutcome
  BY <1>4, DumpIs DEF HandleOutcome, Reload, AdoptNative
<1>5. CASE Spawn
  BY <1>5 DEF Spawn, NextRung, Boots
<1>6. CASE EndRun
  BY <1>6 DEF EndRun, NextRung, Out, Orphaned, Hit
<1>7. CASE MoveDump
  BY <1>7, DumpIs DEF MoveDump, NextRung, Out, SetOut, Write, Hit
<1>8. CASE LoadDump
  <2>1. CASE managed \in Dump
    <3>1. "unremoved" \notin faults /\ rung = "direct" => loaded' = {cand'.missing}
      BY <1>8, <2>1 DEF LoadDump
    <3>2. "unremoved" \notin faults /\ rung = "shadow" =>
            loaded' = {cand'.missing} \cup (IF best' = None THEN {} ELSE {best'.missing})
      BY <1>8, <2>1 DEF LoadDump
    <3> QED
      BY <1>8, <2>1, <3>1, <3>2, DumpIs DEF LoadDump
  <2>2. CASE managed \notin Dump
    <3>1. CASE best = None
      BY <1>8, <2>2, <3>1 DEF LoadDump, NextRung
    <3>2. CASE best # None
      <4>1. "unremoved" \notin faults =>
              rung = "shadow" /\ aside = best /\ loaded = {best.missing}
        BY <1>8, <3>2 DEF LoadDump
      <4> QED
        BY <1>8, <2>2, <3>2, <4>1, MissingNat DEF LoadDump, NextRung
    <3> QED
      BY <3>1, <3>2
  <2> QED
    BY <2>1, <2>2
<1>9. CASE WriteMeta
  BY <1>9 DEF WriteMeta, Hit
<1>10. CASE JudgeDirect
  <2>1. CASE Announce(cand) /\ UNCHANGED <<aside, managed, best, rung>>
    BY <1>10, <2>1 DEF JudgeDirect, Announce
  <2>2. CASE /\ cand.missing > 0 /\ managed # None
             /\ aside' = managed /\ managed' = None /\ best' = cand
             /\ NextRung /\ outcome' = outcome
    <3>1. pc' = "spawn" /\ rung' = "shadow" /\ cand \in Dump /\ managed = cand
      BY <1>10, <2>2, MissingNat, ConstantsAssumption DEF JudgeDirect, NextRung
    <3> QED
      BY <1>10, <2>2, <3>1 DEF JudgeDirect
  <2> QED
    BY <1>10, <2>1, <2>2 DEF JudgeDirect
<1>11. CASE JudgeShadow
  <2>1. cand \in Dump /\ managed = cand /\ cand.missing \in Nat
    BY <1>11, MissingNat DEF JudgeShadow
  <2>2. best # None => best \in Dump /\ best.missing \in Nat
    BY MissingNat
  <2>3. CASE "unremoved" \in faults'
    BY <2>3
  <2>4. CASE "unremoved" \notin faults' /\ Beats(cand, best)
    <3>1. "unremoved" \notin faults /\ aside' = None
      BY <1>11, <2>4 DEF JudgeShadow, Hit
    <3>2. loaded = {cand.missing} \cup (IF best = None THEN {} ELSE {best.missing})
      BY <1>11, <3>1 DEF JudgeShadow
    <3>3. \A m \in loaded : cand.missing <= m
      BY <2>1, <2>2, <2>4, <3>2 DEF Beats
    <3>4. CASE cand.missing = 0
      BY <1>11, <2>1, <2>4, <3>1, <3>3, <3>4 DEF JudgeShadow, Announce
    <3>5. CASE cand.missing # 0
      BY <1>11, <2>1, <2>4, <3>1, <3>3, <3>5 DEF JudgeShadow
    <3> QED
      BY <3>4, <3>5
  <2>5. CASE "unremoved" \notin faults' /\ ~Beats(cand, best)
    <3>1. best # None /\ best.missing <= cand.missing
      BY <2>1, <2>2, <2>5 DEF Beats
    <3>2. faults' = faults /\ pc' = "restore" /\ UNCHANGED <<aside, best, outcome, managed, rung, loaded>>
      BY <1>11, <2>5 DEF JudgeShadow
    <3>3. loaded = {cand.missing, best.missing} /\ aside = best
      BY <1>11, <2>5, <3>1, <3>2 DEF JudgeShadow
    <3>4. \A m \in loaded : best.missing <= m
      BY <2>2, <3>1, <3>3
    <3> QED
      BY <1>11, <3>1, <3>2, <3>3, <3>4 DEF JudgeShadow
  <2> QED
    BY <2>3, <2>4, <2>5
<1>12. CASE Restore
  BY <1>12, DumpIs DEF Restore, Announce
<1>13. CASE ChildWrites
  BY <1>13 DEF ChildWrites, SetOut, Write
<1>14. CASE ChangeBinary
  BY <1>14 DEF ChangeBinary, UserActs, During, Hit
<1>15. CASE ChangeAddons
  BY <1>15 DEF ChangeAddons, UserActs, During, Hit
<1>16. CASE ChangeRoot
  BY <1>16 DEF ChangeRoot, UserActs, During, Hit
<1>17. CASE DeleteManaged
  BY <1>17 DEF DeleteManaged, UserActs
<1>18. CASE UNCHANGED vars
  BY <1>18 DEF vars
<1>19. CASE OrphanWrites
  BY <1>19 DEF OrphanWrites, Write
<1> QED
  BY <1>1, <1>2, <1>3, <1>4, <1>5, <1>6, <1>7, <1>8, <1>9, <1>10, <1>11, <1>12, <1>13,
     <1>14, <1>15, <1>16, <1>17, <1>18, <1>19
     DEF Next, Thread, User

LEMMA QuietBefore ==
  ASSUME [Next]_vars, Quiet'
  PROVE  /\ Quiet
         /\ \A k \in {"stopped", "unwaited", "meddled", "left", "unremoved", "unrestored"} : k \notin faults'
BY FaultsGrow DEF Quiet

(* Without faults nothing is left torn or aside, and the root is free during a ladder. *)
LEMMA TidyStep ==
  ASSUME TypeOK, ThreadInv, TidyInv, [Next]_vars
  PROVE  TidyInv'
<1> USE DEF TypeOK, ThreadInv, TidyInv, fileVars, envVars, sessionVars, loopVars,
            threadVars
<1> SUFFICES ASSUME Quiet' PROVE TidyInv'
  BY DEF TidyInv
<1> Quiet /\ \A k \in {"stopped", "unwaited", "meddled", "left", "unremoved", "unrestored"} : k \notin faults'
  BY QuietBefore
<1>1. CASE Start
  BY <1>1, KeptIs DEF Start
<1>2. CASE Stop
  BY <1>2 DEF Stop, During, Hit, Orphaned
<1>3. CASE HandleEvents
  BY <1>3, KeptIs DEF HandleEvents, Reload, AdoptNative
<1>4. CASE HandleOutcome
  BY <1>4, KeptIs DEF HandleOutcome, Reload, AdoptNative
<1>5. CASE Spawn
  BY <1>5 DEF Spawn, NextRung, Boots
<1>6. CASE EndRun
  BY <1>6 DEF EndRun, NextRung, Out, Orphaned, Hit
<1>7. CASE MoveDump
  BY <1>7 DEF MoveDump, NextRung, Out, SetOut, Write, Hit
<1>8. CASE LoadDump
  BY <1>8, DumpIs DEF LoadDump, NextRung
<1>9. CASE WriteMeta
  BY <1>9 DEF WriteMeta
<1>10. CASE JudgeDirect
  BY <1>10, DumpIs DEF JudgeDirect, NextRung, Announce
<1>11. CASE JudgeShadow
  BY <1>11 DEF JudgeShadow, Announce, Beats, Hit
<1>12. CASE Restore
  BY <1>12, DumpIs DEF Restore, Announce, Hit
<1>13. CASE ChildWrites
  BY <1>13 DEF ChildWrites, SetOut, Write
<1>14. CASE ChangeBinary
  BY <1>14 DEF ChangeBinary, UserActs, During
<1>15. CASE ChangeAddons
  BY <1>15 DEF ChangeAddons, UserActs, During
<1>16. CASE ChangeRoot
  BY <1>16 DEF ChangeRoot, UserActs, During, Hit
<1>17. CASE DeleteManaged
  BY <1>17, DumpIs DEF DeleteManaged, UserActs
<1>18. CASE UNCHANGED vars
  BY <1>18 DEF vars
<1>19. CASE OrphanWrites
  BY <1>19 DEF OrphanWrites, Write
<1> QED
  BY <1>1, <1>2, <1>3, <1>4, <1>5, <1>6, <1>7, <1>8, <1>9, <1>10, <1>11, <1>12, <1>13,
     <1>14, <1>15, <1>16, <1>17, <1>18, <1>19
     DEF Next, Thread, User

(* What is resolved depends on the managed dump and, without one, on the   *)
(* root; an unreadable managed dump counts as none.                        *)
LEMMA ResolvedSame ==
  ASSUME \/ managed' = managed /\ (root' = root \/ managed \in Dump)
         \/ root' = root /\ managed = Torn /\ managed' = None
  PROVE  Resolved' = Resolved
<1>1. managed \in Dump <=> managed' \in Dump
  BY DumpIs
<1>2. CASE managed \in Dump
  BY <1>1, <1>2, DumpIs DEF Resolved, Served
<1>3. CASE managed \notin Dump
  BY <1>1, <1>3 DEF Resolved, Served
<1> QED
  BY <1>2, <1>3

LEMMA InStepSame ==
  ASSUME InStep, live' = live,
         \/ managed' = managed /\ (root' = root \/ managed \in Dump)
         \/ root' = root /\ managed = Torn /\ managed' = None
  PROVE  InStep'
BY ResolvedSame DEF InStep

LEMMA ReloadInStep ==
  ASSUME live' = Resolved \/ AdoptNative, managed' = KeptManaged, root' = root
  PROVE  InStep'
BY ResolvedSame, KeptIs DEF AdoptNative, InStep

(* Every step that changes what a restart would serve is seen by the       *)
(* session, or by an outcome or an event to come.                          *)
LEMMA LiveStep ==
  ASSUME TypeOK, ThreadInv, TidyInv, LiveInv, [Next]_vars
  PROVE  LiveInv'
<1> USE DEF TypeOK, ThreadInv, TidyInv, LiveInv, Pending, File, fileVars, envVars,
            sessionVars, loopVars, threadVars
<1> SUFFICES ASSUME Quiet' PROVE LiveInv'
  BY DEF LiveInv
<1> Quiet /\ \A k \in {"stopped", "unwaited", "meddled", "left", "unremoved", "unrestored"} : k \notin faults'
  BY QuietBefore
<1>1. CASE Start
  BY <1>1, ReloadInStep DEF Start
<1>2. CASE Stop
  BY <1>2 DEF Stop, During, Hit, Orphaned
<1>3. CASE HandleEvents
  BY <1>3, InStepSame, ReloadInStep DEF HandleEvents, Reload
<1>4. CASE HandleOutcome
  BY <1>4, InStepSame, ReloadInStep, DumpIs DEF HandleOutcome, Reload
<1>5. CASE Spawn
  BY <1>5, InStepSame DEF Spawn, NextRung, Boots
<1>6. CASE EndRun
  BY <1>6, InStepSame DEF EndRun, NextRung, Out, Orphaned, Hit
<1>7. CASE MoveDump
  BY <1>7, InStepSame DEF MoveDump, NextRung, Out, SetOut, Write, Hit
<1>8. CASE LoadDump
  <2>1. CASE managed \in Dump
    BY <1>8, <2>1 DEF LoadDump
  <2>2. CASE managed \notin Dump
    <3>1. root = None /\ root' = None /\ managed' = None
      BY <1>8, <2>2 DEF LoadDump
    <3>2. Resolved' = Stock
      BY <3>1, DumpIs DEF Resolved
    <3> QED
      BY <3>2 DEF InStep
  <2> QED
    BY <1>8, <2>1, <2>2 DEF LoadDump
<1>9. CASE WriteMeta
  BY <1>9 DEF WriteMeta
<1>10. CASE JudgeDirect
  BY <1>10 DEF JudgeDirect, NextRung, Announce
<1>11. CASE JudgeShadow
  BY <1>11 DEF JudgeShadow, Announce, Beats
<1>12. CASE Restore
  BY <1>12, InStepSame, DumpIs DEF Restore, Announce, Hit
<1>13. CASE ChildWrites
  BY <1>13, InStepSame DEF ChildWrites, SetOut, Write
<1>14. CASE ChangeBinary
  BY <1>14, InStepSame DEF ChangeBinary, UserActs, During
<1>15. CASE ChangeAddons
  BY <1>15 DEF ChangeAddons, UserActs, During
<1>16. CASE ChangeRoot
  BY <1>16, InStepSame DEF ChangeRoot, UserActs, During
<1>17. CASE DeleteManaged
  BY <1>17 DEF DeleteManaged, UserActs
<1>18. CASE UNCHANGED vars
  BY <1>18 DEF vars, InStep, Resolved, Served
<1>19. CASE OrphanWrites
  BY <1>19 DEF OrphanWrites, Write
<1> QED
  BY <1>1, <1>2, <1>3, <1>4, <1>5, <1>6, <1>7, <1>8, <1>9, <1>10, <1>11, <1>12, <1>13,
     <1>14, <1>15, <1>16, <1>17, <1>18, <1>19
     DEF Next, Thread, User

(* The ladder, its files and the session, whatever happens.                *)
THEOREM NativeInvariance == Spec => []NativeInv
<1>1. Init => NativeInv
  <2> SUFFICES ASSUME Init PROVE NativeInv
    OBVIOUS
  <2>1. TypeOK /\ ThreadInv
    BY DEF Init, TypeOK, ThreadInv, File
  <2>2. RootInv /\ FreshInv /\ KeepInv
    BY DumpIs
       DEF Init, RootInv, OwnRoot, FreshInv, Current, Described, MetaCurrent, KeepInv,
           LadderInv, Before, Judged
  <2>3. TidyInv /\ LiveInv
    BY ConstantsAssumption DEF Init, TidyInv, LiveInv
  <2> QED
    BY <2>1, <2>2, <2>3 DEF NativeInv
<1>2. NativeInv /\ [Next]_vars => NativeInv'
  BY TypeStep, ThreadStep, RootStep, FreshStep, KeepStep, TidyStep, LiveStep DEF NativeInv
<1> QED
  BY <1>1, <1>2, PTL DEF Spec

(* What the outcome reports is on disk, and no dump of the run misses       *)
(* fewer extensions: unless the losing one could not be removed.            *)
THEOREM AdoptionIsOnDisk == Spec => []AdoptedIsOnDisk
<1>1. NativeInv => AdoptedIsOnDisk
  BY DEF NativeInv, KeepInv, LadderInv, AdoptedIsOnDisk
<1> QED
  BY <1>1, NativeInvariance, PTL

(* A dump served as fresh is what the binary in use makes of the addons in  *)
(* use, through any sequence of dumps, restarts and changes.                *)
THEOREM FreshStaysCurrent == Spec => []FreshIsCurrent
<1>1. NativeInv => FreshIsCurrent
  BY DEF NativeInv, FreshInv, Described, Current, Fresh, FreshIsCurrent
<1> QED
  BY <1>1, NativeInvariance, PTL

(* The ladder takes away what it writes into the project root, unless the   *)
(* session ends during a run, its Godot cannot be waited for, or the dump   *)
(* can neither be moved nor be removed.                                     *)
THEOREM RootStaysTheUsers == Spec => []RootIsTheUsers
<1>1. NativeInv => RootIsTheUsers
  BY DEF NativeInv, RootInv, OwnRoot, RootIsTheUsers
<1> QED
  BY <1>1, NativeInvariance, PTL

(* With its thread, its outcome and its events handled, the session serves  *)
(* what a restart would resolve, or better.                                 *)
THEOREM SessionStaysInStep == Spec => []LiveInStep
<1>1. NativeInv => LiveInStep
  <2> SUFFICES ASSUME NativeInv, up, ~arm, events = {}, Quiet PROVE InStep
    BY DEF LiveInStep, InStep, Quiet
  <2>1. pc = "idle" /\ outcome = None
    BY DEF NativeInv, ThreadInv
  <2> QED
    BY <2>1, DumpIs DEF NativeInv, LiveInv, Pending
<1> QED
  BY <1>1, NativeInvariance, PTL
=============================================================================
