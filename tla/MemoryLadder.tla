---------------------------- MODULE MemoryLadder ----------------------------
(***************************************************************************)
(* The memory-pressure ladder: the sampler's rolling window                *)
(* (crates/gd_server/src/observability.rs), the budget (memory.rs) and the *)
(* event loop's reaction at its liveness tick (server.rs).                 *)
(*                                                                         *)
(* Sizes are numbers of some unit; a cap that overflows saturates in the   *)
(* code and is here the largest size.                                      *)
(***************************************************************************)
EXTENDS Naturals, Sequences, FiniteSetsExt, SequencesExt

CONSTANTS
  MaxSize,     \* bound on resident memory and on the caps
  Window,      \* PRESSURE_WINDOW_SAMPLES
  DefaultCaps, \* the built-in soft and hard cap
  BenchCaps,   \* what bench/budget.toml may say, read at each resolution: caps, or
               \* Unset without a file
  MaxConfigs,  \* bound on the changes of the memory settings
  Unset

Sizes == 0..MaxSize

VARIABLES
  rss,      \* what the operating system would say
  recent,   \* RssSampler::recent, the oldest reading first
  budget,   \* MemoryBudget
  level,    \* ServerState::memory_pressure
  shed,     \* half of the caches was evicted since the level was last Normal
  configs   \* the changes so far

ladderVars == <<rss, recent, budget, level, shed, configs>>

\* A cap that is set replaces the one of the layer below.
Layered(set, under) == IF set = Unset THEN under ELSE set

\* resolve: settings over the bench file over the defaults, cap by cap; a hard
\* cap below the soft one is raised to it.
Resolve(set, file) ==
  LET under == IF file = Unset THEN DefaultCaps ELSE file
      soft  == Layered(set.soft, under.soft)
  IN  [soft |-> soft, hard |-> Max({soft, Layered(set.hard, under.hard)})]

\* Mutant: a session that was at Hard stays there, as its peak would have it.
PressureOfPeak(window) ==
  IF level = "hard" THEN "hard" ELSE
  LET highest == Max(ToSet(window))
  IN  IF highest > budget.hard THEN "hard"
      ELSE IF highest > budget.soft THEN "soft"
      ELSE "normal"

\* pressure: the highest reading of the window decides.
Pressure(window) ==
  LET highest == Max(ToSet(window))
  IN  IF highest > budget.hard THEN "hard"
      ELSE IF highest > budget.soft THEN "soft"
      ELSE "normal"

LadderInit ==
  /\ rss \in Sizes /\ recent = <<rss>>
  /\ \E file \in BenchCaps : budget = Resolve([soft |-> Unset, hard |-> Unset], file)
  /\ level = "normal" /\ shed = FALSE /\ configs = 0

\* record_sample
Sampled == LET window == Append(recent, rss)
           IN  IF Len(window) > Window THEN Tail(window) ELSE window

\* Mutant: a jump to Hard leaves the caches to the Soft rung.
EvictsAtSoft(from, to) == to = "soft"

\* react_to_memory_pressure, at a change of level: half of each cache goes when
\* the level becomes Soft, from either side, and when it jumps to Hard.
Evicts(from, to) == to = "soft" \/ (to = "hard" /\ from = "normal")
React(window) ==
  LET new == Pressure(window)
  IN  /\ level' = new
      /\ shed' = ((new # level /\ Evicts(level, new)) \/ (shed /\ new # "normal"))

\* The tick: a reading, or none when the query fails, then the reaction.
Tick ==
  /\ recent' = Sampled /\ React(recent')
  /\ UNCHANGED <<rss, budget, configs>>
FailedTick ==
  /\ React(recent)
  /\ UNCHANGED <<rss, recent, budget, configs>>

\* The readings at the phases of a session, which nothing reacts to.
Sample ==
  /\ recent' = Sampled
  /\ UNCHANGED <<rss, budget, level, shed, configs>>

\* apply_runtime_config's memory group; the next tick reacts.
Configure ==
  /\ configs < MaxConfigs /\ configs' = configs + 1
  /\ \E soft, hard \in {Unset} \cup Sizes, file \in BenchCaps :
       budget' = Resolve([soft |-> soft, hard |-> hard], file)
  /\ UNCHANGED <<rss, recent, level, shed>>

\* The working set moves.
Breathe ==
  /\ rss' \in Sizes \ {rss}
  /\ UNCHANGED <<recent, budget, level, shed, configs>>

LadderNext == Tick \/ FailedTick \/ Sample \/ Configure \/ Breathe

LadderSpec == LadderInit /\ [][LadderNext]_ladderVars

\* The ticker fires, and the operating system answers now and then.
LadderFairness == WF_ladderVars(Tick)
LadderFairSpec == LadderSpec /\ LadderFairness

(***************************************************************************)
(* Properties.                                                             *)
(***************************************************************************)
\* "A spike ages out" (observability.rs): memory that stays within the soft cap
\* brings the level back to Normal and the refused requests back to service,
\* whatever was read before, however often a query fails.
Recovers ==
  <>[](rss <= budget.soft) => <>[](level = "normal")

\* Requests are refused only by a session that has given up cache entries
\* since its last calm, also when memory jumps over the soft rung, and when the
\* budget is lowered under it.
RefusesLast == level = "hard" => shed
=============================================================================
