SPECIFICATION LivenessSpec
CONSTANTS
  Binaries = {b1}
  Outdated = {}
  Surfaces = {s1}
  MaxMissing = 1
  MaxOps = 0
  MaxSessions = 2
  MaxFaults = 1
  Torn = Torn
  Stock = Stock
  Failed = Failed
  None = None
  Requests = {q1, q2}
  Docs = {d1}
  Failures = {spawn}
  MaxMutations = 1
  MaxQueue = 1
  Paths = {p1}
  Texts = {t1, t2}
  MaxOpen = 1
  Changes = 2
  Starts = 2
  MaxSize = 3
  Window = 3
  MaxConfigs = 1
  DefaultCaps <- MCDefaultCaps
  BenchCaps <- MCBenchCaps
  Unset = Unset
CHECK_DEADLOCK FALSE
INVARIANT RefusesLast
PROPERTY EveryRequestAnswered
PROPERTY EventuallyInStep
PROPERTY DumpReports
PROPERTY Recovers
