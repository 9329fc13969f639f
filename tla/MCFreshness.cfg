SPECIFICATION Spec
CONSTANTS
  Paths = {p1, p2}
  Texts = {t1, t2}
  ClientWatches = TRUE
  MaxOps = 2
  MaxOpen = 1
  MaxStarts = 2
  Faults = {"unreadable"}
  None = None
SYMMETRY Symmetry
CHECK_DEADLOCK FALSE
INVARIANT TypeOK
INVARIANT RecordMatchesIndex
INVARIANT OpenBufferWins
INVARIANT StatHonest
INVARIANT CacheHonest
INVARIANT Settled
