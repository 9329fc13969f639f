SPECIFICATION Spec
CONSTANTS
  Paths = {p1}
  Texts = {t1, t2}
  ClientWatches = FALSE
  MaxOps = 3
  MaxOpen = 1
  MaxStarts = 1
  Faults = {"race"}
  None = None
CHECK_DEADLOCK FALSE
INVARIANT Settled
