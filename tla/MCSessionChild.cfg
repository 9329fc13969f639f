SPECIFICATION ThreadFairSpec
CONSTANTS
  Requests = {q1, q2}
  Docs = {d1}
  Failures = {spawn}
  MaxMutations = 1
  MaxQueue = 2
  None = None
CHECK_DEADLOCK FALSE
PROPERTY TrippedFormatEnds
