SPECIFICATION Spec
CONSTANTS
  Requests = {q1, q2, q3}
  Docs = {d1}
  Failures = {spawn}
  MaxMutations = 1
  MaxQueue = 2
  None = None
SYMMETRY Symmetry
CHECK_DEADLOCK FALSE
INVARIANT TypeOK
INVARIANT CurrentResults
INVARIANT NoPartialAnswer
INVARIANT RegistryExact
INVARIANT OneLiveFormat
INVARIANT ShutdownTripsFormats
PROPERTY ImplementsContract
