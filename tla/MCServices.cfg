SPECIFICATION ServicesSpec
CONSTANTS
  Binaries = {b1, b2}
  Outdated = {b2}
  Surfaces = {s1, s2}
  MaxMissing = 2
  MaxOps = 1
  MaxSessions = 2
  MaxFaults = 1
  Torn = Torn
  Stock = Stock
  Failed = Failed
  None = None
  Groups = {strict}
  Values = {v1, v2}
  Bad = Bad
  MaxChanges = 2
  MaxIds = 2
  MaxWire = 1
CHECK_DEADLOCK FALSE
INVARIANT AdoptedIsOnDisk
INVARIANT FreshIsCurrent
INVARIANT RootIsTheUsers
INVARIANT LiveInStep
INVARIANT ConfigSettles
INVARIANT ArcsEnd
