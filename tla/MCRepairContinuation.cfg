SPECIFICATION ContinuationFairSpec
CONSTANTS
  p = p
  q = q
  Peers = {p, q}
  Unreliable = {q}
  Keys = {1, 2, 3, 4, 5}
  Size <- MCSize
  Budget = 1
  MaxKeys = 3
  MaxOps = 3
  MaxAttempts = 1
  Requests <- MCRequests
INVARIANTS
  OneContinuation
  SlotsConserved
  KeysAccounted
PROPERTIES
  HealthyServed
  ShutdownDrains
CHECK_DEADLOCK FALSE
