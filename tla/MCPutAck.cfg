SPECIFICATION PutFairSpec
CONSTANTS
  Targets = {p, q}
  MaxAttempts = 2
  MaxConnects = 1
  MaxFails = 2
  NoDelivery = NoDelivery
INVARIANTS AcceptedStored PendingAreWaiters ExitCoversTargets
 
CHECK_DEADLOCK FALSE
