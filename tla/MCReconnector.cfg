SPECIFICATION ReconnectFairSpec
CONSTANTS
  c1 = c1
  c2 = c2
  c3 = c3
  k1 = k1
  k2 = k2
  Conns = {c1, c2, c3}
  Keys = {k1, k2}
  Targets = {k1}
  NoConn = NoConn
  NoKey = NoKey
  MaxPeers = 0
  MaxInbound = 1
INVARIANTS
  TargetTended
  OneAttempt
PROPERTIES
  Redialled Quiesces
CHECK_DEADLOCK FALSE
