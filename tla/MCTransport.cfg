SPECIFICATION TransportSpec
CONSTANTS
  Conns = {c1, c2, c3}
  Keys = {k1, k2, k3}
  NoConn = NoConn
  NoKey = NoKey
  MaxPeers = 2
SYMMETRY Symmetric
INVARIANTS
  
  WorkCounted
  PeersOwned
  PeersLimited
  DrainJoins
PROPERTIES
  NoLateAdmission
CHECK_DEADLOCK FALSE
