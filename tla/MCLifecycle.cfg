SPECIFICATION LifecycleSpec
CONSTANTS
  a = a
  b = b
  c = c
  x = x
  y = y
  Nodes = {a, b, c}
  Source = a
  LogicalKeys = {x, y}
  Compactors = {a}
  MemberSets <- MCMemberSets
  MaxPeers = 2
  MaxRecords = 2
  MaxVersion = 2
  MaxConns = 4
  MaxStops = 1
  MaxWipes = 1
SYMMETRY MCSymmetry
INVARIANTS
  PassesOnHistory
  
PROPERTIES
  ImplementsReplication
  
CHECK_DEADLOCK FALSE
