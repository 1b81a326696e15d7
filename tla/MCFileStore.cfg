SPECIFICATION StoreSpec
CONSTANTS
  k1 = k1
  k2 = k2
  v1 = v1
  v2 = v2
  h1 = h1
  Clients = {c1, c2}
  Handles = {h1}
  HandleOf <- OneHandle
  Keys = {k1, k2}
  ContentOf <- KeyContents
  Addressed = {k1}
  Nobody = Nobody
  MaxWrites = 3
SYMMETRY Symmetric
INVARIANTS
  ChangesSurvive
  IndexExact
  ReadsSound
