SPECIFICATION RepairSpec
CONSTANTS
  a = a
  b = b
  Nodes = {a, b}
  Source = a
  MaxVersion = 2
  MaxRecords = 1
  MaxStops = 2
  MaxWipes = 1
  MaxFails = 1
INVARIANTS
  NoGaps
  
  BlobsPresent

  
