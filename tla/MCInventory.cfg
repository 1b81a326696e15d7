SPECIFICATION InventoryFairSpec
CONSTANTS
  Keys <- MCKeys
  Workers <- MCWorkers
  KeyBytes <- MCKeyBytes
  Overhead = 2
  BatchSize = 4
  MaxPayload = 5
  MaxBytes = 4
  MaxKeys = 2
  MaxStarts = 3
CHECK_DEADLOCK FALSE
INVARIANTS EntryTended CompleteCovers BudgetKept
 
