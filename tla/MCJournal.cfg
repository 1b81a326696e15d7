SPECIFICATION JournalSpec
CONSTANTS
  MaxVersion = 3
  MaxEntries = 2
  MaxFaults = 2
INVARIANTS
  
  TruncationCovered
