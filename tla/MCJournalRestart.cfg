SPECIFICATION JournalSpec
CONSTANTS
  MaxVersion = 3
  MaxEntries = 2
  MaxFaults = 0
INVARIANT
  RestartAccepted
