SPECIFICATION ForwardSpec
CONSTANTS
  Year = 3
  Start = 2
  MaxTime = 4
  MaxLen = 2
  MaxFiles = 1
  NamesCap = 3
  QueueCap = 2
  Slots = {"ftp"}
  Faults = {}
  MaxFaults = 2
  MaxRecs = 3
INVARIANTS
  RetentionOldest
