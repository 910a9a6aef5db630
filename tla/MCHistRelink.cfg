SPECIFICATION Spec
CONSTANTS
  Year = 6
  Start = 1
  MaxTime = 3
  MaxLen = 2
  MaxFiles = 1
  NamesCap = 3
  QueueCap = 2
  Slots = {"ftp"}
  Faults = {"first"}
  MaxFaults = 1
  MaxRecs = 3
INVARIANTS
  NeverCyclic
