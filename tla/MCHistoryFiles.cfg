SPECIFICATION Spec
CONSTANTS
  Year = 3
  Start = 1
  MaxTime = 2
  MaxLen = 2
  MaxFiles = 1
  NamesCap = 3
  QueueCap = 2
  Slots = {"ftp"}
  Faults = {"write", "close", "sync", "find", "reopen", "first", "create", "newfirst", "list", "remove",
            "slotclose", "power"}
  MaxFaults = 2
  MaxRecs = 3
INVARIANTS
  NoRelink
  SyncedKept
PROPERTIES
  RetentionNewest
  FlushSurvivesReset
