SPECIFICATION FairSpec
CONSTANTS
  Cfg = {d, c1, c2}
  Defaults = d
  Junk = Junk
  CtrlCap = 2
  MaxRequests = 4
INVARIANTS
  DurableConfig
  DrainedMeansSaved
PROPERTIES
  AckedSaveCommitted
  RegisterSpec
