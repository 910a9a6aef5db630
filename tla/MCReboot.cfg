CHECK_DEADLOCK FALSE
SPECIFICATION Spec
CONSTANTS
  Wrap = 16
  Word = 64
  Beat = 2
  SecBeats = 2
  Cold = 2
  Grace = 5
  WebDelay = 3
  CanDrain = 2
  CanFlush = 4
  Window = 4
  Late = 1
  MaxReqs = 3
  MaxTime = 33
INVARIANTS
  RebootInTime
  EpochKeepsPace
PROPERTIES
  NoEarlyReset
  FactoryTwoStep
