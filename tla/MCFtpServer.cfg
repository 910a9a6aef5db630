SPECIFICATION FairSpec
CONSTANTS
  s1 = s1
  s2 = s2
  Slot = {s1, s2}
  Commands <- MCCommands
  Pipelined = {s2}
  MaxLines = 1
  Content <- MCContent
  BUF = 2
  WINDOW = 1
  HOLD = 1
  POLL = 1
  PAUSE = 1
INVARIANTS
  BusyExact
  RejectWindow
  DataOnce
  OneShot
  UploadExact
PROPERTIES
  SlotFreed
