SPECIFICATION Spec
CONSTANTS
  N = 3
  Page = 2
  SlotSize = 5
  Totals = {2, 3}
  MaxDatagram = 3
  MaxFrame = 2
  KeyChunks = 2
  TaskSets = {{"udp", "can"}, {"udp", "ws"}}
  MaxCrc = 4
  MaxFaults = 1
INVARIANTS
  ProgramsErasedOnly
  PendingIntact
  AcceptedExact
  V2InOrder
