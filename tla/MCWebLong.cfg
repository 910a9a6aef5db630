SPECIFICATION FairSpec
CHECK_DEADLOCK FALSE
CONSTANTS
  Task = {t1}
  Request <- MCRequest
  Frame <- MCLongFrame
  PAYLOAD_MAX = 3
  OutCap = 12
  ShortLen = 1
  IoLen = 3
  RX_BUF = 9
  BODY_MAX = 1
  WS_RBUF = 8
  MaxSent = 3
  MaxConns = 2
INVARIANTS
  OneSession
  ServedInOrder
  FramesExact
  RepliesOnce
PROPERTIES
  TaskComesBack
