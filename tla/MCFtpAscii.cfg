SPECIFICATION Spec
CONSTANTS
  s1 = s1
  s2 = s2
  Slot = {s1}
  Commands <- MCUploadOnly
  Pipelined = {}
  MaxLines = 1
  Content <- MCContent
  BUF = 2
  WINDOW = 1
  HOLD = 1
  POLL = 1
  PAUSE = 1
INVARIANTS
  AsciiUpload
