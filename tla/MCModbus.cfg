SPECIFICATION Spec
CONSTANTS
  DiagMax = 2
  Conns = {c1}
  Adus <- MCAdus
  RtuFrames <- MCRtuFrames
  RtuUnit = 1
  WebWrites <- MCWebWrites
  ShellCommands <- MCShellCommands
  WebForms <- MCWebForms
  Hdr = 2
  Body = 1
  MaxAdus = 2
  MaxOps = 3
INVARIANTS
  OutputsFollow
  ServedInOrder
  DeadlineForHalf
PROPERTIES
  WritesExact
  CommandsHeard
