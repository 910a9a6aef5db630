SPECIFICATION FairSpec
CONSTANTS
  Web <- MCWeb
  Ftp <- MCFtp
  File = {"f2"}
  Size <- MCSize
  Rests = {0}
  QueueCap = 8
  CtrlCap = 4
  Modes = {"mounted"}
  MaxParts = 1
  MaxNoise = 0
  MaxFaults = 0
  Casts <- WebCasts
PROPERTIES
  DownloadAlwaysEnds
