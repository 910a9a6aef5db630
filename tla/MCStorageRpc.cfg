SPECIFICATION FairSpec
CONSTANTS
  Web <- MCWeb
  Ftp <- MCFtp
  File = {"f2"}
  Size <- MCSize
  Rests = {0, 3}
  QueueCap = 8
  CtrlCap = 4
  Modes = {"mounted", "degraded"}
  MaxParts = 1
  MaxNoise = 1
  MaxFaults = 1
  Casts <- MCCasts
INVARIANTS
  NoFalseWake
  RetrHonest
  UploadHonest
  DownloadExact
PROPERTIES
  RpcAnswered
  DownloadEnds
