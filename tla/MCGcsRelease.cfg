SPECIFICATION Spec
CONSTANTS
  Callers = {c1, c2}
  Versions = {v1}
  Latest = latest
  None = None
  MaxCalls = 3
  MaxFaults = 1
  MaxDeaths = 1
  Chunk = {1, 2, 3}
  Sources <- MCSources
  MaxPacks = 1
SYMMETRY SymmetricCallers
INVARIANTS UploadIsAllOrNothing DownloadsAreOneUpload
PROPERTY DeleteFreesVersion
CHECK_DEADLOCK FALSE
