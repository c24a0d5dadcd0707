SPECIFICATION FairSpec
CONSTANTS
  MaxPayload = 1
  ChunkSizes = {1}
  SendInit = 2
  InitCap = 2
  MaxBuf = 2
  InFlightCap = 4
  MaxCumAdvance = 8
  ResetLen = 1
  Lossy = {"wu"}
  Duplicates = FALSE
  AppCalls = {}
  MaxFrames = 3
  PathCap = 3
PROPERTIES
  EventuallyCredit
CHECK_DEADLOCK FALSE
