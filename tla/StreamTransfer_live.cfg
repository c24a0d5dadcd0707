SPECIFICATION FairSpec
CONSTANTS
  MaxPayload = 1
  ChunkSizes = {1}
  SendInit = 2
  InitCap = 2
  MaxBuf = 2
  InFlightCap = 4
  MaxCumAdvance = 8
  ResetLen = 1
  Lossy = {"data", "fin", "ack", "wu"}
  Duplicates = FALSE
  AppCalls = {"CloseWrite"}
  MaxFrames = 2
  PathCap = 2
PROPERTIES
  EventuallyDelivered
  EventuallyClosed
CHECK_DEADLOCK FALSE
