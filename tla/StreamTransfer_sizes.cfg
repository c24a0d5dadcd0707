SPECIFICATION Spec
CONSTANTS
  MaxPayload = 3
  ChunkSizes = {1, 3}
  SendInit = 6
  InitCap = 6
  MaxBuf = 8
  InFlightCap = 9
  MaxCumAdvance = 8
  ResetLen = 1
  Lossy = {"data", "fin", "reset", "ack", "wu", "stop"}
  Duplicates = FALSE
  AppCalls = {}
  MaxFrames = 3
  PathCap = 2
INVARIANTS
  CreditInv
  InOrderFits
  DrainedWindowOpen
  InFlightAccounting
  DeliveredInOrder
CHECK_DEADLOCK FALSE
