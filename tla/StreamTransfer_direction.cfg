SPECIFICATION Spec
CONSTANTS
  MaxPayload = 1
  ChunkSizes = {1}
  SendInit = 3
  InitCap = 2
  MaxBuf = 2
  InFlightCap = 2
  MaxCumAdvance = 8
  ResetLen = 1
  Lossy = {"data", "fin", "reset", "ack", "wu", "stop"}
  Duplicates = TRUE
  AppCalls = {"CloseWrite", "CancelWrite", "CancelRead"}
  MaxFrames = 3
  PathCap = 2
INVARIANTS
  BufferAccounting
  NoAckedLoss
  SafetyInv
  NoStrandedEntry
  CleanEOF
PROPERTIES
  PipeSpec
CHECK_DEADLOCK FALSE
