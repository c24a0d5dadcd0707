SPECIFICATION Spec
CONSTANTS
  Conns = {s1, s2}
  Addrs = {a1}
  AcceptCap = 1
  maxMissedPongs = 1
  None = None
INVARIANTS
  TypeOK
  NoDeadEntry
  SoleSocket
  NoLateWorker
  AllClosed
PROPERTIES
  CloseReturns
  ListenerStops
  GoneCollected
CHECK_DEADLOCK FALSE
