SPECIFICATION Spec
CONSTANTS
  Data = {d1, d2}
  Short = {d2}
  Reliable = {r1}
  Bufs = {b1, b2, b3}
  Burst = 3
  Modes <- BatchModes
  d1 = d1
  d2 = d2
  r1 = r1
  b1 = b1
  b2 = b2
  b3 = b3
  Ctl = Ctl
  None = None
INVARIANTS
  DataIntact
  OneOwner
  RequestKept
  BatchWellFormed
PROPERTIES
  SubmittedUntouched
  NoSendAfterClose
SYMMETRY BufferSymmetry
CHECK_DEADLOCK FALSE
