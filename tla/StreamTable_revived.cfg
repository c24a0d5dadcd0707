CONSTANTS
  IsClient = TRUE
  MaxStreams = 1
  MaxId = 2
  Callers = {c1}
  Plans <- TablePlans
  c1 = c1
SPECIFICATION Spec
INVARIANTS
  NeverRevived
CHECK_DEADLOCK FALSE
