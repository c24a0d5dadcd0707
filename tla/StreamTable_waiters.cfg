CONSTANTS
  IsClient = FALSE
  MaxStreams = 2
  MaxId = 3
  Callers = {c1, c2}
  Plans <- WaitPlans
  c1 = c1
  c2 = c2
SPECIFICATION FairSpec
PROPERTIES
  WaiterServed
CHECK_DEADLOCK FALSE
