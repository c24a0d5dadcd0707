CONSTANTS
  IsClient = TRUE
  MaxStreams = 1
  MaxId = 2
  Callers = {c1}
  Plans <- TablePlans
  c1 = c1
SPECIFICATION FairCloseSpec
INVARIANTS
  TypeOK
  
  UsableInTable
  OwnLivesOnce
  ReleasedByClose
PROPERTIES
  CloseReleasesAll
  FinishedCollected
CHECK_DEADLOCK FALSE
