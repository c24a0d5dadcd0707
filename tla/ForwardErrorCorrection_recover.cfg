SPECIFICATION Spec
CONSTANTS
  Plans <- RecoverPlans
  None = None
INVARIANTS
  TypeOK
  DeliveredIntact
  SingleLossRecovered
  PendingWaits
  BurstRecovered
CHECK_DEADLOCK FALSE
