SPECIFICATION SpecErrors
CONSTANTS
  Plans <- ErrorPlans
  None = None
INVARIANTS
  DeliveredIntact
CHECK_DEADLOCK FALSE
