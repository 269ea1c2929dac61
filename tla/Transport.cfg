SPECIFICATION Spec
CONSTANTS
  OverallTimeout = 6
  MaxRetries = 2
  MaxServerDelay = 2
  Headers <- HeaderValues
INVARIANTS
  BudgetHolds
  NoDoubleSend
PROPERTIES
  ServerMinimumHonoured
  Terminates
