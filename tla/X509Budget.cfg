SPECIFICATION LaneSpec
CONSTANTS
  RequestTimeout = 10
  LeaseTime = 6
INVARIANTS
  RequestKeepsBudget
