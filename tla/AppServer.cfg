SPECIFICATION Spec
CONSTANTS
  Requests = {r1, r2}
  Responders = {}
  Closers = {c1}
  Reader = reader
  Guard = guard
  None = none
  MaxPending = 1
  EventCapacity = 1
  MaxFrames = 2
  CancelTeardown = TRUE
SYMMETRY Symmetry
INVARIANTS FramingHolds SlotsAreReturned NoAbandonedWaiter
CHECK_DEADLOCK FALSE
