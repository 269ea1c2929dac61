SPECIFICATION Spec
CONSTANTS
  Requests = {r1}
  Responders = {}
  Closers = {c1}
  Reader = reader
  Guard = guard
  None = none
  MaxPending = 1
  EventCapacity = 1
  MaxFrames = 0
  CancelTeardown = FALSE
PROPERTIES CloseReapsChild
CHECK_DEADLOCK FALSE
