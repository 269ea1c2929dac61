SPECIFICATION Spec
SYMMETRY Symmetry
CONSTANTS
  Callers = {c1, c2}
  MaxAttempt = 3
INVARIANTS
  SingleFlight
  HandoverIsCurrent
  FallbackIsCached
  ParkedIsOwedNotify
  ReplayUsesNewToken
PROPERTIES
  LeaseSpec
