SPECIFICATION Spec
CONSTANTS
  Callers = {c1, c2}
  Procs = {p1, p2}
  MaxIssued = 3
INVARIANTS
  ReplayUsesOtherSession
  UsedIsDurable
  StoreIsLive
SYMMETRY Symmetry
