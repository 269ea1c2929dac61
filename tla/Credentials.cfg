SPECIFICATION CredentialsSpec
CONSTANTS
  Callers = {c1, c2}
  MaxRefresh = 3
  MaxAttempt = 2
  RequestTimeout = 10
  LeaseTime = 6
INVARIANTS
  SingleFlight
  ParkedIsOwedNotify
  ReplayUsesNewToken
PROPERTIES
  LeaseSpec
  CallersAreServed
