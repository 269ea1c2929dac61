CONSTANTS
  Timeout = 3
  Delivery = 2
  Budget = 6
  Intervals = {0, 1, 5}
  Hints = {0, 2, 5}
  Fallback = 1
  RoundTrip = 1
  Cursors = {a, b, c}
  NoCursor = none
SPECIFICATION Spec
INVARIANTS DispatchReturnsInTime AnswerIsKept PeerIsTold PollKeepsDeadline
PROPERTIES CancelIsPrompt TasksReturn
CHECK_DEADLOCK FALSE
