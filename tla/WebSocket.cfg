CONSTANTS
  MaxRetries = 2
  MaxGeneration = 3
  MaxInbox = 2
  PingInterval = 2
  PongTimeout = 3
  Grace = 1
  Slack = 1
SPECIFICATION Spec
INVARIANTS RejectedIsNotReplayed FailureRetires TimeoutIsSilence
PROPERTY ConnectReturns
CHECK_DEADLOCK FALSE
