CONSTANTS
  MaxRetries = 0
  MaxGeneration = 2
  MaxInbox = 1
  PingInterval = 2
  PongTimeout = 2
  Grace = 0
  Slack = 0
SPECIFICATION Spec
PROPERTY DeadPeerIsReported
CHECK_DEADLOCK FALSE
