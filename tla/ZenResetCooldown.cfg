SPECIFICATION Spec
CONSTANTS
  Requests <- TwoRequests
  Nodes <- SomeNodes
  Pools <- TwoPools
  RetryCount = 1
  MaxChanges = 1
CHECK_DEADLOCK FALSE
PROPERTY CooldownSparesSession
