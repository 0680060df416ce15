SPECIFICATION Spec
CONSTANTS
  Requests <- ThreeRequests
  RetryLimit = 1
  MaxCrashes = 1
CHECK_DEADLOCK FALSE
INVARIANTS
  TypeOK
  ServedIsForgotten
PROPERTIES
  BlockedPathIsLeft
