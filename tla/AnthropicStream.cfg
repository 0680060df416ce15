SPECIFICATION Spec
CONSTANTS
  MaxCalls = 3
  MaxBlocks = 4
CHECK_DEADLOCK FALSE
INVARIANTS
  TypeOK
  BlocksDoNotOverlap
  AllStoppedAtEnd
  EachCallOnce
