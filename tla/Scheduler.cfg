SPECIFICATION Spec
CONSTANTS
  s1 = s1
  s2 = s2
  n1 = n1
  n2 = n2
  Requests <- AllTasks
  Streaming <- StreamTasks
  Limits <- HotLimits
  QueueLimits <- TwoQueues
  ReloadOnLoop = TRUE
CHECK_DEADLOCK FALSE
INVARIANTS
  TypeOK
  SlotAccounting
  DrainReachesStreams
  IdleVerdictStable
PROPERTIES
  OnlyReloadStrands
  ImplementsSlotPool
  ShutdownEmpties
