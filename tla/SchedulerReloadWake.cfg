SPECIFICATION Spec
CONSTANTS
  s1 = s1
  s2 = s2
  n1 = n1
  n2 = n2
  Requests <- ThreeTasks
  Streaming <- StreamTasks
  Limits <- RaisedLimits
  QueueLimits <- OneQueue
  ReloadOnLoop = FALSE
CHECK_DEADLOCK FALSE
INVARIANT NoSleepBesideFreeSlot
