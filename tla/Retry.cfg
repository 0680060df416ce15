SPECIFICATION Spec
CONSTANTS
  a = a
  b = b
  r1 = r1
  r2 = r2
  k = k
  none = none
  Accounts <- OneAccount
  Requests <- TwoTasks
  Keepers <- OneKeeper
  NoOne = none
  MaxInflight = 1
  InitialLists <- EmptyOrOne
  RetryLimit = 1
INVARIANTS
  TypeOK
  LeaseAccounting
  OneSessionPerAccount
  SwitchAvoidsExcluded
  AttemptsBounded
PROPERTY EveryRequestEnds
