SPECIFICATION Spec
CONSTANTS
  a = a
  b = b
  r1 = r1
  r2 = r2
  k = k
  none = none
  Accounts <- TwoAccounts
  Requests <- OneTask
  Keepers <- NoTasks
  NoOne = none
  MaxInflight = 1
  InitialLists <- TwoSessions
  RetryLimit = 1
PROPERTY BlocksOwnAccount
