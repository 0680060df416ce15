SPECIFICATION MutedSpec
CONSTANTS
  a = a
  b = b
  r1 = r1
  k = k
  none = none
  Accounts <- TwoAccounts
  Requests <- OneTask
  Keepers <- OneKeeper
  NoOne = none
  MaxInflight = 1
  InitialLists <- EmptyOrTwo
  MaxMuteSwitch = 2
INVARIANTS
  MutedTypeOK
  SwitchAvoidsExcluded
PROPERTY EveryChatEnds
