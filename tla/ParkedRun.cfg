SPECIFICATION Spec
CONSTANTS
  s1 = s1
  s2 = s2
  t1 = t1
  t2 = t2
  r1 = r1
  r2 = r2
  none = none
  Runs <- TwoRuns
  Tools <- TwoTools
  Requests <- TwoRequests
  NoRun = none
  MaxParks = 2
SYMMETRY RequestSymmetry
INVARIANTS
  TypeOK
  DeliveredOnce
  ParkedIsFindable
  AnsweredRunWakes
  NoReaderInVain
