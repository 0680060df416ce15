SPECIFICATION Spec
CONSTANTS
  a = a
  b = b
  s1 = s1
  s2 = s2
  Accounts <- TwoAccounts
  Savers <- TwoSavers
  NoSaver = none
SYMMETRY Symmetry
INVARIANTS
  TypeOK
  BlocksOnFile
  MemoryKnowsDisk
