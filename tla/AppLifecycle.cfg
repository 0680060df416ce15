SPECIFICATION Spec
CONSTANTS
  FileCount = 1
  MaxWrites = 2
  UpstreamCount = 2
  Qwen = 2
CHECK_DEADLOCK FALSE
INVARIANTS
  TypeOK
  ModelsTrackInventory
PROPERTIES
  ConfigCatchesUp
  ShutdownEnds
