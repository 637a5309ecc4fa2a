CONSTANTS
  Cores = {0, 1}
  Tasks = {0, 1}
  Boot = Boot
  HandoffOrdered = TRUE
SPECIFICATION MCSpec
INVARIANTS
  TypeOK
  ContextIntegrity
  NoDoubleRun
  CpuMatchesScheduler
  ElectionIsHighestBit
  SaveLoadInverse
  FreshFrameEntersHandler
  NoLostContext
PROPERTIES
  MigrationCompletes
