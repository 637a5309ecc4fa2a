CONSTANTS
  Cores = {0, 1}
  Tasks = {0, 1}
  Boot = Boot
  HandoffOrdered = FALSE
INIT Init
NEXT Next
INVARIANTS
  NoDoubleRun
