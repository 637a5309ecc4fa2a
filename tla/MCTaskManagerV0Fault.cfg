CONSTANTS
  MAX_TASKS = 4
  Boot = Boot
  Empty = Empty
  Priorities = {1, 2, 3}
  TasksUnprivileged = TRUE
INIT Init
NEXT Next
INVARIANTS
  NoHardFault
CHECK_DEADLOCK FALSE
