CONSTANTS
  MAX_TASKS = 4
  Boot = Boot
  Empty = Empty
  Priorities = {1, 2}
  TasksUnprivileged = FALSE
INIT Init
NEXT Next
INVARIANTS
  RTValid
CHECK_DEADLOCK FALSE
