CONSTANTS
  Tasks = {0, 1, 2, 3}
  Boot = Boot
  Empty = Empty
INIT Init
NEXT Next
PROPERTIES
  PreemptionRule
