CONSTANTS
  CAPACITY = 2
  Kinds = {K1, K2}
  MaxTime = 2
  HandlerReports = TRUE
SPECIFICATION Spec
PROPERTIES
  Refines
CHECK_DEADLOCK FALSE
