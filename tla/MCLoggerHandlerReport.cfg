CONSTANTS
  CAPACITY = 2
  Kinds = {K1, K2}
  MaxTime = 2
  HandlerReports = TRUE
INIT Init
NEXT Next
INVARIANTS
  NoBorrowPanic
