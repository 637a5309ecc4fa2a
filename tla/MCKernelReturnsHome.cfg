CONSTANTS
  Cores = {0, 1}
  Tasks = {0, 1}
  Boot = Boot
  HandoffOrdered = TRUE
SPECIFICATION FairSpec
PROPERTIES
  ReturnsHome
