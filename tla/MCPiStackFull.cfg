CONSTANTS
  MAX_RESOURCES = 5
  Ceilings = {0, 1, 2, 3, 4}
  NumResources = 5
INIT MCInit
NEXT MCNext
INVARIANTS
  CeilingTracksLocks
