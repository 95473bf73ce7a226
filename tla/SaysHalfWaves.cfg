CONSTANTS
  Crossings = 3
  MaxRequests = 1
  MainsStays = TRUE
SPECIFICATION EmonSpec
INVARIANT SaysHalfWaves
CHECK_DEADLOCK FALSE
