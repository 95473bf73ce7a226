CONSTANTS
  Crossings = 3
  MaxRequests = 3
  MainsStays = FALSE
SPECIFICATION EmonFairSpec
INVARIANT EmonTypeOK
INVARIANT VccFromReference
PROPERTY AnswersOnce
PROPERTY MeasurementEnds
CHECK_DEADLOCK FALSE
