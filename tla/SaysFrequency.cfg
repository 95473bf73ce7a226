CONSTANTS
  Chars = {48, 49, 50, 53, 57}
  MaxLength = 4
SPECIFICATION InputSpec
\* or SaysTerminated in its place
INVARIANT SaysFrequency
CHECK_DEADLOCK FALSE
