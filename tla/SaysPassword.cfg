CONSTANTS
  Chars = {48, 57, 65, 70, 78, 79}
  MaxLength = 5
SPECIFICATION InputSpec
\* or SaysInput in its place
INVARIANT SaysPassword
CHECK_DEADLOCK FALSE
