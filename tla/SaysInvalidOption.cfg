CONSTANTS
  Chars = {48, 49, 50, 53, 56, 57, 65, 66}
  MaxLength = 5
SPECIFICATION InputSpec
INVARIANT SaysInvalidOption
CHECK_DEADLOCK FALSE
