CONSTANTS
  Word = 8
  Size = 4
  Bytes = {1, 7}
  MaxLen = 3
  Chars = {32, 48, 49, 50, 53, 57, 68, 69, 73, 78, 79, 110}
  MaxLength = 4
SPECIFICATION LibrariesSpec
INVARIANT FrequencyRead
PROPERTY QueueKept
CHECK_DEADLOCK FALSE
