CONSTANTS
  Word = 8
  Size = 7
  Bytes = {1, 7}
  MaxLen = 4
SPECIFICATION FifoSpec
\* or SaysByte in its place
PROPERTY SaysRemoved
