CONSTANTS
  RxSize = 3
  RxTimeout = 2
  UartDepth = 2
  MaxBytes = 6
  Returns = {2, 5}
  BufferSize = 14
  Margin = 4
  Characters = {"CR", "LF", "0", "O", "K", "R", "U", ">", " "}
  Memories <- MCMemories
  Tables <- MCTables
  Pieces <- MCPieces
  MaxPieces = 3
SPECIFICATION ReceiveSpec
\* or SaysFound in its place
INVARIANT SaysFramed
CHECK_DEADLOCK FALSE
