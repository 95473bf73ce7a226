CONSTANTS
  TxSize = 4
  Commands <- NoCommands
  RamTexts = {}
  FlashTexts = {6}
  MaxOps = 1
  Hasty = FALSE
SPECIFICATION ComTxSpec
INVARIANT SaysMenu
