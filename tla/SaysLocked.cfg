CONSTANTS
  TxSize = 4
  Commands <- OneAndFour
  RamTexts = {}
  FlashTexts = {}
  MaxOps = 2
  Hasty = TRUE
SPECIFICATION ComTxSpec
INVARIANT SaysLocked
