CONSTANTS
  TxSize = 4
  Commands <- OneAndFour
  RamTexts = {1, 4}
  FlashTexts = {6, 8}
  MaxOps = 3
  Hasty = FALSE
SPECIFICATION ComTxFairSpec
INVARIANT ComTxTypeOK
INVARIANT ComQueueHolds
PROPERTY SentAsWritten
PROPERTY RestWaits
PROPERTY AllGoesOut
