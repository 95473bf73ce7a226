SPECIFICATION Spec
CONSTANTS
  Objects <- ObjectsOfMain
  Priority <- PriorityOfMain
  QueueSize <- QueueSizeOfMain
  RxLines = 3
  MaxPending = 1
  MaxMessages = 1
  Burst = TRUE
  Reliable = TRUE
  Registrations <- RegisteredAtOnce
  InitCommands = 1
  AtRetries = 1
  Users <- OneUser
  Texts = {"STATUS"}
  MenuOptions = {}
  SessionTime = 1
  MaxFreq = 0
  MaxTimeouts = 0
  Patient = FALSE
CHECK_DEADLOCK FALSE
INVARIANT AllMeasured
