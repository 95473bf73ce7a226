SPECIFICATION Spec
CONSTANTS
  Objects <- ObjectsOfMain
  Priority <- PriorityOfMain
  QueueSize <- QueueSizeOfMain
  RxLines = 3
  MaxPending = 1
  MaxMessages = 2
  Burst = TRUE
  Reliable = TRUE
  Registrations <- RegisteredAtOnce
  InitCommands = 1
  AtRetries = 1
  Users <- TwoUsers
  Texts = {"ON", "OFF"}
  MenuOptions = {}
  SessionTime = 1
  MaxFreq = 1
  MaxTimeouts = 0
  Patient = FALSE
CHECK_DEADLOCK FALSE
INVARIANT OwnAnswers
INVARIANT RelaySafe
PROPERTY NoticesKept
