SPECIFICATION FairSpec
CONSTANTS
  Objects <- ObjectsOfMain
  Priority <- PriorityOfMain
  QueueSize <- QueueSizeOfMain
  RxLines = 3
  MaxPending = 1
  MaxMessages = 3
  Burst = TRUE
  Reliable = FALSE
  Registrations <- RegisteredAtOnce
  InitCommands = 1
  AtRetries = 1
  Users <- OneUser
  Texts = {"ON", "OFF"}
  MenuOptions = {}
  SessionTime = 1
  MaxFreq = 0
  MaxTimeouts = 1
  Patient = TRUE
CHECK_DEADLOCK FALSE
PROPERTY PulsesEnd
