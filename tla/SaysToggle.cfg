SPECIFICATION FairSpec
CONSTANTS
  Objects <- ObjectsOfMain
  Priority <- PriorityOfMain
  QueueSize <- QueueSizeOfMain
  RxLines = 3
  MaxPending = 1
  MaxMessages = 0
  Burst = TRUE
  Reliable = FALSE
  Registrations <- RegisteredAtOnce
  InitCommands = 1
  AtRetries = 1
  Users <- OneUser
  Texts = {"STATUS"}
  MenuOptions = {}
  SessionTime = 1
  MaxFreq = 0
  MaxTimeouts = 2
  Patient = FALSE
CHECK_DEADLOCK FALSE
PROPERTY TogglesAgain
