SPECIFICATION FairSpec
CONSTANTS
  Objects <- ObjectsOfMain
  Priority <- PriorityOfMain
  QueueSize <- QueueSizeOfMain
  RxLines = 3
  MaxPending = 2
  MaxMessages = 3
  Burst = TRUE
  Reliable = TRUE
  Registrations <- AnyRegistration
  InitCommands = 1
  AtRetries = 1
  Users <- OneUser
  Texts = {"STATUS", "MENU"}
  MenuOptions = {"set_time", "change_pass", "generic"}
  SessionTime = 2
  MaxFreq = 0
  MaxTimeouts = 0
  Patient = TRUE
CHECK_DEADLOCK FALSE
INVARIANT WaitsServed
INVARIANT SessionsExpire
PROPERTY ReturnsToIdle
