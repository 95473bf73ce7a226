SPECIFICATION Spec
CONSTANTS
  Objects <- ObjectsOfMain
  Priority <- PriorityOfMain
  QueueSize <- QueueSizeOfMain
  RxLines = 3
  MaxPending = 1
  MaxMessages = 1
  Burst = FALSE
  Reliable = FALSE
  Registrations = {"CREG_READY", "CREG_SEARCHING"}
  InitCommands = 2
  AtRetries = 1
  Users <- OneUser
  Texts = {"STATUS"}
  MenuOptions = {}
  SessionTime = 1
  MaxFreq = 0
  MaxTimeouts = 2
  Patient = FALSE
CHECK_DEADLOCK FALSE
INVARIANTS TypeOK QueuesHold GuardedWait IdleIsClean OwnTimeouts
