CONSTANTS
  Owner = "A"
  Others = {"B", "C"}
  MaxUsers = 3
  SessionTime = 1
  OwnerFreq = 0
  DefaultFreq = 0
  Freqs = {0}
  Options = {"add_no", "del_no"}
SPECIFICATION SessionsSpec
INVARIANT SaysEntered
