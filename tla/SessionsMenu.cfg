CONSTANTS
  Owner = "A"
  Others = {"B", "C"}
  MaxUsers = 3
  SessionTime = 2
  OwnerFreq = 0
  DefaultFreq = 0
  Freqs = {0}
  Options = {"add_no", "del_no"}
SPECIFICATION SessionsFairSpec
INVARIANT SessionsTypeOK
INVARIANT SessionTimed
INVARIANT InputHasOption
PROPERTY SessionsAge
