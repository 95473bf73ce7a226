CONSTANTS
  Owner = "A"
  Others = {"B", "C"}
  MaxUsers = 2
  SessionTime = 1
  OwnerFreq = 1
  DefaultFreq = 1
  Freqs = {0, 1}
  Options = {"add_no", "del_no", "enable_broadcast", "status_freq"}
SPECIFICATION SessionsFairSpec
PROPERTY RightRecipient
PROPERTY BroadcastEnds
