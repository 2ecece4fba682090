SPECIFICATION FairSpec
CONSTANTS
  Nodes = {"o", "a"}
  Links <- MCLinks
  Owner = "o"
  MinDsee = 1
  MinDseep = 1
  Expiration = 4
  Removal = 5
  DsegAgain = 1
  Drift = 1
  Skews = {0, 1}
  MaxRegister = 2
  MaxFaults = 2
  None = None
INVARIANTS MasternodeTypeOK SeenSincePing
PROPERTIES RunningIsListed GoneIsDropped
