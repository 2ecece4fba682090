SPECIFICATION Spec
CONSTANTS
  Threads = {"miner", "mixer"}
  Miners = {"miner"}
  KeyPoolSize = 1
  MaxKeys = 6
  None = None
INVARIANTS KeyPoolTypeOK OneOwner PoolReadable IndexWrittenOnce UsedNotStored
