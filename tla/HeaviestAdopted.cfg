SPECIFICATION FairSpec
CONSTANTS
  Null = Null
  Genesis = "g"
  Block <- MCBlock
  hashPrevBlock <- MCPrev
  Branch <- MCBranch
  GetBlockTrust <- MCTrust
  Valid <- MCBlock
  Suspect = {}
  Checkpoint = {"c", "b2"}
  LastHardened = "c"
  Spork12 <- NoPayee
  Tx <- MCBlock
  vtx <- MCVtx
  vin <- MCVin
  nOut <- MCNOut
  Generated <- MCBlock
  Nonstandard = {}
  Stake <- MCStake
  Refused = {}
  Doubtful = {}
  LittleWork = {}
CHECK_DEADLOCK FALSE
PROPERTY HeaviestAdopted
