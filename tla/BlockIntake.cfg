SPECIFICATION IntakeSpec
CONSTANTS
  Null = Null
  Genesis = "g"
  Block <- MCBlock
  hashPrevBlock <- MCPrev
  Branch <- MCBranch
  GetBlockTrust <- MCTrust
  Valid <- MCBlock
  Suspect = {"a1"}
  Checkpoint = {"c", "a1", "b2"}
  LastHardened = "c"
  Spork12 = 1
  Tx <- MCBlock
  vtx <- MCVtx
  vin <- MCVin
  nOut <- MCNOut
  Generated <- MCBlock
  Nonstandard = {}
  Stake <- MCStake
  Refused = {}
  Doubtful = {"b2"}
  LittleWork = {"a2"}
INVARIANTS IntakeTypeOK OrphansWait OrphanStakesHeld
PROPERTIES CheckpointAdvances TipKeepsCheckpoint
