SPECIFICATION Spec
CONSTANTS
  Null = Null
  Genesis = "g"
  Block <- MCBlock
  hashPrevBlock <- MCPrev
  Branch <- MCBranch
  GetBlockTrust <- MCTrust
  Valid <- MCBlock
  Suspect = {}
  Checkpoint = {}
  Spork12 = 2
  Tx <- MCTx
  vtx <- MCVtx
  vin <- MCVin
  nOut <- MCNOut
  Generated <- MCBlock
  Nonstandard = {}
INVARIANT NoDoubleSpend
