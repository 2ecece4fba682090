SPECIFICATION Spec
CONSTANTS
  Null = Null
  Genesis = "g"
  Block <- MCBlock
  hashPrevBlock <- MCPrev
  Branch <- MCBranch
  GetBlockTrust <- MCTrust
  Valid <- MCValid
  Suspect = {"a2"}
  Checkpoint = {"b1"}
  Spork12 = 2
  Tx <- MCTx
  vtx <- MCVtx
  vin <- MCVin
  nOut <- MCNOut
  Generated <- MCBlock
  Nonstandard = {"v"}
INVARIANTS TypeOK DurableTip LinksOnBestChain IndexOnBestChain SpendsAreMarked
PROPERTIES TipGainsTrust PoolFitsNewBranch ReorganizeKeepsPayments ImplementsChainTip
