SPECIFICATION Spec
CONSTANTS
  Null = Null
  Block = {"blk"}
  Tx <- MCTx
  vtx <- MCVtx
  vin <- MCVin
  nOut <- MCNOut
  Generated = {}
  Nonstandard = {"odd"}
  Flawed = {"bad"}
  Large = {"c"}
  MAX_ORPHAN_TRANSACTIONS = 2
  Coins = {"coin"}
INVARIANTS OrphanTxTypeOK OrphanIndexExact
PROPERTY ReleaseIsComplete
