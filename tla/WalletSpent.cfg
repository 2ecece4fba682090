SPECIFICATION Spec
CONSTANTS
  Txs <- MCTxs
  Ins <- MCIns
  Mine <- MCMine
  Stakes = {"stake"}
  MaxReorg = 2
INVARIANTS WalletTypeOK  StakeRefunded
