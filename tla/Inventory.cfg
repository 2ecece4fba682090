SPECIFICATION FairSpec
CONSTANTS
  Peers = {"r", "s", "u"}
  Reliable = {"r", "s"}
  Items = {"tx"}
  Trickled = {"tx"}
  Retry = 2
  MaxInv = 4
INVARIANTS InventoryTypeOK DelayBounded
PROPERTIES ItemArrives ItemSpreads
