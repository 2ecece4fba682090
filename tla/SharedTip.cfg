CONSTANTS
  Block = {"g", "a1", "a2", "m"}
  Genesis = "g"
  hashPrevBlock <- MCPrev
  Branch <- MCBranch
  GetBlockTrust <- MCTrust
  Own = {"m"}
  Null = Null
SPECIFICATION Spec
INVARIANT TipSettled
CHECK_DEADLOCK FALSE
