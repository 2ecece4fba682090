SPECIFICATION FairSpec
CONSTANTS
  Nodes = {"a","b"}
  Links <- MCLinks
  Signers = {"a","b"}
  Values = {"on"}
  Times = {1, 2}
  Padding <- MCPadding
  MaxUpdates = 2
  MaxBreaks = 1
  None = None
INVARIANTS SporkTypeOK AnnouncedIsServed
PROPERTY SporksConverge
