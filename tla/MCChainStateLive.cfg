SPECIFICATION LiveSpec
CONSTANTS
  g = g
  b1 = b1
  b2 = b2
  b3 = b3
  b4 = b4
  b5 = b5
  Blocks <- MCThree
  Genesis = g
  NoBlock = NoBlock
  Verdicts = {"ok", "check", "checkpoint", "accept", "connect", "corrupt"}
  MaxWork = 1
  MaxMature = 1
  MaxOrphanBlocks = 2
  MaxFailures = 0
PROPERTIES HandlerEnds KeepsPromise
