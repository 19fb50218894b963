SPECIFICATION Spec
CONSTANTS
  g = g
  b1 = b1
  b2 = b2
  b3 = b3
  b4 = b4
  b5 = b5
  Blocks <- MCFive
  Genesis = g
  NoBlock = NoBlock
  Verdicts = {"ok"}
  MaxWork = 1
  MaxMature = 1
  MaxOrphanBlocks = 0
  MaxFailures = 0
INVARIANT TieBreak
SYMMETRY MCSymmetry
