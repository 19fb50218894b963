SPECIFICATION Spec
CONSTANTS
  g = g
  a1 = a1
  b1 = b1
  b2 = b2
  None = None
  Blocks <- MCBlocks
  Genesis = g
  hashPrev <- MCPrev
  nHeight <- MCHeight
  MaxFile = 2
  MAX_BLOCKFILE_SIZE = 3
  MaxFaults = 1
  MaxReindex = 1
INVARIANT AppendsOnly
CHECK_DEADLOCK FALSE
