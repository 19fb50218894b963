SPECIFICATION Spec
CONSTANTS
  g = g
  b1 = b1
  b2 = b2
  b3 = b3
  b4 = b4
  b5 = b5
  Blocks <- MCFour
  Genesis = g
  NoBlock = NoBlock
  Verdicts = {"ok", "connect", "corrupt"}
  MaxWork = 1
  MaxMature = 1
  MaxOrphanBlocks = 1
  MaxFailures = 1
INVARIANTS TypeOK BestValidTip ActiveChainValid FailedMarksRight CandidatesRight OrphansDetached TipMovesForReason
SYMMETRY MCSymmetryFour
CHECK_DEADLOCK FALSE
