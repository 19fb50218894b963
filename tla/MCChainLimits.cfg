SPECIFICATION Spec
CONSTANTS
  Sizes <- MCSizes
  GenesisSize = 10
  MIN_MAX_BLOCK_SIZE = 10
  MAX_BLOCK_SIZE_RECALC_PERIOD = 5
  UINT_RANGE = 120
  MaxHeight = 10
INVARIANTS LimitsOfChain GrowthJustified
