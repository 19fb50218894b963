SPECIFICATION Spec
CONSTANTS
  cg = cg
  c1 = c1
  c2 = c2
  ta = ta
  tb = tb
  tc = tc
  td = td
  te = te
  p1 = p1
  p2 = p2
  CoinBases <- MCCoinBases
  Payments <- MCPaymentsMost
  Prevouts <- MCPrevouts
  Outputs <- MCOutputs
  Policies <- MCPolicies
  Peers <- MCPeers
  GenesisCoinBase = cg
  COINBASE_MATURITY = 1
  MaxOrphanTx = 2
  MaxHeight = 2
  MaxBlockTxs = 2
SYMMETRY MCSymmetry
INVARIANTS SpendsIndexed InputsAvailable NoneConfirmed OrphansIndexed
PROPERTIES NothingLost LeavesForBlock
