SPECIFICATION Spec
CONSTANTS
  g = g
  b1 = b1
  b2 = b2
  b3 = b3
  cg = cg
  c1 = c1
  c2 = c2
  c3 = c3
  t1 = t1
  t2 = t2
  t3 = t3
  t4 = t4
  Blocks <- MCBlocks
  Genesis = g
  hashPrev <- MCPrev
  nHeight <- MCHeight
  Txs <- MCTxs
  CoinBases <- MCCoinBases
  Prevouts <- MCPrevouts
  Outputs <- MCOutputs
  Contents <- MCContents
  NoCoins = NoCoins
  COINBASE_MATURITY = 1
  MaxCrashes = 1
INVARIANTS TypeOK CoinsAreLedger DatabaseIsLedger RulesEnforced
PROPERTY UndoComplete
