SPECIFICATION Spec
CONSTANTS
  x = x
  y = y
  t1 = t1
  t2 = t2
  Symbols <- MCSymbols
  Threads <- MCThreads
  Start = 1
  MaxOrder = 1
  MaxLots = 2
  MaxHalts = 1
INVARIANTS RowsLotsAndTradesAgree TradesExplainCash OverdraftBounded SalesOfCleanRowsSucceed
CHECK_DEADLOCK FALSE
SYMMETRY Symmetry
