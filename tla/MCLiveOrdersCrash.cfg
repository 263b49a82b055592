SPECIFICATION FairSpec
CONSTANTS
  s1 = s1
  b1 = b1
  b2 = b2
  x1 = x1
  Symbols = {s1}
  BuyOrders = {b1}
  SellOrders = {x1}
  SymOf <- OneSymbol
  MaxQty = 2
  Cap = 2
  HaltAfter = 2
  MaxCrashes = 1
  MaxTimeouts = 1
  MaxDups = 1
  MaxPanics = 1
INVARIANT CommitPrefix
INVARIANT NoEarlyFill
INVARIANT IInv
INVARIANT HaltLetsOneThrough
PROPERTY SettlesAsPromised
PROPERTY BooksConverge
PROPERTY ShortLeadsToHalt
