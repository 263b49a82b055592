SPECIFICATION Spec
CONSTANTS
  s1 = s1
  b1 = b1
  b2 = b2
  x1 = x1
  Symbols = {s1}
  BuyOrders = {b1, b2}
  SellOrders = {x1}
  SymOf <- OneSymbol
  MaxQty = 1
  Cap = 2
  HaltAfter = 2
  MaxCrashes = 0
  MaxTimeouts = 0
  MaxDups = 0
  MaxPanics = 1
PROPERTY PanicFlattens
CHECK_DEADLOCK FALSE
