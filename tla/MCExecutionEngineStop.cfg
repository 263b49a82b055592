SPECIFICATION FairSpec
CONSTANTS
  s1 = s1
  s2 = s2
  etf = etf
  fast = fast
  guard = guard
  combiner = combiner
  Stocks = {s1}
  Etf = etf
  Entrants = {fast}
  Fast = fast
  Guard = guard
  Combiner = combiner
  MaxPositions = 1
  MaxBus = 1
PROPERTY StopLossActs
