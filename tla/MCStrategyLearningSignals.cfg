SPECIFICATION Spec
CONSTANTS
  a = a
  g = g
  r1 = r1
  r2 = r2
  Strategies <- MCBoth
  Core <- MCCore
  Rules <- MCNobody
  Passes <- MCPasses
  Loop = "loop"
  MinSignals = 1
  MinTrades = 1
  LossLimit = 1
  MinClosed = 1
  FirstSamples = 1
  MinSamples = 2
  LossSamples = 1
  SeedLimit = 1
  KeepRules = 2
  MinAge = 1
  MaxClosed = 0
  MaxNow = 2
INVARIANTS LearnsFromEverySignal
CHECK_DEADLOCK FALSE
