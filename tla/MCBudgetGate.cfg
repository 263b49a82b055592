SPECIFICATION Spec
CONSTANTS
  c1 = c1
  c2 = c2
  Mode = "accumulate"
  EnvMin = 1
  EnvMax = 2
  Clients = {c1, c2}
  Slip = 1
  Fee = 1
  MaxCost = 2
  Approvals = {3}
  MaxDays = 2
  MaxCrashes = 1
INVARIANT EngineKeepsCap
INVARIANT OverspendBounded
INVARIANT OncePerDay
INVARIANT BudgetInv
SYMMETRY Interchangeable
