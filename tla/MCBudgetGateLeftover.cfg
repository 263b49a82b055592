SPECIFICATION Spec
CONSTANTS
  c1 = c1
  c2 = c2
  Mode = "accumulate"
  EnvMin = 1
  EnvMax = 2
  Clients = {}
  Slip = 0
  Fee = 0
  MaxCost = 1
  Approvals = {}
  MaxDays = 3
  MaxCrashes = 0
INVARIANT LeftoverIsDeployable
CHECK_DEADLOCK FALSE
