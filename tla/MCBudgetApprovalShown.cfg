SPECIFICATION Spec
CONSTANTS
  r1 = r1
  r2 = r2
  r3 = r3
  engine = engine
  c1 = c1
  c2 = c2
  Requests = {r1, r2}
  Amount <- Amounts
  Engine = engine
  Clients = {c1}
  Named = {0, 9}
  EnvMin = 1
  EnvMax = 2
  MaxCrashes = 0
INVARIANT ShownIsGranted
