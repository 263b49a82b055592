SPECIFICATION SupervisorSpec
CONSTANTS
  p1 = p1
  p2 = p2
  p3 = p3
  None = None
  Pids <- MCPids
  MaxFaults = 3
  MaxHangs = 1
INVARIANTS OneEngine
PROPERTIES HealthyIsLeftAlone StackComesBack
