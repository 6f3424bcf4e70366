SPECIFICATION Spec
CONSTANTS
  NFILE = 4
  MaxFds = 2
  MaxRights = 2
  None = None
INVARIANTS KeepsReachable
PROPERTIES CollectsGarbage
CHECK_DEADLOCK FALSE
