SPECIFICATION Spec
CONSTANTS
  NFILE = 4
  MaxFds = 2
  MaxRights = 2
  None = None
INVARIANTS NoPanic
CHECK_DEADLOCK FALSE
