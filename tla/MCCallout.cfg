SPECIFICATION Spec
CONSTANTS
  Funs = {f, g}
  None = None
  NCALLOUT = 3
  MaxDelay = 3
  MaxLate = 2
CHECK_DEADLOCK FALSE
INVARIANTS TypeOK LateFirst DueIsServed TableConserved
PROPERTIES ImplementsTimers
