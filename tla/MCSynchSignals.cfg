SPECIFICATION Spec
CONSTANTS
  Procs = {p1}
  Chans = {c1, c2}
  Sigs = {"INT", "TSTP", "STOP", "CONT", "KILL"}
  Orphans = {p1}
  Sleeps <- AnySleep
  Handled = {"INT", "TSTP", "CONT"}
  Masked = {"INT", "STOP"}
  None = None
SYMMETRY Symmetry
INVARIANTS TypeOK WakeupNotLost NoStaleTimer SleepArmed
CHECK_DEADLOCK FALSE
