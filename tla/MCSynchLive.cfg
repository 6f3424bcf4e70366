SPECIFICATION FairSpec
CONSTANTS
  Procs = {p1, p2}
  Chans = {c}
  Sigs = {"KILL"}
  Orphans = {}
  Sleeps <- Interruptible
  Handled = {}
  Masked = {}
  None = None
INVARIANTS QueuesAgree SignalsInterrupt
PROPERTIES ZeroMeansAwoken KillIsFatal TimedSleepEnds
CHECK_DEADLOCK FALSE
