SPECIFICATION Spec
CONSTANTS
  Procs = {p1, p2}
  Targets = {p1}
  f = f
  g = g
  Bufs = {f, g}
  Wants <- BothOrBad
  Intervals = {4}
  TickUnits = 2
  CollSpace = 3
  None = None
INVARIANTS NotAsleepOnReady TimeoutEndsSleep
