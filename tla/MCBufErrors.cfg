SPECIFICATION Spec
CONSTANTS
  p1 = p1
  p2 = p2
  p3 = p3
  Procs = {p1, p2}
  Bufs = {b1, b2}
  Vnodes = {v}
  Blks = {k1}
  Sizes = {z1, z2}
  Tapes = {v}
  Ops <- Failing
  MayFail = TRUE
  None = None
SYMMETRY Symmetry
INVARIANTS TypeOK BusyIffNotFree NoLostWakeup OutputCounted
