SPECIFICATION FairSpec
CONSTANTS
  p1 = p1
  p2 = p2
  p3 = p3
  Procs = {p1, p2, p3}
  Bufs = {b1, b2}
  Vnodes = {v, dev}
  Blks = {k1}
  Sizes = {z1}
  Tapes = {}
  Ops <- Roles
  MayFail = FALSE
  None = None
INVARIANTS NoLostWrite ListsAgree
PROPERTIES SleepersWake
