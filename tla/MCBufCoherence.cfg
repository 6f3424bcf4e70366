SPECIFICATION Spec
CONSTANTS
  p1 = p1
  p2 = p2
  p3 = p3
  Procs = {p1, p2}
  Bufs = {b1, b2, b3}
  Vnodes = {v}
  Blks = {k1, k2}
  Sizes = {z1}
  Tapes = {}
  Ops <- Anything
  MayFail = FALSE
  None = None
SYMMETRY Symmetry
INVARIANTS OneBufferPerBlock GetblkReturnsBlock ReadsAreCurrent NoPanic
