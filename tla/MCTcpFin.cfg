SPECIFICATION Spec
CONSTANTS
  a = a
  b = b
  Hosts = {a, b}
  Active = {a}
  Passive = {b}
  Users <- BShuts
  ToSend <- ThreeBack
  MaxSeg = 2
  SndHiwat = 2
  RcvHiwat = 2
  RcvMbmax = 4
  Mbuf = 4
  RexmtThresh = 3
  CWnds = {3}
  SeqSpace = 16
  WndSpace = 4
  InitIss <- Iss
  IssIncr = 4
  MaxConns <- Once
  MaxNet = 2
  FaultKinds = {"timer"}
  MaxFaults = 3
  GiveUp = {}
INVARIANTS EofMeansAll
CHECK_DEADLOCK FALSE
