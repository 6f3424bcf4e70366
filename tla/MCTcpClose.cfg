SPECIFICATION FairSpec
CONSTANTS
  a = a
  b = b
  Hosts = {a, b}
  Active = {a}
  Passive = {b}
  Users <- HalfClose
  ToSend <- TwoBytes
  MaxSeg = 1
  SndHiwat = 2
  RcvHiwat = 2
  RcvMbmax = 4
  Mbuf = 4
  RexmtThresh = 2
  CWnds = {3}
  SeqSpace = 16
  WndSpace = 4
  InitIss <- Iss
  IssIncr = 4
  MaxConns <- Twice
  MaxNet = 2
  FaultKinds = {"net", "timer"}
  MaxFaults = 1
  GiveUp = {}
INVARIANTS EofMeansAll AckedArrived Matched FinAcked
PROPERTIES Reaped
CHECK_DEADLOCK FALSE
