SPECIFICATION FairSpec
CONSTANTS
  a = a
  b = b
  Hosts = {a, b}
  Active = {a}
  Passive = {b}
  Users <- Readers
  ToSend <- ThreeBytes
  MaxSeg = 1
  SndHiwat = 2
  RcvHiwat = 2
  RcvMbmax = 4
  Mbuf = 4
  RexmtThresh = 2
  CWnds = {3}
  SeqSpace = 16
  WndSpace = 4
  InitIss <- Iss
  IssIncr = 4
  MaxConns <- Once
  MaxNet = 2
  FaultKinds = {"net", "timer"}
  MaxFaults = 1
  GiveUp = {"REXMT", "KEEP"}
INVARIANTS TypeOK InOrder OneTimer NoStall PromiseKept
PROPERTIES Drains
CHECK_DEADLOCK FALSE
