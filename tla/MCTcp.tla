-------------------------------- MODULE MCTcp --------------------------------
(***************************************************************************)
(* Two hosts: a connects to b, which listens.                              *)
(***************************************************************************)
EXTENDS Tcp, TLC

CONSTANTS a, b

\* Bytes each user has to send.
TwoBytes == (a :> 2) @@ (b :> 0)
ThreeBytes == (a :> 3) @@ (b :> 0)
ThreeBack == (a :> 1) @@ (b :> 3)

\* What the users do.
HalfClose == (a :> {"shutdown"}) @@ (b :> {"recv", "close"})
Readers == (a :> {"keepalive"}) @@ (b :> {"recv", "keepalive"})
Closers == [h \in Hosts |-> {"recv", "close"}]
BShuts == (a :> {}) @@ (b :> {"shutdown"})

\* Connections: b may answer a second SYN.
Once == (a :> 1) @@ (b :> 1)
Twice == (a :> 1) @@ (b :> 2)

\* The sequence numbers of a wrap.
Iss == (a :> 14) @@ (b :> 0)
=============================================================================
