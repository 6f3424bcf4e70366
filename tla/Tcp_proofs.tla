----------------------------- MODULE Tcp_proofs -----------------------------
(***************************************************************************)
(* Tcp.tla for every size of windows, buffers, segments and sequence       *)
(* space, and every loss, copy and order of the segments: the              *)
(* retransmission and the persist timer of a connection never run          *)
(* together.  Every handler of the model maps a tcpcb to a tcpcb, so there *)
(* is one lemma per handler, each from the handlers it calls; all of them  *)
(* end in tcp_output(), whose passes are taken one by one.                 *)
(***************************************************************************)
EXTENDS Tcp, WellFoundedInduction, TLAPS

(* A set of numbers has a least one: induction, for a set.                 *)
LEMMA LeastNumber ==
  ASSUME NEW T, T \subseteq Nat, T # {}
  PROVE  \E x \in T : \A y \in T : x <= y
<1> DEFINE R == {ss \in Nat \X Nat : ss[1] < ss[2]}
<1>1. IsWellFoundedOn(R, Nat)
  BY NatLessThanWellFounded, Zenon DEF OpToRel
<1>2. PICK x \in T : \A y \in T : ~(<<y, x>> \in R)
  BY <1>1, WFMin, Zenon
<1>3. \A u, v \in Nat : v < u => <<v, u>> \in R
  OBVIOUS
<1>4. \A y \in T : ~(y < x)
  BY <1>2, <1>3, Zenon
<1> QED BY <1>4

(* tcp_output() takes some number of passes through "again:".              *)
LEMMA MaxPassesNat == MaxPasses \in Nat
  BY TcpAssumption DEF MaxPasses

(* Before the first pass of tcp_output(). *)
Start(tp) == [tp |-> tp, out |-> {}, again |-> TRUE]

(* f holds the first n passes. *)
Loop(f, tp, cw, force, idle, n) ==
  f = [i \in 0 .. n |-> IF i = 0 THEN Start(tp) ELSE OutputAgain(f[i - 1], cw, force, idle)]

(* However many passes of tcp_output(), there is a list of them.           *)
LEMMA LoopEnds ==
  ASSUME NEW tp, NEW cw, NEW force, NEW idle, NEW n \in Nat
  PROVE  \E f : Loop(f, tp, cw, force, idle, n)
<1> DEFINE L(f, m) == Loop(f, tp, cw, force, idle, m)
           T == {m \in Nat : ~\E f : L(f, m)}
<1>1. ASSUME T # {} PROVE FALSE
  <2>1. PICK m \in T : \A y \in T : m <= y
    BY <1>1, LeastNumber
  <2>2. m # 0
    <3>1. L([i \in 0 .. 0 |-> Start(tp)], 0)
      BY DEF Loop
    <3> QED BY <3>1
  <2>3. PICK f : L(f, m - 1)
    BY <2>1, <2>2
  <2> DEFINE g == [i \in 0 .. m |-> IF i < m THEN f[i]
                                    ELSE OutputAgain(f[m - 1], cw, force, idle)]
  <2>4. L(g, m)
    BY <2>2, <2>3 DEF Loop
  <2> QED BY <2>1, <2>4
<1> QED BY <1>1

(* What tcp_output() returns is the last of them.                          *)
LEMMA PassesLoop ==
  ASSUME NEW tp, NEW cw, NEW force, NEW idle
  PROVE  \E f : /\ Loop(f, tp, cw, force, idle, MaxPasses)
                /\ Passes(tp, cw, force, idle) = f[MaxPasses]
<1> DEFINE F == CHOOSE f : f = [n \in 0 .. MaxPasses |->
                  IF n = 0 THEN [tp |-> tp, out |-> {}, again |-> TRUE]
                  ELSE OutputAgain(f[n - 1], cw, force, idle)]
<1>1. Passes(tp, cw, force, idle) = F[MaxPasses]
  BY DEF Passes
<1>2. \E f : f = [n \in 0 .. MaxPasses |->
                  IF n = 0 THEN [tp |-> tp, out |-> {}, again |-> TRUE]
                  ELSE OutputAgain(f[n - 1], cw, force, idle)]
  <2>1. PICK f : Loop(f, tp, cw, force, idle, MaxPasses)
    BY LoopEnds, MaxPassesNat
  <2>2. f = [n \in 0 .. MaxPasses |->
                  IF n = 0 THEN [tp |-> tp, out |-> {}, again |-> TRUE]
                  ELSE OutputAgain(f[n - 1], cw, force, idle)]
    BY ONLY <2>1, Zenon DEF Loop, Start
  <2> QED BY ONLY <2>2, Zenon
<1>3. F = [n \in 0 .. MaxPasses |->
                  IF n = 0 THEN [tp |-> tp, out |-> {}, again |-> TRUE]
                  ELSE OutputAgain(F[n - 1], cw, force, idle)]
  BY <1>2, Zenon
<1>4. Loop(F, tp, cw, force, idle, MaxPasses)
  BY ONLY <1>3, Zenon DEF Loop, Start
<1> QED BY ONLY <1>1, <1>4, Zenon

-----------------------------------------------------------------------------
(* A tcpcb whose timers exclude each other. *)
Timed(tp) == "t_timer" \in DOMAIN tp /\ ~({"REXMT", "PERSIST"} \subseteq tp.t_timer)

(* The result of a pass, and of a handler. *)
Result(r) == "tp" \in DOMAIN r /\ "out" \in DOMAIN r /\ Timed(r.tp)

(* tcp_output() from "send:" on starts the retransmission timer, and stops *)
(* the persist timer when it does.                                         *)
LEMMA EmitTimed ==
  ASSUME NEW tp, Timed(tp), NEW flags, NEW off, NEW len, NEW force
  PROVE  Timed(Emit(ResendFin(tp, flags), flags, off, len, force).tp)
<1>1. Timed(ResendFin(tp, flags))
  BY DEF Timed, ResendFin
<1>2. ASSUME NEW t, Timed(t) PROVE Timed(Transmitted(t, flags, len, force))
  BY <1>2 DEF Timed, Transmitted
<1>3. ASSUME NEW t, Timed(t), NEW edge, NEW win PROVE Timed(Offered(t, edge, win))
  BY <1>3 DEF Timed, Offered
<1> QED BY <1>1, <1>2, <1>3 DEF Emit, EmitWith

(* Its decision to send, or to start the persist timer instead: only if    *)
(* the retransmission timer is not running.                                *)
LEMMA DecideTimed ==
  ASSUME NEW acc, Result(acc), NEW tp, Timed(tp), NEW flags, NEW off, NEW len, NEW again,
         NEW force, NEW idle
  PROVE  Result(OutputDecide(acc, tp, flags, off, len, again, force, idle))
<1>1. Timed(IF Starved(tp) THEN tcp_setpersist(tp) ELSE tp)
  BY DEF Timed, Starved, tcp_setpersist
<1>2. Result([acc EXCEPT !.tp = IF Starved(tp) THEN tcp_setpersist(tp) ELSE tp, !.again = FALSE])
  BY <1>1 DEF Result
<1>3. Result(Collect(acc, Emit(ResendFin(tp, flags), flags, off, len, force), again))
  BY EmitTimed DEF Result, Collect
<1> QED BY <1>2, <1>3 DEF OutputDecide

(* One pass of tcp_output(). *)
LEMMA OnceTimed ==
  ASSUME NEW acc, Result(acc), NEW cw, NEW force, NEW idle
  PROVE  Result(OutputAgain(acc, cw, force, idle))
<1>1. ASSUME NEW t, Timed(t), NEW off, NEW win PROVE Result(OutputWin(acc, t, off, win, force, idle))
  BY <1>1, DecideTimed DEF OutputWin, OutputLen, Timed
<1>2. ASSUME NEW open PROVE Result(OutputOnce(acc, open, force, idle))
  BY <1>1 DEF OutputOnce, Timed, Result
<1> QED BY <1>2 DEF OutputAgain

(* The whole of tcp_output(): the first pass that broke it would follow    *)
(* one that did not.                                                       *)
LEMMA OutputTimed ==
  ASSUME NEW tp, Timed(tp), NEW cw, NEW force
  PROVE  Result(tcp_output(tp, cw, force))
<1> DEFINE idle == tp.snd_max = tp.snd_una
<1>1. PICK f : /\ Loop(f, tp, cw, force, idle, MaxPasses)
               /\ Passes(tp, cw, force, idle) = f[MaxPasses]
  BY PassesLoop
<1> DEFINE T == {n \in 0 .. MaxPasses : ~Result(f[n])}
<1>2. ASSUME T # {} PROVE FALSE
  <2>1. PICK n \in T : \A m \in T : n <= m
    <3>1. T \subseteq Nat
      BY MaxPassesNat
    <3> HIDE DEF T
    <3> QED BY <1>2, <3>1, LeastNumber
  <2>2. n # 0
    BY <1>1, MaxPassesNat DEF Loop, Start, Result
  <2>3. Result(f[n - 1])
    BY <2>1, <2>2, MaxPassesNat
  <2>4. f[n] = OutputAgain(f[n - 1], cw, force, idle)
    BY <1>1, <2>2, MaxPassesNat DEF Loop
  <2> QED BY <2>1, <2>3, <2>4, OnceTimed
<1>3. Result(Passes(tp, cw, force, idle))
  BY <1>1, <1>2, MaxPassesNat
<1> QED BY <1>3 DEF tcp_output, Sent, Result

-----------------------------------------------------------------------------
(* tcp_close() leaves no timer. *)
LEMMA CloseTimed ==
  ASSUME NEW tp
  PROVE  Timed(tcp_close(tp))
  BY DEF Timed, tcp_close, NoTcpcb

(* tcp_reass() from "present:" on hands data to the user. *)
LEMMA PresentTimed ==
  ASSUME NEW tp, Timed(tp)
  PROVE  Timed(Present(tp).tp)
<1>1. ASSUME NEW t, Timed(t), NEW n PROVE Timed(PresentFirst(t, n).tp)
  BY <1>1 DEF PresentFirst, Timed, Append2So
<1> QED BY <1>1 DEF Present

(* The macro TCP_REASS, and tcp_reass() itself. *)
LEMMA ReassTimed ==
  ASSUME NEW tp, Timed(tp), NEW ti
  PROVE  Timed(TCP_REASS(tp, ti).tp)
<1>1. Timed(tcp_reass(tp, ti).tp)
  BY PresentTimed DEF tcp_reass, Reassembled, Timed
<1> QED BY <1>1 DEF TCP_REASS, Timed, Append2So, Acknow

(* A connection becomes established. *)
LEMMA EstablishedTimed ==
  ASSUME NEW tp, Timed(tp)
  PROVE  Timed(Established(tp))
  BY PresentTimed DEF Established, soisconnected, Timed

(* tcp_input() from "step6:" on: the window, the data and the FIN. *)
LEMMA Step6Timed ==
  ASSUME NEW tp, Timed(tp), NEW ti, NEW fl, NEW needoutput, NEW cw
  PROVE  Result(step6(tp, ti, fl, needoutput, cw))
<1>1. ASSUME NEW t, Timed(t) PROVE Timed(Fin(t))
  BY <1>1 DEF Fin, Acknow, Timed, TimeWait, Canceltimers, soisdisconnected
<1>2. ASSUME NEW t, Timed(t) PROVE Timed(TakeFin(Text(t, ti, fl)))
  BY <1>1, <1>2, ReassTimed DEF TakeFin, Text
<1>3. ASSUME NEW t, Timed(t), NEW need PROVE Result(Reply(t, need, cw))
  BY <1>3, OutputTimed DEF Reply, Quiet, Result
<1> QED BY <1>2, <1>3 DEF step6, Timed

(* tcp_drop(). *)
LEMMA DropTimed ==
  ASSUME NEW tp, Timed(tp), NEW cw, NEW errno
  PROVE  Result(tcp_drop(tp, cw, errno))
  BY CloseTimed DEF tcp_drop, Result

(* tcp_input() at "dropafterack:". *)
LEMMA DropafterackTimed ==
  ASSUME NEW tp, Timed(tp), NEW fl, NEW cw
  PROVE  Result(dropafterack(tp, fl, cw))
  BY OutputTimed DEF dropafterack, Quiet, Result, Acknow, Timed

(* tcp_input() at "trimthenstep6:". *)
LEMMA ThenStep6Timed ==
  ASSUME NEW tp, Timed(tp), NEW ti, NEW wnd, NEW cw
  PROVE  Result(trimthenstep6(tp, ti, wnd, cw))
  BY Step6Timed DEF trimthenstep6, Timed

(* tcp_input() in SYN_SENT. *)
LEMMA SynSentTimed ==
  ASSUME NEW tp, Timed(tp), NEW ti, NEW cw
  PROVE  Result(InputSynSent(tp, ti, cw))
<1>1. ASSUME NEW t, Timed(t), NEW acked PROVE Timed(SynAnswered(t, acked))
  BY <1>1, EstablishedTimed DEF SynAnswered, Timed
<1>2. ASSUME NEW t, Timed(t), NEW irs PROVE Timed(Acknow(RcvSeqInit(t, irs)))
  BY <1>2 DEF Acknow, RcvSeqInit, Timed
<1> QED BY <1>1, <1>2, DropTimed, ThenStep6Timed
        DEF InputSynSent, dropwithreset, Quiet, Timed, Result

(* tcp_input()'s processing of the ACK.  The fast retransmission stops the *)
(* timer before it calls tcp_output(); TIME_WAIT stops them all.           *)
LEMMA AckTimed ==
  ASSUME NEW tp, Timed(tp), NEW ti, NEW fl, NEW cw
  PROVE  Result(Ack(tp, ti, fl, cw))
<1>1. ASSUME NEW t, Timed(t) PROVE Result(DupAck(t, ti, fl, cw))
  <2>1. ASSUME NEW n PROVE Timed([t EXCEPT !.t_dupacks = n])
    BY <1>1 DEF Timed
  <2>2. ASSUME NEW u, Timed(u)
        PROVE  Result(tcp_output([u EXCEPT !.t_timer = @ \ {"REXMT"}, !.snd_nxt = ti.ack], MaxSeg, FALSE))
    BY <2>2, OutputTimed DEF Timed
  <2>3. ASSUME NEW r, Result(r), NEW nxt PROVE Result([r EXCEPT !.tp.snd_nxt = nxt])
    BY <2>3 DEF Result, Timed
  <2> DEFINE same == ti.data = <<>> /\ ti.win = t.snd_wnd
             counts == "REXMT" \in t.t_timer /\ ti.ack = t.snd_una
             n == IF same /\ counts THEN Lesser(t.t_dupacks + 1, RexmtThresh + 1) ELSE 0
             u == [t EXCEPT !.t_dupacks = n]
             fast == tcp_output([u EXCEPT !.t_timer = @ \ {"REXMT"}, !.snd_nxt = ti.ack], MaxSeg, FALSE)
             resumed == [fast EXCEPT !.tp.snd_nxt = IF SEQ_GT(t.snd_nxt, @) THEN t.snd_nxt ELSE @]
  <2>4. DupAck(t, ti, fl, cw) = CASE n = RexmtThresh -> resumed
                                  [] n > RexmtThresh -> tcp_output(u, cw, FALSE)
                                  [] OTHER -> step6(u, ti, fl, FALSE, cw)
    BY DEF DupAck
  <2>5. Result(resumed)
    <3>1. Result(fast)
      BY <2>1, <2>2
    <3> HIDE DEF fast
    <3> QED BY <3>1, <2>3
  <2>6. Result(tcp_output(u, cw, FALSE)) /\ Result(step6(u, ti, fl, FALSE, cw))
    BY <2>1, OutputTimed, Step6Timed
  <2> HIDE DEF n, u, resumed
  <2> QED BY <2>4, <2>5, <2>6
<1>2. ASSUME NEW t, Timed(t) PROVE Timed(Acked(t, ti))
  BY <1>2 DEF Acked, Timed
<1>3. ASSUME NEW t, Timed(t), NEW acked, NEW need
      PROVE  Result(FinAckedStates(t, ti, fl, acked, need, cw))
  <2>1. Timed(TimeWait(t)) /\ Timed([t EXCEPT !.t_timer = @ \cup {"2MSL"}])
    BY <1>3 DEF Timed, soisdisconnected, TimeWait, Canceltimers
  <2>2. ASSUME NEW u, Timed(u) PROVE Timed([u EXCEPT !.t_state = "FIN_WAIT_2"])
    BY <2>2 DEF Timed
  <2>3. Timed([soisdisconnected(t) EXCEPT !.t_timer = @ \cup {"2MSL"}])
    BY <1>3 DEF Timed, soisdisconnected
  <2>4. Result(Quiet(tcp_close(t)))
    BY CloseTimed DEF Quiet, Result
  <2> QED BY <1>3, <2>1, <2>2, <2>3, <2>4, Step6Timed, DropafterackTimed DEF FinAckedStates
<1>4. ASSUME NEW t, Timed(t) PROVE Result(NewAck(t, ti, fl, cw))
  BY <1>2, <1>3, <1>4, DropafterackTimed DEF NewAck, Timed
<1>5. Timed(SynAcked(tp, ti))
  BY EstablishedTimed DEF SynAcked, Timed
<1> QED BY <1>1, <1>4, <1>5 DEF Ack, AckSynchronized, dropwithreset, Result

(* tcp_input() on a connection, header prediction included. *)
LEMMA InputTimed ==
  ASSUME NEW tp, Timed(tp), NEW ti, NEW cw
  PROVE  Result(Input(tp, ti, cw))
<1>1. ASSUME NEW t, Timed(t) PROVE Result(InputReset(t))
  BY CloseTimed DEF InputReset, Quiet, Result
<1>2. ASSUME NEW r, Timed(r.tp) PROVE Result(InputTrimmed(r, cw))
  BY <1>1, <1>2, DropTimed, DropafterackTimed, AckTimed DEF InputTrimmed, Quiet, Result
<1>3. ASSUME NEW t, Timed(t), NEW seg, NEW fl, NEW wnd PROVE Timed(TrimRight(t, seg, fl, wnd).tp)
  BY <1>3 DEF TrimRight, Acknow, Timed
<1>4. ASSUME NEW l, Timed(l.tp), NEW wnd PROVE Result(InputUnseen(l, wnd, cw))
  BY <1>2, <1>3, <1>4, DropafterackTimed, CloseTimed DEF InputUnseen, dropwithreset, Result
<1>5. Timed(TrimLeft(tp, ti).tp)
  BY DEF TrimLeft, Acknow, Timed
<1>6. Result(InputSynchronized(tp, ti, cw))
  BY <1>4, <1>5 DEF InputSynchronized
<1>7. Result(PredictedAck(tp, ti, cw))
  <2>1. ASSUME NEW wnd, NEW nxt, NEW n
        PROVE  Timed([Acked(tp, ti) EXCEPT !.snd_wnd = wnd, !.snd_nxt = nxt, !.t_dupacks = n])
    BY DEF Acked, Timed
  <2>2. ASSUME NEW t, Timed(t) PROVE Result(Quiet(t))
    BY <2>2 DEF Quiet, Result
  <2> QED BY <2>1, <2>2, OutputTimed DEF PredictedAck
<1>8. Result(PredictedData(tp, ti))
  BY DEF PredictedData, Append2So, Quiet, Result, Timed
<1> QED BY <1>6, <1>7, <1>8, SynSentTimed DEF Input

-----------------------------------------------------------------------------
(* The inductive invariant: OneTimer, with what it takes of the types. *)
TimerInv == Hosts = DOMAIN tcb /\ \A h \in Hosts : Timed(tcb[h])

(* What a handler returns becomes the host's tcpcb. *)
LEMMA BecomesTimed ==
  ASSUME TimerInv, NEW h \in Hosts, NEW r, Result(r), NEW arrived, Becomes(h, r, arrived)
  PROVE  TimerInv'
  BY DEF TimerInv, Becomes, Result, Timed

(* tcp_usrclosed() and tcp_disconnect(). *)
LEMMA UserTimed ==
  ASSUME NEW tp, Timed(tp), NEW cw
  PROVE  /\ Timed(tcp_usrclosed(tp))
         /\ Result(tcp_disconnect(tp, cw))
<1>1. ASSUME NEW t, Timed(t) PROVE Timed(tcp_usrclosed(t))
  BY <1>1, CloseTimed DEF tcp_usrclosed, soisdisconnected, Timed
<1>2. Timed(Emptied(soisdisconnecting(tp)))
  BY DEF Timed, soisdisconnecting, Emptied
<1> QED BY <1>1, <1>2, CloseTimed, OutputTimed DEF tcp_disconnect, Quiet, Result

(* A segment arrives: for a connection, for a listener, or for nobody. *)
LEMMA TcpInputTimed ==
  ASSUME TimerInv, NEW h \in Hosts, NEW ti, NEW arrived, tcp_input(h, ti, arrived)
  PROVE  TimerInv'
<1>1. CASE Receive(h, ti, arrived)
  BY <1>1, InputTimed, BecomesTimed DEF Receive, TimerInv
<1>2. CASE NewConnection(h, ti, arrived)
  <2> DEFINE so == [NoTcpcb EXCEPT !.conns = tcb[h].conns + 1]
             t == [Acknow(RcvSeqInit(SndSeqInit(so, tcp_iss[h]), ti.seq)) EXCEPT !.t_state = "SYN_RECEIVED"]
  <2>1. Timed(t)
    BY DEF Timed, Acknow, RcvSeqInit, SndSeqInit, NoTcpcb
  <2>2. \E cw \in CWnds : Becomes(h, trimthenstep6(t, ti, RcvHiwat, cw), arrived)
    BY <1>2 DEF NewConnection
  <2> HIDE DEF t
  <2> QED BY <2>1, <2>2, ThenStep6Timed, BecomesTimed
<1>3. CASE NoConnection(h, ti, arrived) /\ ~NewConnection(h, ti, arrived)
  BY <1>3, BecomesTimed DEF NoConnection, Result, TimerInv
<1> QED BY <1>1, <1>2, <1>3 DEF tcp_input

(* Every call of a user, every segment and every timer. *)
LEMMA TimerNext ==
  ASSUME TimerInv, [Next]_vars
  PROVE  TimerInv'
<1> SUFFICES ASSUME Next PROVE TimerInv'
  BY DEF TimerInv, vars
<1> PICK h \in Hosts :
    \/ Connect(h) \/ Send(h) \/ Recv(h) \/ Shutdown(h) \/ Close(h)
    \/ Deliver(h) \/ Duplicate(h) \/ Lose(h)
    \/ tcp_fasttimo(h) \/ Rexmt(h) \/ Persist(h) \/ TwoMSL(h) \/ Keepalive(h) \/ GivesUp(h)
  BY DEF Next
<1> Timed(tcb[h])
  BY DEF TimerInv
<1>s. ASSUME NEW r, Result(r), Sending(h, r) PROVE TimerInv'
  BY <1>s, BecomesTimed DEF Sending
<1>0. ASSUME NEW r, Result(r), Becoming(h, r) PROVE TimerInv'
  BY <1>0, <1>s DEF Becoming
<1>q. ASSUME NEW t, Timed(t) PROVE Result(Quiet(t))
  BY <1>q DEF Quiet, Result
<1>1. CASE Connect(h)
  <2> DEFINE so == [NoTcpcb EXCEPT !.conns = tcb[h].conns + 1]
             t == [SndSeqInit(so, tcp_iss[h]) EXCEPT !.t_state = "SYN_SENT",
                                                     !.so_state = {"ISCONNECTING"}]
  <2>1. Timed(t)
    BY DEF Timed, SndSeqInit, NoTcpcb
  <2>2. \E cw \in CWnds : Becomes(h, tcp_output(t, cw, FALSE), {})
    BY <1>1 DEF Connect
  <2> HIDE DEF t
  <2> QED BY <2>1, <2>2, OutputTimed, BecomesTimed
<1>2. CASE Send(h)
  <2> DEFINE t == [tcb[h] EXCEPT !.so_snd = Append(@, Byte(tcb[h].conns, tcb[h].sent + 1)),
                                 !.sent = @ + 1]
  <2>1. Timed(t)
    BY DEF Timed
  <2>2. \E cw \in CWnds : Becoming(h, tcp_output(t, cw, FALSE))
    BY <1>2 DEF Send
  <2> HIDE DEF t
  <2> QED BY <2>1, <2>2, OutputTimed, <1>0
<1>3. CASE Recv(h)
  <2> DEFINE t == Emptied(tcb[h])
  <2>1. Timed(t)
    BY DEF Timed, Emptied
  <2>2. \E cw \in CWnds :
          Becoming(h, IF t.t_state = "NONE" THEN Quiet(t) ELSE tcp_output(t, cw, FALSE))
    BY <1>3 DEF Recv
  <2> HIDE DEF t
  <2> QED BY <2>1, <2>2, OutputTimed, <1>0, <1>q
<1>4. CASE Shutdown(h)
  <2> DEFINE s == [tcb[h] EXCEPT !.so_state = @ \cup {"CANTSENDMORE"},
                                 !.hungup = @ \/ tcb[h].t_state = "FIN_WAIT_2"]
             t == tcp_usrclosed(s)
  <2>1. Timed(s)
    BY DEF Timed
  <2>2. \E cw \in CWnds :
          Becoming(h, IF t.t_state = "NONE" THEN Quiet(t) ELSE tcp_output(t, cw, FALSE))
    BY <1>4 DEF Shutdown
  <2> HIDE DEF s
  <2>3. Timed(t)
    BY <2>1, UserTimed
  <2> HIDE DEF t
  <2> QED BY <2>2, <2>3, OutputTimed, <1>0, <1>q
<1>5. CASE Close(h)
  <2>1. ASSUME NEW r, Result(r), NEW cw PROVE Result(tcp_detach(r, cw))
    <3>1. ASSUME NEW d, Result(d) PROVE Result(Detached(d))
      BY <3>1 DEF Detached, Result, Timed, Emptied
    <3>2. ASSUME NEW d, Result(d) PROVE Result([d EXCEPT !.out = @ \cup r.out])
      BY <3>2 DEF Result
    <3>3. Result(tcp_disconnect(r.tp, cw))
      BY <2>1, UserTimed DEF Result
    <3> QED BY <2>1, <3>1, <3>2, <3>3 DEF tcp_detach
  <2>2. PICK cw \in CWnds : \E r \in {tcp_disconnect(tcb[h], cw), Quiet(tcb[h])} :
          Becoming(h, tcp_detach(r, cw))
    BY <1>5 DEF Close
  <2>3. \A r \in {tcp_disconnect(tcb[h], cw), Quiet(tcb[h])} : Result(r)
    BY UserTimed, <1>q
  <2> QED BY <2>1, <2>2, <2>3, <1>0
<1>6. CASE Deliver(h) \/ Duplicate(h)
  BY <1>6, TcpInputTimed DEF Deliver, Duplicate
<1>7. CASE Lose(h)
  BY <1>7 DEF Lose, TimerInv
<1>8. CASE tcp_fasttimo(h)
  <2> DEFINE t == Acknow([tcb[h] EXCEPT !.t_flags = @ \ {"DELACK"}])
  <2>1. Timed(t)
    BY DEF Timed, Acknow
  <2>2. \E cw \in CWnds : Becoming(h, tcp_output(t, cw, FALSE))
    BY <1>8 DEF tcp_fasttimo
  <2> HIDE DEF t
  <2> QED BY <2>1, <2>2, OutputTimed, <1>0
<1>9. CASE Rexmt(h)
  <2> DEFINE t == [tcb[h] EXCEPT !.snd_nxt = tcb[h].snd_una, !.t_dupacks = 0]
  <2>1. Timed(t)
    BY DEF Timed
  <2>2. Sending(h, tcp_output(t, MaxSeg, FALSE))
    BY <1>9 DEF Rexmt
  <2> HIDE DEF t
  <2> QED BY <2>1, <2>2, OutputTimed, <1>s
<1>10. CASE Persist(h)
  <2> DEFINE t == tcp_setpersist(Expired(h, "PERSIST"))
  <2>1. Timed(t)
    BY <1>10 DEF Timed, Expired, tcp_setpersist, Persist, Due
  <2>2. \E cw \in CWnds : Sending(h, tcp_output(t, cw, TRUE))
    BY <1>10 DEF Persist
  <2> HIDE DEF t
  <2> QED BY <2>1, <2>2, OutputTimed, <1>s
<1>11. CASE TwoMSL(h)
  BY <1>11, CloseTimed, <1>0, <1>q DEF TwoMSL
<1>12. CASE Keepalive(h)
  BY <1>12, <1>0 DEF Keepalive, Result
<1>13. CASE GivesUp(h)
  <2>1. Timed(Expired(h, "REXMT"))
    BY DEF Timed, Expired
  <2> QED BY <1>13, <2>1, DropTimed, <1>0 DEF GivesUp
<1> QED BY <1>1, <1>2, <1>3, <1>4, <1>5, <1>6, <1>7, <1>8, <1>9, <1>10, <1>11, <1>12, <1>13

(* The retransmission and persist timers of a connection never run         *)
(* together, whatever the network does and whatever the sizes of windows,  *)
(* buffers and segments: the panic of tcp_setpersist() is not reached.     *)
THEOREM TimersExclude == Spec => []OneTimer
<1>1. Init => TimerInv
  BY DEF Init, TimerInv, Timed, NoTcpcb
<1>2. TimerInv => OneTimer
  BY DEF TimerInv, OneTimer, Timed
<1> QED BY <1>1, <1>2, TimerNext, PTL DEF Spec
=============================================================================
