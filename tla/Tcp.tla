--------------------------------- MODULE Tcp ---------------------------------
(***************************************************************************)
(* Two TCPs of sys/netinet (tcp_input.c, tcp_output.c, tcp_timer.c,        *)
(* tcp_usrreq.c, tcp_subr.c) with the sockets above them, joined by a      *)
(* network that loses, duplicates and reorders segments.                   *)
(*                                                                         *)
(* Every handler runs at splnet(), so each is one step.  A control block   *)
(* is kept together with its socket.  Sequence numbers are taken modulo    *)
(* SeqSpace, windows modulo WndSpace (2^32 and 2^16 in the code).          *)
(*                                                                         *)
(* A timer is either running or not.  The congestion window is any value   *)
(* of CWnds at each tcp_output(): it is never below t_maxseg.  Round trip  *)
(* times, the backoff, options, urgent data and failures of m_get() and    *)
(* ip_output() are left out.  A host that calls connect() does so once, so *)
(* that no new SYN meets a connection in TIME_WAIT, which tcp_input()      *)
(* would close to start over.                                              *)
(***************************************************************************)
EXTENDS Integers, Sequences, FiniteSets, SequencesExt

CONSTANTS
  Hosts,        \* the two hosts
  Active,       \* hosts that call connect()
  Passive,      \* hosts with a listening socket
  Users,        \* the calls each host's user makes: subsets of UserCalls
  ToSend,       \* bytes each host's user has to send
  MaxSeg, SndHiwat, RcvHiwat,
  RcvMbmax,     \* storage so_rcv may take (sb_mbmax)
  Mbuf,         \* storage a segment takes, whatever its length
  RexmtThresh,  \* tcprexmtthresh
  CWnds,        \* values of the congestion window
  SeqSpace, WndSpace,
  InitIss, IssIncr,
  MaxConns,     \* bound: connections of each host
  MaxNet,       \* bound: segments on their way to one host
  FaultKinds,   \* "net": segments are lost and duplicated; "timer": timeouts come early
  MaxFaults,    \* bound: faults of these kinds
  GiveUp        \* the timers that may drop the connection

\* "abandon" is shutdown() while the connection is being made.
UserCalls == {"recv", "shutdown", "abandon", "close", "keepalive"}

ASSUME TcpAssumption ==
  /\ Cardinality(Hosts) = 2 /\ Users \in [Hosts -> SUBSET UserCalls]
  /\ Active \cup Passive \subseteq Hosts /\ \A h \in Active : MaxConns[h] <= 1
  /\ {MaxSeg, SndHiwat, RcvHiwat, RcvMbmax, Mbuf, RexmtThresh, SeqSpace, WndSpace} \subseteq Nat
  /\ MaxSeg > 0 /\ RcvHiwat < WndSpace /\ SndHiwat > 0 /\ RexmtThresh > 1
  /\ CWnds # {} /\ \A c \in CWnds : c >= MaxSeg
  /\ SeqSpace % 2 = 0 /\ SeqSpace > 2 * WndSpace

VARIABLES
  tcb,       \* each host's control block and socket
  tcp_iss,   \* each host's next initial sequence number
  net,       \* segments on their way to each host
  faults     \* segments lost or duplicated, and early timeouts, so far

vars == <<tcb, tcp_iss, net, faults>>

Peer(h) == CHOOSE p \in Hosts : p # h

Lesser(a, b) == IF a < b THEN a ELSE b
Greater(a, b) == IF a > b THEN a ELSE b

(***************************************************************************)
(* Sequence number arithmetic.                                             *)
(***************************************************************************)
Seqs == 0 .. SeqSpace - 1
Add(a, n) == (a + n) % SeqSpace

\* (int)(a - b)
Diff(a, b) ==
  LET d == (a - b) % SeqSpace IN IF d < SeqSpace \div 2 THEN d ELSE d - SeqSpace

SEQ_LT(a, b) == Diff(a, b) < 0
SEQ_LEQ(a, b) == Diff(a, b) <= 0
SEQ_GT(a, b) == Diff(a, b) > 0

(***************************************************************************)
(* Control blocks.  "NONE" is a socket whose control block is gone.        *)
(***************************************************************************)
Embryonic == {"NONE", "CLOSED", "SYN_SENT"}
UserClosed == {"FIN_WAIT_1", "CLOSING", "LAST_ACK", "FIN_WAIT_2", "TIME_WAIT"}
States == Embryonic \cup {"SYN_RECEIVED", "ESTABLISHED", "CLOSE_WAIT"} \cup UserClosed

HaveRcvdSyn(tp) == tp.t_state \notin Embryonic
HaveRcvdFin(tp) == tp.t_state = "TIME_WAIT"
Unconnected == Embryonic \cup {"SYN_RECEIVED"}

tcp_outflags(s) ==
  CASE s = "CLOSED" -> {"RST", "ACK"}
    [] s = "SYN_SENT" -> {"SYN"}
    [] s = "SYN_RECEIVED" -> {"SYN", "ACK"}
    [] s \in {"FIN_WAIT_1", "CLOSING", "LAST_ACK"} -> {"FIN", "ACK"}
    [] OTHER -> {"ACK"}

NoTcpcb ==
  [t_state |-> "NONE", iss |-> 0, irs |-> 0,
   snd_una |-> 0, snd_nxt |-> 0, snd_max |-> 0, snd_wnd |-> 0,
   snd_wl1 |-> 0, snd_wl2 |-> 0, max_sndwnd |-> 0,
   rcv_nxt |-> 0, rcv_adv |-> 0,
   t_flags |-> {}, t_timer |-> {}, t_dupacks |-> 0,
   segq |-> <<>>, so_snd |-> <<>>, so_rcv |-> 0, so_mbcnt |-> 0,
   so_state |-> {}, so_error |-> "none",
   conns |-> 0,    \* connections made so far; names the current one
   sent |-> 0,     \* bytes the user has written on it
   hungup |-> FALSE, \* its user called shutdown() again in FIN_WAIT_2
   got |-> <<>>]   \* bytes put in so_rcv, read or not

\* The i-th byte written on a host's c-th connection; the byte of a probe.
Byte(c, i) == <<c, i>>
Garbage == <<0, 0>>

\* sbspace(): below zero when the segments in so_rcv take too much storage.
Space(tp) == Lesser(RcvHiwat - tp.so_rcv, RcvMbmax - tp.so_mbcnt)

\* so_rcv without its data: read, flushed or released.
Emptied(tp) == [tp EXCEPT !.so_rcv = 0, !.so_mbcnt = 0]

Acknow(tp) == [tp EXCEPT !.t_flags = @ \cup {"ACKNOW"}]

soisdisconnected(tp) ==
  [tp EXCEPT !.so_state = (@ \ {"ISCONNECTING", "ISCONNECTED", "ISDISCONNECTING"})
                            \cup {"CANTRCVMORE", "CANTSENDMORE"}]

soisconnected(tp) ==
  [tp EXCEPT !.so_state = (@ \ {"ISCONNECTING", "ISDISCONNECTING"}) \cup {"ISCONNECTED"}]

soisdisconnecting(tp) ==
  [tp EXCEPT !.so_state = (@ \ {"ISCONNECTING"})
                            \cup {"ISDISCONNECTING", "CANTRCVMORE", "CANTSENDMORE"}]

\* The socket outlives its control block, until its last descriptor is closed.
tcp_close(tp) ==
  LET so == soisdisconnected(IF "NOFDREF" \in tp.so_state THEN Emptied(tp) ELSE tp)
  IN [NoTcpcb EXCEPT !.so_state = so.so_state, !.so_error = so.so_error,
        !.so_rcv = so.so_rcv, !.so_mbcnt = so.so_mbcnt,
        !.conns = so.conns, !.sent = so.sent, !.got = so.got, !.hungup = so.hungup]

Canceltimers(tp) == [tp EXCEPT !.t_timer = {}]

\* Mutant of TimeWait: the 2MSL timer is not started.
TimeWaitUntimed(tp) == soisdisconnected([Canceltimers(tp) EXCEPT !.t_state = "TIME_WAIT"])

\* Entering TIME_WAIT.
TimeWait(tp) ==
  soisdisconnected([Canceltimers(tp) EXCEPT !.t_state = "TIME_WAIT", !.t_timer = {"2MSL"}])

(***************************************************************************)
(* tcp_output().  Each pass sends at most one segment; sendalot asks for   *)
(* another.  cw is snd_cwnd, force is t_force.                             *)
(***************************************************************************)
Quiet(tp) == [tp |-> tp, out |-> {}]

\* Mutant of tcp_setpersist: the timer is not started.
tcp_setpersistNot(tp) == tp

tcp_setpersist(tp) == [tp EXCEPT !.t_timer = @ \cup {"PERSIST"}]

\* Mutant of Transmitted: the persist timer goes on.
TransmittedBoth(tp, flags, len, force) ==
  LET nxt == Add(tp.snd_nxt, len + Cardinality(flags \cap {"SYN", "FIN"}))
  IN [tp EXCEPT !.snd_nxt = nxt,
        !.snd_max = IF SEQ_GT(nxt, @) THEN nxt ELSE @,
        !.t_timer = IF nxt # tp.snd_una THEN @ \cup {"REXMT"} ELSE @]

\* Sequence space, timers and flags once a segment has been built.
Transmitted(tp, flags, len, force) ==
  LET nxt == Add(tp.snd_nxt, len + Cardinality(flags \cap {"SYN", "FIN"}))
      max == IF SEQ_GT(nxt, tp.snd_max) THEN nxt ELSE tp.snd_max
      probed == Add(tp.snd_nxt, len)
  IN IF force /\ "PERSIST" \in tp.t_timer
     THEN [tp EXCEPT !.snd_max = IF SEQ_GT(probed, @) THEN probed ELSE @]
     ELSE [tp EXCEPT !.snd_nxt = nxt, !.snd_max = max,
             !.t_flags = IF "FIN" \in flags THEN @ \cup {"SENTFIN"} ELSE @,
             !.t_timer = IF "REXMT" \notin @ /\ nxt # tp.snd_una
                         THEN (@ \ {"PERSIST"}) \cup {"REXMT"} ELSE @]

\* Mutant of Offer: what waits to be read is not counted.
OfferAll(tp) == Greater(RcvHiwat, Diff(tp.rcv_adv, tp.rcv_nxt))

\* The window a segment offers: never shrunk, and not a silly one.
Offer(tp) ==
  LET win == Space(tp)
      sws == IF win < RcvHiwat \div 4 /\ win < MaxSeg THEN 0 ELSE win
  IN Greater(sws, Diff(tp.rcv_adv, tp.rcv_nxt))

\* The segment of len bytes at offset off that is sent, with win its window.
Segment(tp, flags, off, len, win) ==
  [seq |-> tp.snd_nxt, ack |-> tp.rcv_nxt, flags |-> flags, win |-> win % WndSpace,
   data |-> SubSeq(tp.so_snd, off + 1, off + len)]

\* The right edge of the window that has been offered.
Offered(tp, edge, win) ==
  [tp EXCEPT !.rcv_adv = IF win > 0 /\ SEQ_GT(edge, @) THEN edge ELSE @,
             !.t_flags = @ \ {"ACKNOW", "DELACK"}]

\* When resending a FIN, do not use a new sequence number.
ResendFin(tp, flags) ==
  IF "FIN" \in flags /\ "SENTFIN" \in tp.t_flags /\ tp.snd_nxt = tp.snd_max
  THEN [tp EXCEPT !.snd_nxt = Add(@, -1)] ELSE tp

\* Is there reason to send: data worth it, a window update, an ACK, a SYN or a FIN?
\* sb_hiwat is unsigned, so an adv below zero counts as a large one.
MustSend(tp, flags, off, len, adv, force, idle) ==
  \/ /\ len > 0
     /\ \/ len = MaxSeg
        \/ idle /\ len + off >= Len(tp.so_snd)
        \/ force
        \/ len >= tp.max_sndwnd \div 2
        \/ SEQ_LT(tp.snd_nxt, tp.snd_max)
  \/ Space(tp) > 0 /\ (adv >= 2 * MaxSeg \/ 2 * adv >= RcvHiwat \/ adv < 0)
  \/ "ACKNOW" \in tp.t_flags
  \/ flags \cap {"SYN", "RST"} # {}
  \/ "FIN" \in flags /\ ("SENTFIN" \notin tp.t_flags \/ tp.snd_nxt = tp.snd_una)

\* Data that neither timer looks after: enter persist state.
Starved(tp) == tp.so_snd # <<>> /\ tp.t_timer \cap {"REXMT", "PERSIST"} = {}

\* send: tp is ready to send a segment with window win.
EmitWith(tp, flags, off, len, win, force) ==
  [tp |-> Offered(Transmitted(tp, flags, len, force), Add(tp.rcv_nxt, win), win),
   seg |-> Segment(tp, flags, off, len, win)]

Emit(tp, flags, off, len, force) == EmitWith(tp, flags, off, len, Offer(tp), force)

OutputFlags(tp, len) ==
  tcp_outflags(tp.t_state) \
    (IF SEQ_LT(Add(tp.snd_nxt, len), Add(tp.snd_una, Len(tp.so_snd))) THEN {"FIN"} ELSE {})

Collect(acc, e, again) == [tp |-> e.tp, out |-> acc.out \cup {e.seg}, again |-> again]

\* With the length settled: send, or see to the persist timer.
OutputDecide(acc, tp, flags, off, len, again, force, idle) ==
  IF MustSend(tp, flags, off, len, Space(tp) - Diff(tp.rcv_adv, tp.rcv_nxt), force, idle)
  THEN Collect(acc, Emit(ResendFin(tp, flags), flags, off, len, force), again)
  ELSE [acc EXCEPT !.tp = IF Starved(tp) THEN tcp_setpersist(tp) ELSE tp, !.again = FALSE]

\* The length: room bytes may go; the window may have closed behind snd_nxt.
OutputLen(acc, tp, off, room, shut, force, idle) ==
  LET len == Lesser(Greater(room, 0), MaxSeg)
      t == IF room < 0 /\ shut
           THEN [tp EXCEPT !.t_timer = @ \ {"REXMT"}, !.snd_nxt = tp.snd_una] ELSE tp
  IN OutputDecide(acc, t, OutputFlags(t, len), off, len, room > MaxSeg, force, idle)

OutputWin(acc, tp, off, win, force, idle) ==
  OutputLen(acc, tp, off, Lesser(Len(tp.so_snd), win) - off, win = 0, force, idle)

\* A forced probe opens a closed window by a byte, and leaves persist state in an open one.
OutputOnce(acc, open, force, idle) ==
  OutputWin(acc,
            IF force /\ open > 0 THEN [acc.tp EXCEPT !.t_timer = @ \ {"PERSIST"}] ELSE acc.tp,
            Diff(acc.tp.snd_nxt, acc.tp.snd_una),
            IF force /\ open = 0 THEN 1 ELSE open, force, idle)

Sent(acc) == [tp |-> acc.tp, out |-> acc.out]

OutputAgain(acc, cw, force, idle) ==
  IF acc.again THEN OutputOnce(acc, Lesser(acc.tp.snd_wnd, cw), force, idle) ELSE acc

\* As many passes as a full send buffer may take.
MaxPasses == SndHiwat \div MaxSeg + 2

Passes(tp, cw, force, idle) ==
  LET pass[n \in 0 .. MaxPasses] ==
        IF n = 0 THEN [tp |-> tp, out |-> {}, again |-> TRUE]
        ELSE OutputAgain(pass[n - 1], cw, force, idle)
  IN pass[MaxPasses]

tcp_output(tp, cw, force) == Sent(Passes(tp, cw, force, tp.snd_max = tp.snd_una))

tcp_drop(tp, cw, errno) ==
  LET r == IF HaveRcvdSyn(tp) THEN tcp_output([tp EXCEPT !.t_state = "CLOSED"], cw, FALSE)
           ELSE Quiet(tp)
  IN [tp |-> tcp_close([r.tp EXCEPT !.so_error = errno]), out |-> r.out]

(***************************************************************************)
(* The reassembly queue.                                                   *)
(***************************************************************************)
End(ti) == Add(ti.seq, Len(ti.data))

\* m_adj() from the front.
Behead(ti, n) ==
  [ti EXCEPT !.seq = Add(@, n), !.data = SubSeq(@, n + 1, Len(@))]

\* sbappend() of the data of segments that are in order.  Each takes a
\* cluster of its own, which sbcompress() does not merge; one without data is freed.
Append2So(tp, segs) ==
  LET data == FlattenSeq(segs)
      Filled(d) == d # <<>>
  IN [tp EXCEPT !.rcv_nxt = Add(@, Len(data)), !.so_rcv = @ + Len(data),
                !.so_mbcnt = @ + Mbuf * Len(SelectSeq(segs, Filled)), !.got = @ \o data]

\* What new leaves of a segment that begins after it does.
Uncovered(s, over) == IF over > 0 THEN Behead(s, over) ELSE s

\* Segments that begin after new does, without the data they share with it.
Successors(q, new) ==
  LET Over(s) == Diff(End(new), s.seq)
      Kept(s) == Over(s) <= 0 \/ Over(s) < Len(s.data)
      rest == SelectSeq(q, Kept)
  IN [i \in DOMAIN rest |-> Uncovered(rest[i], Over(rest[i]))]

QueueNew(before, new, after) == before \o <<new>> \o Successors(after, new)

\* had bytes of ti are in its predecessor.
QueueBetween(before, ti, after, had) ==
  IF had > 0 /\ had >= Len(ti.data) THEN before \o after
  ELSE QueueNew(before, IF had > 0 THEN Behead(ti, had) ELSE ti, after)

QueueAt(q, ti, k) ==
  QueueBetween(SubSeq(q, 1, k), ti, SubSeq(q, k + 1, Len(q)),
                IF k = 0 THEN 0 ELSE Diff(End(q[k]), ti.seq))

\* Queue ti, dropping what its predecessor has and what it has of its successors.
Insert(q, ti) == QueueAt(q, ti, Cardinality({i \in DOMAIN q : SEQ_LEQ(q[i].seq, ti.seq)}))

\* The first n segments of the queue follow rcv_nxt.
PresentFirst(tp, n) ==
  LET segs == [i \in 1 .. n |-> tp.segq[i].data]
      rest == [tp EXCEPT !.segq = SubSeq(@, n + 1, Len(@))]
  IN [tp |-> IF "CANTRCVMORE" \in tp.so_state
             THEN [rest EXCEPT !.rcv_nxt = Add(@, Len(FlattenSeq(segs)))]
             ELSE Append2So(rest, segs),
      fin |-> "FIN" \in tp.segq[n].flags]

\* Present data to the user; fin tells whether the last segment has a FIN.
Present(tp) ==
  LET q == tp.segq
      ready == {n \in DOMAIN q : /\ q[1].seq = tp.rcv_nxt
                                 /\ \A j \in 2 .. n : q[j].seq = End(q[j - 1])}
  IN IF \/ ~HaveRcvdSyn(tp) \/ ready = {}
        \/ tp.t_state = "SYN_RECEIVED" /\ q[1].data # <<>>
     THEN [tp |-> tp, fin |-> FALSE]
     ELSE PresentFirst(tp, Cardinality(ready))

\* A duplicate is dropped before anything is presented.
Reassembled(tp, q) ==
  IF q = tp.segq THEN [tp |-> tp, fin |-> FALSE] ELSE Present([tp EXCEPT !.segq = q])

tcp_reass(tp, ti) == Reassembled(tp, Insert(tp.segq, ti))

\* Mutant of TCP_REASS: the sequence number is not looked at.
TCP_REASSAnyOrder(tp, ti) ==
  LET r == tcp_reass(tp, ti)
  IN IF tp.segq = <<>> /\ tp.t_state = "ESTABLISHED"
     THEN [tp |-> Append2So(tp, <<ti.data>>), fin |-> "FIN" \in ti.flags]
     ELSE [r EXCEPT !.tp = Acknow(@)]

\* The macro's common case avoids the queue, and its test for CANTRCVMORE.
TCP_REASS(tp, ti) ==
  LET r == tcp_reass(tp, ti)
      next == Append2So(tp, <<ti.data>>)
  IN IF ti.seq = tp.rcv_nxt /\ tp.segq = <<>> /\ tp.t_state = "ESTABLISHED"
     THEN [tp |-> [next EXCEPT !.t_flags = @ \cup {"DELACK"}], fin |-> "FIN" \in ti.flags]
     ELSE [r EXCEPT !.tp = Acknow(@)]

(***************************************************************************)
(* tcp_input().  ti is the segment, with the flags it came with; fl the    *)
(* flags that are left (tiflags), which trimming takes away.               *)
(***************************************************************************)
\* rcv_wnd: not less than the advertised window.  max() compares unsigned numbers.
RcvWnd(tp) ==
  LET adv == Diff(tp.rcv_adv, tp.rcv_nxt)
  IN IF adv < 0 THEN WndSpace - 1 ELSE Greater(Greater(Space(tp), 0), adv)

dropafterack(tp, fl, cw) ==
  IF "RST" \in fl THEN Quiet(tp) ELSE tcp_output(Acknow(tp), cw, FALSE)

\* tcp_respond() to a segment that is not for this connection.
Reset(tp, ti, fl) ==
  LET win == IF tp.t_state = "NONE" THEN 0 ELSE Space(tp) % WndSpace
      len == Len(ti.data) + (IF "SYN" \in fl THEN 1 ELSE 0)
  IN IF "RST" \in fl THEN {}
     ELSE {IF "ACK" \in fl
           THEN [seq |-> ti.ack, ack |-> 0, flags |-> {"RST"}, win |-> win, data |-> <<>>]
           ELSE [seq |-> 0, ack |-> Add(ti.seq, len), flags |-> {"RST", "ACK"},
                 win |-> win, data |-> <<>>]}

dropwithreset(tp, ti, fl) == [tp |-> tp, out |-> Reset(tp, ti, fl)]

Fin(tp) ==
  LET t == IF HaveRcvdFin(tp) THEN tp
           ELSE Acknow([tp EXCEPT !.so_state = @ \cup {"CANTRCVMORE"}, !.rcv_nxt = Add(@, 1)])
  IN CASE t.t_state \in {"SYN_RECEIVED", "ESTABLISHED"} -> [t EXCEPT !.t_state = "CLOSE_WAIT"]
       [] t.t_state = "FIN_WAIT_1" -> [t EXCEPT !.t_state = "CLOSING"]
       [] t.t_state = "FIN_WAIT_2" -> TimeWait(t)
       [] t.t_state = "TIME_WAIT" -> [t EXCEPT !.t_timer = @ \cup {"2MSL"}]
       [] OTHER -> t

\* Does the segment carry more up to date window information?
NewerWindow(tp, ti, fl) ==
  /\ "ACK" \in fl
  /\ \/ SEQ_LT(tp.snd_wl1, ti.seq)
     \/ /\ tp.snd_wl1 = ti.seq
        /\ \/ SEQ_LT(tp.snd_wl2, ti.ack)
           \/ tp.snd_wl2 = ti.ack /\ ti.win > tp.snd_wnd

\* Mutant of Text: a FIN is taken though data before it is missing.
TextEarly(tp, ti, fl) ==
  IF (ti.data # <<>> \/ "FIN" \in fl) /\ ~HaveRcvdFin(tp)
  THEN [TCP_REASS(tp, ti) EXCEPT !.fin = "FIN" \in fl]
  ELSE [tp |-> tp, fin |-> FALSE]

\* The text goes to the user or to the queue; fin tells whether a FIN is next.
Text(tp, ti, fl) ==
  IF (ti.data # <<>> \/ "FIN" \in fl) /\ ~HaveRcvdFin(tp) THEN TCP_REASS(tp, ti)
  ELSE [tp |-> tp, fin |-> FALSE]

TakeFin(r) == IF r.fin THEN Fin(r.tp) ELSE r.tp

Reply(tp, needoutput, cw) ==
  IF needoutput \/ "ACKNOW" \in tp.t_flags THEN tcp_output(tp, cw, FALSE) ELSE Quiet(tp)

\* step6: the window, the text, the FIN and the reply.
step6(tp, ti, fl, needoutput, cw) ==
  LET newer == NewerWindow(tp, ti, fl)
      w == IF newer THEN [tp EXCEPT !.snd_wnd = ti.win, !.snd_wl1 = ti.seq, !.snd_wl2 = ti.ack,
                                    !.max_sndwnd = Greater(@, ti.win)]
           ELSE tp
  IN Reply(TakeFin(Text(w, ti, fl)), needoutput \/ newer, cw)

\* Data that came with the peer's SYN.
trimthenstep6(tp, ti, wnd, cw) ==
  LET t == [ti EXCEPT !.seq = Add(@, 1), !.data = SubSeq(@, 1, Lesser(Len(@), wnd))]
      fl == IF Len(ti.data) > wnd THEN ti.flags \ {"FIN"} ELSE ti.flags
  IN step6([tp EXCEPT !.snd_wl1 = ti.seq], t, fl, FALSE, cw)

\* tcp_rcvseqinit() and tcp_sendseqinit().
RcvSeqInit(tp, irs) ==
  [tp EXCEPT !.irs = irs, !.rcv_nxt = Add(irs, 1), !.rcv_adv = Add(irs, 1)]
SndSeqInit(tp, iss) ==
  [tp EXCEPT !.iss = iss, !.snd_una = iss, !.snd_nxt = iss, !.snd_max = iss]

Established(tp) ==
  Present([soisconnected(tp) EXCEPT !.t_state = "ESTABLISHED"]).tp

\* The SYN_SENT host has its SYN answered, or meets the other's.
SynAnswered(tp, acked) ==
  IF acked /\ SEQ_GT(tp.snd_una, tp.iss) THEN Established(tp)
  ELSE [tp EXCEPT !.t_state = "SYN_RECEIVED"]

InputSynSent(tp, ti, cw) ==
  LET fl == ti.flags
      una == [tp EXCEPT !.snd_una = ti.ack,
                        !.snd_nxt = IF SEQ_LT(@, ti.ack) THEN ti.ack ELSE @]
      t == Acknow(RcvSeqInit([(IF "ACK" \in fl THEN una ELSE tp) EXCEPT
                                !.t_timer = @ \ {"REXMT"}], ti.seq))
  IN CASE "ACK" \in fl /\ (SEQ_LEQ(ti.ack, tp.iss) \/ SEQ_GT(ti.ack, tp.snd_max)) ->
            dropwithreset(tp, ti, fl)
       [] OTHER ->
            IF "RST" \in fl
            THEN IF "ACK" \in fl THEN tcp_drop(tp, cw, "ECONNREFUSED") ELSE Quiet(tp)
            ELSE IF "SYN" \notin fl THEN Quiet(tp)
            ELSE trimthenstep6(SynAnswered(t, "ACK" \in fl), ti, RcvWnd(tp), cw)

\* Drop what lies before rcv_nxt; dup when nothing is left.
TrimLeft(tp, ti) ==
  LET before == Diff(tp.rcv_nxt, ti.seq)
      syn == before > 0 /\ "SYN" \in ti.flags
      t == IF syn THEN [ti EXCEPT !.seq = Add(@, 1)] ELSE ti
      fl == IF syn THEN ti.flags \ {"SYN"} ELSE ti.flags
      todrop == IF syn THEN before - 1 ELSE before
      len == Len(ti.data)
      all == todrop > len \/ (todrop = len /\ "FIN" \notin fl)
      \* Only a FIN to drop, or a RST answering a 4.2-style keepalive.
      keep == \/ "FIN" \in fl /\ todrop = len + 1
              \/ "RST" \in fl /\ t.seq = Add(tp.rcv_nxt, -1)
  IN CASE before <= 0 -> [tp |-> tp, ti |-> ti, fl |-> ti.flags, dup |-> FALSE]
       [] OTHER ->
          IF all /\ ~keep THEN [tp |-> tp, ti |-> t, fl |-> fl, dup |-> TRUE]
          ELSE IF all THEN [tp |-> Acknow(tp), ti |-> Behead(t, len), fl |-> fl \ {"FIN"},
                            dup |-> FALSE]
          ELSE [tp |-> tp, ti |-> Behead(t, todrop), fl |-> fl, dup |-> FALSE]

\* Mutant of TrimRight: nothing is dropped.
TrimRightNothing(tp, ti, fl, wnd) == [tp |-> tp, ti |-> ti, fl |-> fl, outside |-> FALSE]

\* Drop what lies beyond the window; outside when nothing of it may be kept.
TrimRight(tp, ti, fl, wnd) ==
  LET todrop == Diff(End(ti), Add(tp.rcv_nxt, wnd))
      probe == wnd = 0 /\ ti.seq = tp.rcv_nxt
      whole == todrop >= Len(ti.data)
      cut == [ti EXCEPT !.data = SubSeq(@, 1, Len(@) - todrop)]
  IN CASE todrop <= 0 -> [tp |-> tp, ti |-> ti, fl |-> fl, outside |-> FALSE]
       [] OTHER -> [tp |-> IF whole /\ probe THEN Acknow(tp) ELSE tp, ti |-> cut, fl |-> fl \ {"FIN"},
                    outside |-> whole /\ ~probe]

InputReset(tp) ==
  Quiet(tcp_close(
    CASE tp.t_state = "SYN_RECEIVED" -> [tp EXCEPT !.so_error = "ECONNREFUSED"]
      [] tp.t_state \in {"ESTABLISHED", "FIN_WAIT_1", "FIN_WAIT_2", "CLOSE_WAIT"} ->
           [tp EXCEPT !.so_error = "ECONNRESET"]
      [] OTHER -> tp))

\* An ACK that acknowledges nothing new.
DupAck(tp, ti, fl, cw) ==
  LET same == ti.data = <<>> /\ ti.win = tp.snd_wnd
      counts == "REXMT" \in tp.t_timer /\ ti.ack = tp.snd_una
      n == IF same /\ counts THEN Lesser(tp.t_dupacks + 1, RexmtThresh + 1) ELSE 0
      t == [tp EXCEPT !.t_dupacks = n]
      fast == tcp_output([t EXCEPT !.t_timer = @ \ {"REXMT"}, !.snd_nxt = ti.ack], MaxSeg, FALSE)
  IN CASE n = RexmtThresh ->
            [fast EXCEPT !.tp.snd_nxt = IF SEQ_GT(tp.snd_nxt, @) THEN tp.snd_nxt ELSE @]
       [] n > RexmtThresh -> tcp_output(t, cw, FALSE)
       [] OTHER -> step6(t, ti, fl, FALSE, cw)

\* Mutant of Acked: the whole buffer is dropped when less of it is acknowledged.
AckedWhole(tp, ti) ==
  [tp EXCEPT !.t_dupacks = 0, !.so_snd = <<>>,
     !.snd_una = ti.ack, !.snd_nxt = IF SEQ_LT(@, ti.ack) THEN ti.ack ELSE @,
     !.t_timer = IF ti.ack = tp.snd_max THEN @ \ {"REXMT"} ELSE @]

\* An ACK of something new: the send buffer, the window and the timer.
Acked(tp, ti) ==
  LET acked == Diff(ti.ack, tp.snd_una)
      data == Lesser(acked, Len(tp.so_snd))
  IN [tp EXCEPT !.t_dupacks = 0,
        !.so_snd = SubSeq(@, data + 1, Len(@)),
        !.snd_wnd = (@ - data) % WndSpace,
        !.snd_una = ti.ack, !.snd_nxt = IF SEQ_LT(@, ti.ack) THEN ti.ack ELSE @,
        !.t_timer = IF ti.ack = tp.snd_max THEN @ \ {"REXMT"}
                    ELSE IF "PERSIST" \notin @ THEN @ \cup {"REXMT"} ELSE @]

\* Mutant of NewAck: the last byte's ACK is taken for the FIN's.
NewAckEarly(tp, ti, fl, cw) ==
  LET t == Acked(tp, ti)
  IN IF t.t_state = "FIN_WAIT_1" /\ t.so_snd = <<>>
     THEN step6([t EXCEPT !.t_state = "FIN_WAIT_2"], ti, fl, FALSE, cw)
     ELSE step6(t, ti, fl, FALSE, cw)

\* The states in which the FIN's acknowledgement matters; acked is ourfinisacked.
FinAckedStates(tp, ti, fl, acked, needoutput, cw) ==
  LET idle == IF "CANTRCVMORE" \in tp.so_state
              THEN [soisdisconnected(tp) EXCEPT !.t_timer = @ \cup {"2MSL"}] ELSE tp
  IN CASE tp.t_state = "LAST_ACK" /\ acked -> Quiet(tcp_close(tp))
       [] tp.t_state = "TIME_WAIT" ->
            dropafterack([tp EXCEPT !.t_timer = @ \cup {"2MSL"}], fl, cw)
       [] OTHER ->
            step6(CASE tp.t_state = "FIN_WAIT_1" /\ acked -> [idle EXCEPT !.t_state = "FIN_WAIT_2"]
                    [] tp.t_state = "CLOSING" /\ acked -> TimeWait(tp)
                    [] OTHER -> tp,
                  ti, fl, needoutput, cw)

NewAck(tp, ti, fl, cw) ==
  IF SEQ_GT(ti.ack, tp.snd_max) THEN dropafterack([tp EXCEPT !.t_dupacks = 0], fl, cw)
  ELSE FinAckedStates(Acked(tp, ti), ti, fl, Diff(ti.ack, tp.snd_una) > Len(tp.so_snd),
                      ti.ack = tp.snd_max, cw)

SynAcked(tp, ti) == [Established(tp) EXCEPT !.snd_wl1 = Add(ti.seq, -1)]

AckSynchronized(tp, ti, fl, cw) ==
  IF SEQ_LEQ(ti.ack, tp.snd_una) THEN DupAck(tp, ti, fl, cw) ELSE NewAck(tp, ti, fl, cw)

\* Mutant of Ack: any ACK completes the handshake.
AckUnchecked(tp, ti, fl, cw) ==
  AckSynchronized(IF tp.t_state = "SYN_RECEIVED" THEN SynAcked(tp, ti) ELSE tp, ti, fl, cw)

Ack(tp, ti, fl, cw) ==
  LET syn == tp.t_state = "SYN_RECEIVED"
  IN IF syn /\ (SEQ_GT(tp.snd_una, ti.ack) \/ SEQ_GT(ti.ack, tp.snd_max))
     THEN dropwithreset(tp, ti, fl)
     ELSE AckSynchronized(IF syn THEN SynAcked(tp, ti) ELSE tp, ti, fl, cw)

\* r is what trimming has left of the segment.
InputTrimmed(r, cw) ==
  LET dropped == tcp_drop(r.tp, cw, "ECONNRESET")
  IN IF r.outside THEN dropafterack(r.tp, r.fl, cw)
     ELSE IF "RST" \in r.fl THEN InputReset(r.tp)
     ELSE IF "SYN" \in r.fl
     THEN [dropped EXCEPT !.out = @ \cup Reset(NoTcpcb, r.ti, r.fl)]
     ELSE IF "ACK" \notin r.fl THEN Quiet(r.tp)
     ELSE Ack(r.tp, r.ti, r.fl, cw)

\* l is the segment without what came before.
InputUnseen(l, wnd, cw) ==
  IF l.dup THEN dropafterack(l.tp, l.fl, cw)
  ELSE IF "NOFDREF" \in l.tp.so_state /\ l.tp.t_state \in UserClosed /\ l.ti.data # <<>>
  THEN dropwithreset(tcp_close(l.tp), l.ti, l.fl)
  ELSE InputTrimmed(TrimRight(l.tp, l.ti, l.fl, wnd), cw)

\* States other than LISTEN and SYN_SENT.
InputSynchronized(tp, ti, cw) == InputUnseen(TrimLeft(tp, ti), RcvWnd(tp), cw)

(***************************************************************************)
(* Header prediction: an in-sequence segment that changes neither the      *)
(* window nor the direction of the transfer.                               *)
(***************************************************************************)
Predictable(tp, ti) ==
  /\ tp.t_state = "ESTABLISHED" /\ ti.flags = {"ACK"} /\ ti.seq = tp.rcv_nxt
  /\ ti.win # 0 /\ ti.win = tp.snd_wnd /\ tp.snd_nxt = tp.snd_max

PureAck(tp, ti, cw) ==
  /\ Predictable(tp, ti) /\ ti.data = <<>>
  /\ SEQ_GT(ti.ack, tp.snd_una) /\ SEQ_LEQ(ti.ack, tp.snd_max) /\ cw >= tp.snd_wnd

PureData(tp, ti) ==
  /\ Predictable(tp, ti) /\ ti.data # <<>>
  /\ ti.ack = tp.snd_una /\ tp.segq = <<>> /\ Len(ti.data) <= Space(tp)

PredictedAck(tp, ti, cw) ==
  LET t == [Acked(tp, ti) EXCEPT !.snd_wnd = tp.snd_wnd, !.snd_nxt = tp.snd_nxt,
                                 !.t_dupacks = tp.t_dupacks]
  IN IF t.so_snd # <<>> THEN tcp_output(t, cw, FALSE) ELSE Quiet(t)

PredictedData(tp, ti) ==
  Quiet([Append2So(tp, <<ti.data>>) EXCEPT !.t_flags = @ \cup {"DELACK"}])

Input(tp, ti, cw) ==
  IF PureAck(tp, ti, cw) THEN PredictedAck(tp, ti, cw)
  ELSE IF PureData(tp, ti) THEN PredictedData(tp, ti)
  ELSE IF tp.t_state = "SYN_SENT" THEN InputSynSent(tp, ti, cw)
  ELSE InputSynchronized(tp, ti, cw)

(***************************************************************************)
(* The network.  What is sent to a host with MaxNet segments on their way  *)
(* is lost.                                                                *)
(***************************************************************************)
NoFewer(s, n) == IF Cardinality(s) <= n THEN {s} ELSE {t \in SUBSET s : Cardinality(t) = n}

\* Host h has become r.tp and sends r.out; arrived is what it took from the network.
Becomes(h, r, arrived) ==
  /\ tcb' = [tcb EXCEPT ![h] = r.tp]
  /\ \E kept \in NoFewer(net[Peer(h)] \cup r.out, MaxNet) :
       /\ net[Peer(h)] \subseteq kept
       /\ net' = [net EXCEPT ![h] = @ \ arrived, ![Peer(h)] = kept]

InFlight == UNION {net[h] : h \in Hosts}

Fault(kind) ==
  kind \in FaultKinds /\ faults < MaxFaults /\ faults' = faults + 1

Lose(h) ==
  \E ti \in net[h] :
    /\ Fault("net")
    /\ net' = [net EXCEPT ![h] = @ \ {ti}]
    /\ UNCHANGED <<tcb, tcp_iss>>

(***************************************************************************)
(* Segments arriving.                                                      *)
(***************************************************************************)
\* A segment for a connection that has a control block.
Receive(h, ti, arrived) ==
  \E cw \in CWnds : Becomes(h, Input(tcb[h], ti, cw), arrived) /\ UNCHANGED tcp_iss

\* A SYN for the listening socket: sonewconn() and the LISTEN state.
NewConnection(h, ti, arrived) ==
  LET so == [NoTcpcb EXCEPT !.conns = tcb[h].conns + 1]
      t == [Acknow(RcvSeqInit(SndSeqInit(so, tcp_iss[h]), ti.seq)) EXCEPT !.t_state = "SYN_RECEIVED"]
  IN /\ tcb[h].conns < MaxConns[h]
     /\ \E cw \in CWnds : Becomes(h, trimthenstep6(t, ti, RcvHiwat, cw), arrived)
     /\ tcp_iss' = [tcp_iss EXCEPT ![h] = Add(@, IssIncr)]

\* No connection: the listening socket, if there is one, gets the segment.
NoConnection(h, ti, arrived) ==
  LET syn == h \in Passive /\ "SYN" \in ti.flags /\ ti.flags \cap {"RST", "ACK"} = {}
      deaf == h \in Passive /\ "ACK" \notin ti.flags
      reply == IF deaf THEN {} ELSE Reset(NoTcpcb, ti, ti.flags)
  IN \/ syn /\ NewConnection(h, ti, arrived)
     \/ /\ ~syn \/ tcb[h].conns = MaxConns[h]
        /\ Becomes(h, [tp |-> tcb[h], out |-> reply], arrived) /\ UNCHANGED tcp_iss

tcp_input(h, ti, arrived) ==
  IF tcb[h].t_state = "NONE" THEN NoConnection(h, ti, arrived) ELSE Receive(h, ti, arrived)

Deliver(h) == \E ti \in net[h] : tcp_input(h, ti, {ti}) /\ UNCHANGED faults

Duplicate(h) ==
  \E ti \in net[h] : Fault("net") /\ tcp_input(h, ti, {})

(***************************************************************************)
(* Timers.                                                                 *)
(***************************************************************************)
\* A timeout is too early when segments are still on their way.
Due(h, timer) ==
  /\ timer \in tcb[h].t_timer
  /\ \/ InFlight = {} /\ UNCHANGED faults
     \/ InFlight # {} /\ Fault("timer")

Expired(h, timer) == [tcb[h] EXCEPT !.t_timer = @ \ {timer}]

Sending(h, r) == Becomes(h, r, {}) /\ UNCHANGED tcp_iss
Becoming(h, r) == Sending(h, r) /\ UNCHANGED faults

tcp_fasttimo(h) ==
  /\ "DELACK" \in tcb[h].t_flags
  /\ \E cw \in CWnds :
       Becoming(h, tcp_output(Acknow([tcb[h] EXCEPT !.t_flags = @ \ {"DELACK"}]), cw, FALSE))

Rexmt(h) ==
  LET t == [tcb[h] EXCEPT !.snd_nxt = tcb[h].snd_una, !.t_dupacks = 0]
  IN Due(h, "REXMT") /\ Sending(h, tcp_output(t, MaxSeg, FALSE))

Persist(h) ==
  /\ Due(h, "PERSIST")
  /\ \E cw \in CWnds : Sending(h, tcp_output(tcp_setpersist(Expired(h, "PERSIST")), cw, TRUE))

\* Segments live less than 2 MSL.  In FIN_WAIT_2 the timer is set again
\* until the connection has been idle for tcp_maxidle.
TwoMSL(h) ==
  /\ "2MSL" \in tcb[h].t_timer /\ InFlight = {}
  /\ Becoming(h, Quiet(tcp_close(tcb[h])))

\* Idle for hours: no segment is left, and no shorter timer is running.
Idle(h) ==
  /\ "keepalive" \in Users[h] /\ tcb[h].t_state \in {"ESTABLISHED", "CLOSE_WAIT"}
  /\ InFlight = {} /\ \A g \in Hosts : tcb[g].t_timer \cap {"REXMT", "PERSIST"} = {}

\* The last retransmission, or no answer to the SYN or to keepalives.
GivesUp(h) ==
  /\ InFlight = {}
  /\ \/ "REXMT" \in GiveUp /\ "REXMT" \in tcb[h].t_timer
     \/ "KEEP" \in GiveUp /\ tcb[h].t_state \in {"SYN_SENT", "SYN_RECEIVED"}
     \/ "KEEP" \in GiveUp /\ Idle(h)
  /\ \E cw \in CWnds : Becoming(h, tcp_drop(Expired(h, "REXMT"), cw, "ETIMEDOUT"))

\* The probe has a byte, for 4.2BSD's sake.
Keepalive(h) ==
  LET t == tcb[h]
      probe == [seq |-> Add(t.snd_una, -1), ack |-> Add(t.rcv_nxt, -1), flags |-> {"ACK"},
                win |-> Space(t) % WndSpace, data |-> <<Garbage>>]
  IN Idle(h) /\ Becoming(h, [tp |-> t, out |-> {probe}])

(***************************************************************************)
(* Requests of the user.                                                   *)
(***************************************************************************)
Connect(h) ==
  LET so == [NoTcpcb EXCEPT !.conns = tcb[h].conns + 1]
      t == [SndSeqInit(so, tcp_iss[h]) EXCEPT !.t_state = "SYN_SENT",
                                              !.so_state = {"ISCONNECTING"}]
  IN /\ h \in Active /\ tcb[h].t_state = "NONE" /\ tcb[h].conns < MaxConns[h]
     /\ \E cw \in CWnds : Becomes(h, tcp_output(t, cw, FALSE), {})
     /\ tcp_iss' = [tcp_iss EXCEPT ![h] = Add(@, IssIncr)]
     /\ UNCHANGED faults

\* sosend() of one byte, once there is room.
Send(h) ==
  LET t == [tcb[h] EXCEPT !.so_snd = Append(@, Byte(tcb[h].conns, tcb[h].sent + 1)),
                          !.sent = @ + 1]
  IN /\ tcb[h].t_state # "NONE" /\ tcb[h].sent < ToSend[h]
     /\ "ISCONNECTED" \in t.so_state /\ "CANTSENDMORE" \notin t.so_state
     /\ t.so_error = "none" /\ Len(tcb[h].so_snd) < SndHiwat
     /\ \E cw \in CWnds : Becoming(h, tcp_output(t, cw, FALSE))

\* soreceive() of all there is, then PRU_RCVD.
Recv(h) ==
  LET t == Emptied(tcb[h])
  IN /\ "recv" \in Users[h] /\ tcb[h].so_rcv > 0 /\ "NOFDREF" \notin t.so_state
     /\ \E cw \in CWnds :
          Becoming(h, IF t.t_state = "NONE" THEN Quiet(t) ELSE tcp_output(t, cw, FALSE))

tcp_usrclosed(tp) ==
  CASE tp.t_state \in {"CLOSED", "SYN_SENT"} -> tcp_close(tp)
    [] tp.t_state \in {"SYN_RECEIVED", "ESTABLISHED"} -> [tp EXCEPT !.t_state = "FIN_WAIT_1"]
    [] tp.t_state = "CLOSE_WAIT" -> [tp EXCEPT !.t_state = "LAST_ACK"]
    [] tp.t_state \in {"FIN_WAIT_2", "TIME_WAIT"} -> soisdisconnected(tp)
    [] OTHER -> tp

\* A passive connection is its user's from accept() on.
Owned(tp) == tp.t_state # "NONE" /\ "NOFDREF" \notin tp.so_state /\ tp.so_state # {}

\* It may be called again; in FIN_WAIT_2 that is the end of receiving, too.
Shutdown(h) ==
  LET again == tcb[h].t_state = "FIN_WAIT_2"
      t == tcp_usrclosed([tcb[h] EXCEPT !.so_state = @ \cup {"CANTSENDMORE"},
                                        !.hungup = @ \/ again])
  IN /\ Owned(tcb[h])
     /\ (IF tcb[h].t_state \in Unconnected THEN "abandon" ELSE "shutdown") \in Users[h]
     /\ \E cw \in CWnds :
          Becoming(h, IF t.t_state = "NONE" THEN Quiet(t) ELSE tcp_output(t, cw, FALSE))

tcp_disconnect(tp, cw) ==
  LET t == tcp_usrclosed(Emptied(soisdisconnecting(tp)))
  IN IF tp.t_state \in Unconnected THEN Quiet(tcp_close(tp)) ELSE tcp_output(t, cw, FALSE)

\* PRU_DETACH, and the end of the descriptor.
Detached(r) ==
  [tp |-> [(IF r.tp.t_state = "NONE" THEN Emptied(r.tp) ELSE r.tp) EXCEPT
             !.so_state = @ \cup {"NOFDREF"}],
   out |-> r.out]

tcp_detach(r, cw) ==
  LET d == tcp_disconnect(r.tp, cw)
  IN Detached(IF r.tp.t_state = "NONE" THEN r ELSE [d EXCEPT !.out = @ \cup r.out])

\* soclose(): PRU_DISCONNECT if connected, and PRU_DETACH.
Close(h) ==
  LET t == tcb[h]
      connected == "ISCONNECTED" \in t.so_state /\ "ISDISCONNECTING" \notin t.so_state
  IN /\ "close" \in Users[h] /\ "NOFDREF" \notin t.so_state /\ t.so_state # {}
     /\ \E cw \in CWnds :
          Becoming(h, tcp_detach(IF connected THEN tcp_disconnect(t, cw) ELSE Quiet(t), cw))
-----------------------------------------------------------------------------
Init ==
  /\ tcb = [h \in Hosts |-> NoTcpcb]
  /\ tcp_iss = InitIss
  /\ net = [h \in Hosts |-> {}] /\ faults = 0

Next ==
  \E h \in Hosts :
    \/ Connect(h) \/ Send(h) \/ Recv(h) \/ Shutdown(h) \/ Close(h)
    \/ Deliver(h) \/ Duplicate(h) \/ Lose(h)
    \/ tcp_fasttimo(h) \/ Rexmt(h) \/ Persist(h) \/ TwoMSL(h) \/ Keepalive(h) \/ GivesUp(h)

Spec == Init /\ [][Next]_vars

(***************************************************************************)
(* Fairness: segments that are not lost arrive, a reader reads, and a      *)
(* timer that runs runs out, whatever the other host does meanwhile; a     *)
(* user does not call shutdown() for ever.  The guards are written out, as *)
(* TLC cannot afford ENABLED of these handlers.                            *)
(***************************************************************************)
CanRead == \E h \in Hosts :
  "recv" \in Users[h] /\ tcb[h].so_rcv > 0 /\ "NOFDREF" \notin tcb[h].so_state

CanTick(h) ==
  \/ "DELACK" \in tcb[h].t_flags
  \/ tcb[h].t_timer # {} /\ InFlight = {}

Tick(h) == tcp_fasttimo(h) \/ Rexmt(h) \/ Persist(h) \/ TwoMSL(h)

Fairness ==
  /\ []<>(InFlight = {}) \/ []<><<\E h \in Hosts : Deliver(h)>>_vars
  /\ []<>~CanRead \/ []<><<\E h \in Hosts : Recv(h)>>_vars
  /\ \A h \in Hosts : <>[]~CanTick(h) \/ []<><<Tick(h)>>_vars
  /\ <>[][~\E h \in Hosts : Shutdown(h)]_vars

FairSpec == Spec /\ Fairness
-----------------------------------------------------------------------------
(***************************************************************************)
(* Properties.                                                             *)
(***************************************************************************)
\* Sequence numbers and windows keep their width, buffers their size.
TypeOK ==
  \A h \in Hosts :
    LET t == tcb[h]
    IN /\ t.t_state \in States
       /\ {t.iss, t.irs, t.snd_una, t.snd_nxt, t.snd_max, t.snd_wl1, t.snd_wl2,
           t.rcv_nxt, t.rcv_adv} \subseteq Seqs
       /\ {t.snd_wnd, t.max_sndwnd} \subseteq 0 .. WndSpace - 1
       /\ t.so_rcv \in 0 .. RcvHiwat /\ Len(t.so_snd) <= SndHiwat

\* What the peer's user wrote on its connection.
Written(h) == [i \in 1 .. tcb[h].sent |-> Byte(tcb[h].conns, i)]
\* Its user takes no more data.
Unlistened(h) ==
  tcb[h].hungup \/ tcb[h].so_state \cap {"NOFDREF", "ISDISCONNECTING"} # {}
\* The other host has given the connection up and answered another SYN.
Deserted(h) == tcb[Peer(h)].conns > tcb[h].conns
Joined == \A h \in Hosts : tcb[h].t_state \notin Unconnected

\* tcp_reass() and header prediction give a user the bytes the other user
\* wrote, in order, each once and none of a keepalive probe, whatever the
\* network loses, repeats or reorders and wherever the sequence numbers wrap.
InOrder == \A h \in Hosts : IsPrefix(tcb[h].got, Written(Peer(h)))

\* A user who reads end of file without an error has been given everything:
\* socantrcvmore() is called for a FIN only when all data before it is in
\* the socket buffer, and the other user has stopped writing.
EofMeansAll ==
  \A h \in Hosts :
    "CANTRCVMORE" \in tcb[h].so_state /\ tcb[h].so_error = "none"
    /\ ~Unlistened(h) /\ ~Deserted(h)
      => tcb[h].got = Written(Peer(h)) /\ "CANTSENDMORE" \in tcb[Peer(h)].so_state

\* sbdrop() forgets a byte only when the other host has it in its socket
\* buffer: an acknowledgement is never for data on the reassembly queue, nor
\* is a FIN's or a SYN's sequence number ever taken for a byte's.
AckedArrived ==
  \A h \in Hosts :
    tcb[h].t_state # "NONE" /\ ~Unlistened(Peer(h)) /\ ~Deserted(h)
      => tcb[h].sent - Len(tcb[h].so_snd) <= Len(tcb[Peer(h)].got)

\* A host whose SYN or data the other has not acknowledged, or whose data
\* waits for the window to open, has a timer running that will send again: no
\* path through tcp_input() or tcp_output() stops one timer without need of
\* the other.  This is for a host whose peer sends neither data nor a FIN, and
\* for a tcp_output() that gets its mbufs.
NoStall ==
  \A h \in Hosts :
    LET t == tcb[h]
    IN \/ t.t_state \in {"SYN_SENT", "SYN_RECEIVED"}
       \/ t.t_state # "NONE" /\ t.so_snd # <<>>
       => t.t_timer \cap {"REXMT", "PERSIST"} # {}

\* The retransmission and persist timers are never both running: the state
\* in which tcp_setpersist() panics.
OneTimer == \A h \in Hosts : ~({"REXMT", "PERSIST"} \subseteq tcb[h].t_timer)

\* Two hosts that think they are connected are connected to each other: a
\* SYN that comes late or twice makes no connection the other does not know.
Matched == Joined => \A h \in Hosts : tcb[h].irs = tcb[Peer(h)].iss

\* What the advertised window still lets the other host send fits below
\* sb_hiwat, though the window is never taken back when sbspace() falls below
\* it for want of storage and tcp_input() then takes data beyond sbspace().
PromiseKept ==
  \A h \in Hosts :
    HaveRcvdSyn(tcb[h]) =>
      Diff(tcb[h].rcv_adv, tcb[h].rcv_nxt) <= RcvHiwat - tcb[h].so_rcv

\* A host leaves FIN_WAIT_1 or CLOSING only when the other has taken its FIN:
\* an acknowledgement of data is never taken for one of the FIN.
FinAcked ==
  \A h \in Hosts :
    tcb[h].t_state \in {"FIN_WAIT_2", "TIME_WAIT"} /\ ~Deserted(h) =>
      tcb[Peer(h)].t_state \in {"NONE", "CLOSE_WAIT", "CLOSING", "LAST_ACK", "TIME_WAIT"}

\* Whatever is written is acknowledged in the end, through lost segments, a
\* closed window and lost window updates, or the connection is gone.
Drains == \A h \in Hosts : (tcb[h].so_snd # <<>>) ~> (tcb[h].so_snd = <<>>)

\* When both users have closed or shut down, both control blocks go away in
\* the end, whichever order the FINs and their acknowledgements come in and
\* whichever of them is lost.
Reaped ==
  (\A h \in Hosts : "CANTSENDMORE" \in tcb[h].so_state)
     ~> (\A h \in Hosts : tcb[h].t_state = "NONE")
=============================================================================
