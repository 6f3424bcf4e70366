------------------------------- MODULE Select -------------------------------
(***************************************************************************)
(* select(2): sys/kern/sys_generic.c with the sockets' side of it,         *)
(* soo_select() in sys_socket.c and sbselqueue() and sowakeup() in         *)
(* uipc_socket2.c (the terminals' ttselect() and ttwakeup() are the same   *)
(* protocol on other fields).                                              *)
(*                                                                         *)
(* A process scans the descriptors it is interested in and leaves its name *)
(* in the buffers that are not ready, one name per buffer; a second        *)
(* sleeper is recorded as a collision only.  The kernel is not preempted,  *)
(* but interrupts fill buffers, and tick, between any two descriptors of   *)
(* the scan and between the scan and the sleep.  tsleep() and the signals  *)
(* are the subject of Synch; here a process gets one caught signal, one    *)
(* stop signal and SIGCONT, the latter two with their default actions, at  *)
(* any time.                                                               *)
(***************************************************************************)
EXTENDS Integers, FiniteSets

CONSTANTS Procs,      \* processes
          Targets,    \* those that signals are sent to
          Bufs,       \* socket buffers
          Wants,      \* sets of descriptors that are asked for
          Intervals,  \* timeouts that are asked for, in units of time
          TickUnits,  \* units of time in a tick of the clock
          CollSpace,  \* the number of values of nselcoll
          None        \* no process; no timeout; a descriptor that is not open

ASSUME WantsAssumption == Wants \subseteq SUBSET (Bufs \cup {None}) /\ Targets \subseteq Procs
ASSUME NoneAssumption == None \notin Procs \cup Bufs \cup Int
\* itimerfix() refuses intervals that are too long.
ASSUME IntervalsAssumption ==
  /\ Intervals \subseteq Nat /\ TickUnits \in Nat \ {0}
  /\ \E t \in Intervals \cup {0} : \A u \in Intervals : u <= t
\* More collisions than values while one process scans cannot happen.
ASSUME CollAssumption ==
  IsFiniteSet(Bufs) /\ CollSpace \in Nat /\ CollSpace > Cardinality(Bufs)

VARIABLES
  ready,     \* the buffers that have data, or space
  sb_sel,    \* the process that a buffer knows of
  sb_coll,   \* the buffers with SB_COLL
  nselcoll,  \* the count of collisions
  ssel,      \* the processes with SSEL
  selwait,   \* the processes with p_wchan = &selwait, stopped or not
  stopped,   \* the processes in SSTOP
  stimo,     \* the processes with STIMO
  signalled, \* the processes with a caught signal pending
  stopsig,   \* the processes with a stop signal pending
  timer,     \* ticks until endtsleep(), 0 when there is no timer
  cpu,       \* the process in the kernel, None when another one runs
  pc, ibits, todo, tv, atv, timo, ncoll, done \* of each process

time   == <<tv, atv, timo>>
locals == <<pc, ibits, todo, ncoll, done>>
chans  == <<ready, sb_sel, sb_coll, nselcoll>>
flags  == <<ssel, selwait, stopped, stimo, signalled, stopsig, timer>>
vars   == <<chans, flags, cpu, locals, time>>

Init ==
  /\ ready = {} /\ sb_sel = [f \in Bufs |-> None] /\ sb_coll = {} /\ nselcoll = 0
  /\ ssel = {} /\ selwait = {} /\ stopped = {} /\ stimo = {} /\ signalled = {}
  /\ stopsig = {}
  /\ timer = [p \in Procs |-> 0] /\ cpu = None
  /\ pc = [p \in Procs |-> "user"]
  /\ ibits = [p \in Procs |-> {}] /\ todo = [p \in Procs |-> {}]
  /\ tv = [p \in Procs |-> None] /\ atv = [p \in Procs |-> None]
  /\ timo = [p \in Procs |-> 0]
  /\ ncoll = [p \in Procs |-> 0] /\ done = [p \in Procs |-> FALSE]

-----------------------------------------------------------------------------
(* The buffers: what a scan leaves in one, and what an event does with it. *)

(* Mutant: the last process to scan the buffer is the one it knows. *)
sbselqueueLast(p, f) ==
  sb_sel' = [sb_sel EXCEPT ![f] = p] /\ UNCHANGED sb_coll

(* sbselqueue(): a process known to the buffer that sleeps in select()     *)
(* stays its process, and the new one makes a collision.                   *)
sbselqueue(p, f) ==
  IF sb_sel[f] \in selwait
  THEN sb_coll' = sb_coll \cup {f} /\ UNCHANGED sb_sel
  ELSE sb_sel' = [sb_sel EXCEPT ![f] = p] /\ UNCHANGED sb_coll

(* selwakeup() of process p: after a collision everyone in select() is     *)
(* awakened; one that is not asleep yet is told by nselcoll or by SSEL.    *)
selwakeup(p, coll) ==
  /\ nselcoll' = IF coll THEN (nselcoll + 1) % CollSpace ELSE nselcoll
  /\ selwait' = IF coll THEN {} ELSE selwait \ {p}
  /\ ssel' = IF ~coll /\ p \in selwait THEN ssel ELSE ssel \ {p}

(* The buffer becomes ready, in an interrupt or by a process, and          *)
(* sowakeup() is called.                                                   *)
Sowakeup(f) ==
  /\ ready' = ready \cup {f}
  /\ IF sb_sel[f] = None
     THEN UNCHANGED <<nselcoll, selwait, ssel>>
     ELSE selwakeup(sb_sel[f], f \in sb_coll)
  /\ sb_sel' = [sb_sel EXCEPT ![f] = None]
  /\ sb_coll' = IF sb_sel[f] = None THEN sb_coll ELSE sb_coll \ {f}
  /\ UNCHANGED <<stopped, stimo, signalled, stopsig, timer, cpu, locals, time>>

(* Some process takes the data, or fills the space. *)
Consume(f) ==
  /\ cpu = None /\ f \in ready
  /\ ready' = ready \ {f}
  /\ UNCHANGED <<sb_sel, sb_coll, nselcoll, flags, cpu, locals, time>>

-----------------------------------------------------------------------------
(* The process.                                                            *)

(* select() reads its arguments and, at splhigh(), the time at which the   *)
(* timeout ends.                                                           *)
Select(p) ==
  /\ cpu = None /\ pc[p] = "user"
  /\ \E want \in Wants, t \in Intervals \cup {None} :
       /\ ibits' = [ibits EXCEPT ![p] = want]
       /\ tv' = [tv EXCEPT ![p] = t] /\ atv' = [atv EXCEPT ![p] = t]
  /\ pc' = [pc EXCEPT ![p] = "hzto"] /\ cpu' = p
  /\ UNCHANGED <<chans, flags, todo, ncoll, done, timo>>

(* The label retry: before a scan. *)
Retry(p) ==
  /\ pc' = [pc EXCEPT ![p] = "scan"]
  /\ ncoll' = [ncoll EXCEPT ![p] = nselcoll]
  /\ ssel' = ssel \cup {p}
  /\ todo' = [todo EXCEPT ![p] = ibits[p]] /\ done' = [done EXCEPT ![p] = FALSE]
  /\ cpu' = p

(* hzto(): the whole ticks that are left, computed once. *)
Hzto(p) ==
  /\ pc[p] = "hzto"
  /\ timo' = [timo EXCEPT ![p] = IF atv[p] = None THEN 0 ELSE atv[p] \div TickUnits]
  /\ Retry(p)
  /\ UNCHANGED <<chans, selwait, stopped, stimo, signalled, stopsig, timer, ibits, tv, atv>>

(* One turn of selscan()'s loop, soo_select() at splnet() or EBADF. *)
Selscan(p) ==
  /\ pc[p] = "scan"
  /\ \E f \in todo[p] :
       /\ todo' = [todo EXCEPT ![p] = @ \ {f}]
       /\ IF f \in ready \cup {None}
          THEN done' = [done EXCEPT ![p] = TRUE] /\ UNCHANGED <<sb_sel, sb_coll>>
          ELSE sbselqueue(p, f) /\ UNCHANGED done
  /\ UNCHANGED <<ready, nselcoll, flags, cpu, pc, ibits, ncoll, time>>

(* The label done; the local variables are gone, and what is pending is    *)
(* acted on at the end of the system call.                                 *)
Done(p) ==
  /\ pc' = [pc EXCEPT ![p] = "user"] /\ cpu' = None
  /\ ssel' = ssel \ {p}
  /\ signalled' = signalled \ {p} /\ stopsig' = stopsig \ {p}
  /\ ibits' = [ibits EXCEPT ![p] = {}] /\ todo' = [todo EXCEPT ![p] = {}]
  /\ tv' = [tv EXCEPT ![p] = None] /\ atv' = [atv EXCEPT ![p] = None]
  /\ timo' = [timo EXCEPT ![p] = 0]
  /\ ncoll' = [ncoll EXCEPT ![p] = 0] /\ done' = [done EXCEPT ![p] = FALSE]

(* After the scan, at splhigh(): return, scan again, or call tsleep(),     *)
(* which returns at once when CURSIG finds a caught signal and stops when  *)
(* it finds a stop signal; of two pending signals the one with the smaller *)
(* number is first.                                                        *)
Scanned(p) == pc[p] = "scan" /\ todo[p] = {}

(* Mutant: the time is not looked at before the process sleeps again. *)
LateNever(p) == FALSE

Late(p) == atv[p] # None /\ atv[p] <= 0

Changed(p) == p \notin ssel \/ nselcoll # ncoll[p]

Return(p) ==
  /\ Scanned(p)
  /\ \/ done[p] \/ Late(p)
     \/ ~Changed(p) /\ p \in signalled
  /\ Done(p)
  /\ UNCHANGED <<chans, selwait, stopped, stimo, timer>>

ScanAgain(p) ==
  /\ Scanned(p) /\ ~done[p] /\ ~Late(p) /\ Changed(p)
  /\ Retry(p)
  /\ UNCHANGED <<chans, selwait, stopped, stimo, signalled, stopsig, timer, ibits, time>>

(* tsleep() up to its first CURSIG: p waits for selwait, and goes to label.  *)
Wait(p, label) ==
  /\ Scanned(p) /\ ~done[p] /\ ~Late(p) /\ ~Changed(p)
  /\ ssel' = ssel \ {p}
  /\ selwait' = selwait \cup {p}
  /\ pc' = [pc EXCEPT ![p] = label] /\ cpu' = None
  /\ ncoll' = [ncoll EXCEPT ![p] = 0]
  /\ UNCHANGED <<chans, stimo, signalled, stopsig, ibits, todo, done, time>>

(* No signal: the timer is started and the process sleeps. *)
Sleep(p) ==
  /\ p \notin signalled \cup stopsig
  /\ Wait(p, "tsleep")
  /\ timer' = [timer EXCEPT ![p] = timo[p]]
  /\ UNCHANGED stopped

(* It stops in CURSIG: its timer is not started, and SSINTR is not set. *)
SleepStopped(p) ==
  /\ p \in stopsig
  /\ Wait(p, "issig")
  /\ stopped' = stopped \cup {p}
  /\ UNCHANGED timer

(* tsleep() is over: interrupted, with EINTR, or else select() scans again. *)
Awoken(p) ==
  \/ p \in signalled /\ Done(p)
  \/ p \notin signalled /\ Retry(p) /\ stopsig' = stopsig \ {p}
     /\ UNCHANGED <<signalled, ibits, time>>

(* It stops in tsleep()'s second CURSIG. *)
AwakeStopped(p) ==
  /\ p \in stopsig
  /\ stopped' = stopped \cup {p}
  /\ pc' = [pc EXCEPT ![p] = "issig"]
  /\ UNCHANGED <<ssel, signalled, stopsig, cpu, ibits, todo, ncoll, done, time>>

(* swtch() returns in tsleep(): EWOULDBLOCK, or the second CURSIG. *)
Awake(p) ==
  /\ pc[p] = "tsleep" /\ cpu = None /\ p \notin selwait \cup stopped
  /\ timer' = [timer EXCEPT ![p] = 0]
  /\ stimo' = stimo \ {p}
  /\ \/ p \in stimo /\ Done(p) /\ UNCHANGED stopped
     \/ p \notin stimo /\ p \notin stopsig \ signalled /\ Awoken(p) /\ UNCHANGED stopped
     \/ p \notin stimo /\ AwakeStopped(p)
  /\ UNCHANGED <<chans, selwait>>

(* swtch() returns in issig(), which takes away the signal it stopped for. *)
Continued(p) ==
  /\ pc[p] = "issig" /\ cpu = None /\ p \notin selwait \cup stopped
  /\ Awoken(p)
  /\ UNCHANGED <<chans, selwait, stopped, stimo, timer>>

-----------------------------------------------------------------------------
(* What happens to the process meanwhile.                                  *)

Oldest == -(CHOOSE t \in Intervals \cup {0} : \A u \in Intervals : u <= t)

(* hardclock() and softclock(): time passes, and endtsleep() ends the      *)
(* sleeps whose time is over.  How late it is is counted to Oldest.        *)
Tick ==
  LET expired == {p \in selwait : timer[p] = 1}
  IN /\ atv' = [p \in Procs |->
                  IF atv[p] = None THEN None
                  ELSE IF atv[p] - TickUnits < Oldest THEN Oldest ELSE atv[p] - TickUnits]
     /\ timer' = [p \in Procs |-> IF timer[p] > 0 THEN timer[p] - 1 ELSE 0]
     /\ selwait' = selwait \ expired
     /\ stimo' = stimo \cup expired
     /\ UNCHANGED <<chans, ssel, stopped, signalled, stopsig, cpu, locals, tv, timo>>

(* psignal() of a caught signal: it ends a sleep with SSINTR, of a stopped *)
(* process too.                                                            *)
Signal(p) ==
  /\ p \in Targets /\ pc[p] # "user" /\ p \notin signalled
  /\ signalled' = signalled \cup {p}
  /\ selwait' = IF pc[p] = "tsleep" THEN selwait \ {p} ELSE selwait
  /\ UNCHANGED <<chans, ssel, stopped, stimo, stopsig, timer, cpu, locals, time>>

(* psignal() of a stop signal: it stops a sleep with SSINTR, and is else   *)
(* left to CURSIG.                                                         *)
Stop(p) ==
  /\ p \in Targets /\ pc[p] # "user" /\ p \notin stopped
  /\ IF pc[p] = "tsleep" /\ p \in selwait
     THEN stopped' = stopped \cup {p} /\ UNCHANGED stopsig
     ELSE stopsig' = stopsig \cup {p} /\ UNCHANGED stopped
  /\ UNCHANGED <<chans, ssel, selwait, stimo, signalled, timer, cpu, locals, time>>

(* psignal() of SIGCONT: a stopped process runs, or sleeps again; a sleep  *)
(* with SSINTR ends; a stop signal that is pending is cancelled.           *)
Cont(p) ==
  /\ p \in Targets /\ pc[p] # "user"
  /\ stopped' = stopped \ {p} /\ stopsig' = stopsig \ {p}
  /\ selwait' = IF pc[p] = "tsleep" /\ p \notin stopped THEN selwait \ {p} ELSE selwait
  /\ UNCHANGED <<chans, ssel, stimo, signalled, timer, cpu, locals, time>>

Process(p) ==
  \/ Select(p) \/ Hzto(p) \/ Selscan(p) \/ Return(p) \/ ScanAgain(p) \/ Sleep(p)
  \/ SleepStopped(p) \/ Awake(p) \/ Continued(p) \/ Signal(p) \/ Stop(p) \/ Cont(p)

Next ==
  \/ Tick
  \/ \E f \in Bufs : Sowakeup(f) \/ Consume(f)
  \/ \E p \in Procs : Process(p)

Spec == Init /\ [][Next]_vars

-----------------------------------------------------------------------------
(* Correctness.                                                            *)

(* No process sleeps in select() while one of its descriptors is ready,    *)
(* whatever arrived during its scan and whoever else has left a name in    *)
(* the buffer.                                                             *)
NotAsleepOnReady == \A p \in selwait : ibits[p] \cap ready = {}

(* select.2: timeout "specifies a maximum interval to wait".  The timer is *)
(* started anew after every wakeup, so that what holds is that a process   *)
(* with a timeout sleeps for less than twice the interval.  It holds of    *)
(* the sleeps that are timed: one that tsleep() begins stopped in its      *)
(* first CURSIG has no timer when SIGCONT lets it go on.                   *)
TimeoutEndsSleep ==
  \A p \in selwait :
    tv[p] # None /\ pc[p] = "tsleep" => timer[p] > 0 /\ -atv[p] < tv[p]
=============================================================================
