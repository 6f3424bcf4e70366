-------------------------------- MODULE Synch --------------------------------
(***************************************************************************)
(* Sleeping, waking, stopping and signalling of processes: tsleep(),       *)
(* endtsleep(), unsleep(), wakeup() and setrun() of sys/kern/kern_synch.c  *)
(* with psignal(), issig() and psig() of sys/kern/kern_sig.c.              *)
(*                                                                         *)
(* One process runs at a time (cpu); wakeups, timeouts and signals come    *)
(* from interrupts, or from the running process, between any two of its    *)
(* steps unless it is at splhigh().  sleep() is tsleep() without PCATCH    *)
(* and without a timeout.  All channels share one sleep queue, as those    *)
(* of one hash value do; nothing depends on the order of the queue.        *)
(*                                                                         *)
(* No process is traced, in vfork(), swapped out or a system process:      *)
(* STRC, SVFORK and SLOAD, and priorities, are left out.  The timeouts are *)
(* the abstract ones of module Timers: a pending call of endtsleep() is    *)
(* made sometime unless untimeout() comes first.  SIGCHLD and the wakeup   *)
(* of the parent go to a process outside the model.                        *)
(***************************************************************************)
EXTENDS Integers

CONSTANTS Procs, Chans,
          Sigs,        \* the signals that are sent
          Orphans,     \* processes whose pg_jobc is 0
          Sleeps,      \* the calls of tsleep() made: <<catch, timo>>
          Handled,     \* signals whose action may be changed
          Masked,      \* signals sigprocmask() is asked to hold
          None

AllSigs == {"INT", "KILL", "STOP", "TSTP", "CONT"}

CantMask == {"KILL", "STOP"}

ASSUME SynchAssumption ==
  /\ Sigs \subseteq AllSigs /\ Orphans \subseteq Procs
  /\ Sleeps \subseteq BOOLEAN \X BOOLEAN
  /\ Handled \subseteq AllSigs \ CantMask
  /\ Masked \subseteq AllSigs
  /\ None \notin Procs \cup Chans \cup AllSigs

VARIABLES
  p_stat, p_wchan,
  p_flag,        \* subset of {"SSINTR", "STIMO"}
  p_sig, p_sigmask, p_xstat,
  u_signal,      \* SIG_DFL, SIG_IGN, or a handler
  slpque,        \* how often each process is linked into the sleep queue
  runq,          \* the run queues: processes setrq() has been called for
  callout,       \* number of pending timeouts of endtsleep(p)
  cpu,           \* the running process, or None
  pc,            \* where each process is
  ret,           \* where issig() returns to
  found,         \* what issig() returned; in issig(), the signal it stops for
  call,          \* the call of tsleep() in progress: [chan, catch, timo]
  awoken,        \* has wakeup() been called for it since it called tsleep()
  status         \* what tsleep() last returned

queues == <<p_stat, p_wchan, slpque, runq>>
signals == <<p_sig, p_sigmask, p_xstat, u_signal>>
frames == <<pc, ret, found, call, status>>
vars == <<queues, p_flag, signals, callout, cpu, frames, awoken>>

TtyStops == {"TSTP"}
Stops == {"STOP", "TSTP"}
Actions == {"DFL", "IGN", "CATCH"}
Calls == [chan : Chans, catch : BOOLEAN, timo : BOOLEAN]
Labels == {"user", "kernel", "issig", "stopped", "checked", "slept", "woken",
           "trap", "dead"}
Returns == {"trap", "checked", "woken"}

TypeOK ==
  /\ p_stat \in [Procs -> {"SRUN", "SSLEEP", "SSTOP", "SZOMB"}]
  /\ p_wchan \in [Procs -> Chans \cup {None}]
  /\ p_flag \in [Procs -> SUBSET {"SSINTR", "STIMO"}]
  /\ p_sig \in [Procs -> SUBSET Sigs] /\ p_sigmask \in [Procs -> SUBSET (AllSigs \ CantMask)]
  /\ p_xstat \in [Procs -> Stops \cup {None}]
  /\ u_signal \in [Procs -> [AllSigs -> Actions]]
  /\ slpque \in [Procs -> Nat] /\ runq \subseteq Procs
  /\ callout \in [Procs -> Nat] /\ cpu \in Procs \cup {None}
  /\ pc \in [Procs -> Labels] /\ ret \in [Procs -> Returns]
  /\ found \in [Procs -> Sigs \cup {None}] /\ call \in [Procs -> Calls \cup {None}]
  /\ awoken \in [Procs -> BOOLEAN]
  /\ status \in [Procs -> {"none", "0", "EINTR", "EWOULDBLOCK"}]

Init ==
  /\ p_stat = [p \in Procs |-> "SRUN"] /\ p_wchan = [p \in Procs |-> None]
  /\ p_flag = [p \in Procs |-> {}]
  /\ p_sig = [p \in Procs |-> {}] /\ p_sigmask = [p \in Procs |-> {}]
  /\ p_xstat = [p \in Procs |-> None]
  /\ u_signal = [p \in Procs |-> [s \in AllSigs |-> "DFL"]]
  /\ slpque = [p \in Procs |-> 0] /\ runq = Procs /\ callout = [p \in Procs |-> 0]
  /\ cpu = None
  /\ pc = [p \in Procs |-> "user"] /\ ret = [p \in Procs |-> "trap"]
  /\ found = [p \in Procs |-> None] /\ call = [p \in Procs |-> None]
  /\ awoken = [p \in Procs |-> FALSE] /\ status = [p \in Procs |-> "none"]

-----------------------------------------------------------------------------
(* The queues.                                                             *)

At(p, label) == cpu = p /\ pc[p] = label

Goto(p, label) == pc' = [pc EXCEPT ![p] = label]

(* The running process is at splhigh(): tsleep() calls CURSIG there. *)
AtHigh == cpu # None /\ pc[cpu] \in {"issig", "checked"}
                     /\ (pc[cpu] = "issig" => ret[cpu] = "checked")

(* unsleep(p): off the sleep queue, if it is on one. *)
unsleep(p) ==
  /\ slpque' = [slpque EXCEPT ![p] = IF p_wchan[p] # None THEN @ - 1 ELSE @]
  /\ p_wchan' = [p_wchan EXCEPT ![p] = None]

(* Mutant of setrun: the process is left on its sleep queue. *)
setrunQueued(p) ==
  /\ p_stat' = [p_stat EXCEPT ![p] = "SRUN"]
  /\ runq' = runq \cup {p}
  /\ UNCHANGED <<slpque, p_wchan>>

(* setrun(p), called only for a process that is stopped or asleep. *)
setrun(p) ==
  /\ unsleep(p)
  /\ p_stat' = [p_stat EXCEPT ![p] = "SRUN"]
  /\ runq' = runq \cup {p}

(* End the wait of the processes in P. *)
Awaken(P, c) ==
  LET R == {p \in P : p_stat[p] = "SSLEEP"}
  IN /\ ~AtHigh
     /\ slpque' = [p \in Procs |-> IF p \in P THEN slpque[p] - 1 ELSE slpque[p]]
     /\ p_wchan' = [p \in Procs |-> IF p \in P THEN None ELSE p_wchan[p]]
     /\ p_stat' = [p \in Procs |-> IF p \in R THEN "SRUN" ELSE p_stat[p]]
     /\ runq' = runq \cup R
     /\ awoken' = [p \in Procs |-> p_wchan[p] = c \/ awoken[p]]
     /\ UNCHANGED <<p_flag, signals, callout, cpu, frames>>

(* wakeup(c): every process waiting for c stops waiting; those that are    *)
(* asleep, not stopped, become runnable.                                   *)
Wakeup(c) == Awaken({p \in Procs : p_wchan[p] = c}, c)

(* swtch() takes a process from the run queues. *)
Dispatch(p) ==
  /\ cpu = None /\ p \in runq
  /\ cpu' = p /\ runq' = runq \ {p}
  /\ UNCHANGED <<p_stat, p_wchan, slpque, p_flag, signals, callout, frames, awoken>>

-----------------------------------------------------------------------------
(* tsleep() and endtsleep().                                               *)

(* The end of tsleep()'s first half: asleep, with its timer started, and   *)
(* another process runs.                                                   *)
SwitchAway(p, timo, fl) ==
  /\ p_stat' = [p_stat EXCEPT ![p] = "SSLEEP"]
  /\ p_flag' = [p_flag EXCEPT ![p] = @ \cup fl]
  /\ callout' = [callout EXCEPT ![p] = IF timo THEN @ + 1 ELSE @]
  /\ cpu' = None
  /\ Goto(p, "slept")

(* tsleep(c): onto the sleep queue; then, with PCATCH, CURSIG. *)
Tsleep(p, c, catch, timo) ==
  /\ At(p, "kernel") /\ <<catch, timo>> \in Sleeps
  /\ p_wchan' = [p_wchan EXCEPT ![p] = c]
  /\ slpque' = [slpque EXCEPT ![p] = @ + 1]
  /\ call' = [call EXCEPT ![p] = [chan |-> c, catch |-> catch, timo |-> timo]]
  /\ awoken' = [awoken EXCEPT ![p] = FALSE]
  /\ IF catch
     THEN /\ Goto(p, "issig") /\ ret' = [ret EXCEPT ![p] = "checked"]
          /\ UNCHANGED <<p_stat, p_flag, callout, cpu>>
     ELSE SwitchAway(p, timo, {}) /\ UNCHANGED ret
  /\ UNCHANGED <<runq, signals, found, status>>

(* tsleep() returns v to its caller, which goes on, or, interrupted, ends  *)
(* the system call.  EINTR stands for ERESTART too.                        *)
TsleepReturns(p, v) ==
  /\ status' = [status EXCEPT ![p] = v]
  /\ call' = [call EXCEPT ![p] = None]
  /\ IF v = "EINTR"
     THEN Goto(p, "issig") /\ ret' = [ret EXCEPT ![p] = "trap"]
     ELSE Goto(p, "kernel") /\ UNCHANGED ret

(* After the first CURSIG: interrupted by a signal, awakened while it was  *)
(* stopped there, or now asleep with flags fl.                             *)
Checked(p, fl) ==
  /\ At(p, "checked")
  /\ \/ /\ found[p] # None
        /\ unsleep(p)
        /\ p_stat' = [p_stat EXCEPT ![p] = "SRUN"]
        /\ TsleepReturns(p, "EINTR")
        /\ UNCHANGED <<p_flag, callout, cpu>>
     \/ /\ found[p] = None /\ p_wchan[p] = None
        /\ TsleepReturns(p, "0")
        /\ UNCHANGED <<p_stat, p_wchan, slpque, p_flag, callout, cpu>>
     \/ /\ found[p] = None /\ p_wchan[p] # None
        /\ SwitchAway(p, call[p].timo, fl)
        /\ UNCHANGED <<p_wchan, slpque, ret, call, status>>
  /\ UNCHANGED <<runq, signals, found, awoken>>

(* Mutant of TsleepChecked: the sleep is not marked interruptible. *)
TsleepCheckedUnmarked(p) == Checked(p, {})

TsleepChecked(p) == Checked(p, {"SSINTR"})

(* tsleep() runs again after swtch(), with n timers left running. *)
Resume(p, n) ==
  LET timedout == "STIMO" \in p_flag[p]
  IN /\ At(p, "slept")
     /\ p_flag' = [p_flag EXCEPT ![p] = {}]
     /\ callout' = [callout EXCEPT ![p] = IF timedout THEN @ ELSE n]
     /\ \/ timedout /\ TsleepReturns(p, "EWOULDBLOCK")
        \/ /\ ~timedout /\ call[p].catch
           /\ Goto(p, "issig") /\ ret' = [ret EXCEPT ![p] = "woken"]
           /\ UNCHANGED <<call, status>>
        \/ ~timedout /\ ~call[p].catch /\ TsleepReturns(p, "0")
     /\ UNCHANGED <<queues, signals, cpu, found, awoken>>

(* untimeout(endtsleep, p), if the sleep has a timeout. *)
Untimed(p) == IF call[p].timo /\ callout[p] > 0 THEN callout[p] - 1 ELSE callout[p]

(* Mutant of TsleepResume: the timer is left running. *)
TsleepResumeTimed(p) == Resume(p, callout[p])

TsleepResume(p) == Resume(p, Untimed(p))

(* tsleep() after the second CURSIG. *)
TsleepWoken(p) ==
  /\ At(p, "woken")
  /\ TsleepReturns(p, IF found[p] # None THEN "EINTR" ELSE "0")
  /\ UNCHANGED <<queues, p_flag, signals, callout, cpu, found, awoken>>

(* Mutant of Endtsleep: the process is marked but does not run. *)
EndtsleepMarks(p) ==
  /\ ~AtHigh /\ callout[p] > 0
  /\ callout' = [callout EXCEPT ![p] = @ - 1]
  /\ p_flag' = [p_flag EXCEPT ![p] = @ \cup {"STIMO"}]
  /\ UNCHANGED <<queues, signals, cpu, frames, awoken>>

(* Mutant of Endtsleep: the process runs but is not marked. *)
EndtsleepQuiet(p) ==
  /\ ~AtHigh /\ callout[p] > 0
  /\ callout' = [callout EXCEPT ![p] = @ - 1]
  /\ IF p_wchan[p] # None /\ p_stat[p] = "SSLEEP" THEN setrun(p) ELSE UNCHANGED queues
  /\ UNCHANGED <<p_flag, signals, cpu, frames, awoken>>

(* endtsleep(p), called by softclock(): it ends the wait of p, if p still  *)
(* waits, and makes it run unless it is stopped.                           *)
Endtsleep(p) ==
  /\ ~AtHigh /\ callout[p] > 0
  /\ callout' = [callout EXCEPT ![p] = @ - 1]
  /\ IF p_wchan[p] # None
     THEN /\ p_flag' = [p_flag EXCEPT ![p] = @ \cup {"STIMO"}]
          /\ IF p_stat[p] = "SSLEEP" THEN setrun(p)
             ELSE unsleep(p) /\ UNCHANGED <<p_stat, runq>>
     ELSE UNCHANGED <<p_flag, queues>>
  /\ UNCHANGED <<signals, cpu, frames, awoken>>

-----------------------------------------------------------------------------
(* psignal().                                                              *)

Action(p, s) ==
  IF s \in p_sigmask[p] THEN "HOLD" ELSE IF u_signal[p][s] = "CATCH" THEN "CATCH" ELSE "DFL"

(* p_sigignore: SIGCONT is never in it.  A dead process ignores all. *)
Ignored(p, s) == p_stat[p] = "SZOMB" \/ (u_signal[p][s] = "IGN" /\ s # "CONT")

(* p_sig of p when s has been posted: a continue signal cancels the stop   *)
(* signals that are pending, and the reverse.                              *)
Cancelled(s) == IF s = "CONT" THEN Stops ELSE IF s \in Stops THEN {"CONT"} ELSE {}

Posted(p, s) == {s} \cup (p_sig[p] \ Cancelled(s))

(* stop(p). *)
Stop(p, s) ==
  /\ p_stat' = [p_stat EXCEPT ![p] = "SSTOP"]
  /\ p_xstat' = [p_xstat EXCEPT ![p] = s]

Post(p, sigs) == p_sig' = [p_sig EXCEPT ![p] = sigs]

(* A sleeping process gets the signal s. *)
SignalSleeping(p, s) ==
  LET stops == s \in Stops /\ Action(p, s) = "DFL"
  IN \/ /\ "SSINTR" \notin p_flag[p]
        /\ Post(p, Posted(p, s)) /\ UNCHANGED <<queues, p_xstat>>
     \/ /\ "SSINTR" \in p_flag[p] /\ stops
        /\ Post(p, Posted(p, s) \ {s}) /\ Stop(p, s)
        /\ UNCHANGED <<p_wchan, slpque, runq>>
     \/ /\ "SSINTR" \in p_flag[p] /\ ~stops
        /\ Post(p, Posted(p, s)) /\ setrun(p) /\ UNCHANGED p_xstat

(* SIGCONT for a stopped process, which sleeps again if it waits. *)
Continue(p, waits) ==
  LET a == Action(p, "CONT")
      sigs == Posted(p, "CONT")
  IN /\ Post(p, IF a = "DFL" THEN sigs \ {"CONT"} ELSE sigs)
     /\ IF a = "CATCH" \/ ~waits
        THEN setrun(p)
        ELSE /\ p_stat' = [p_stat EXCEPT ![p] = "SSLEEP"]
             /\ UNCHANGED <<p_wchan, slpque, runq>>

(* Mutant of ContinueStopped: what was in tsleep() goes back to sleep. *)
ContinueStoppedInCall(p) == Continue(p, call[p] # None)

ContinueStopped(p) == Continue(p, p_wchan[p] # None)

(* Mutant of SignalStopped: signals wait until the process is continued. *)
SignalStoppedWaits(p, s) ==
  \/ s = "KILL" /\ Post(p, Posted(p, s)) /\ setrun(p)
  \/ s = "CONT" /\ ContinueStopped(p)
  \/ s \in Stops /\ Post(p, Posted(p, s) \ {s}) /\ UNCHANGED queues
  \/ s \notin Stops \cup {"KILL", "CONT"} /\ Post(p, Posted(p, s)) /\ UNCHANGED queues

(* A stopped process gets the signal s. *)
SignalStopped(p, s) ==
  \/ s = "KILL" /\ Post(p, Posted(p, s)) /\ setrun(p)
  \/ s = "CONT" /\ ContinueStopped(p)
  \/ s \in Stops /\ Post(p, Posted(p, s) \ {s}) /\ UNCHANGED queues
  \/ /\ s \notin Stops \cup {"KILL", "CONT"}
     /\ Post(p, Posted(p, s))
     /\ IF p_wchan[p] # None /\ "SSINTR" \in p_flag[p]
        THEN unsleep(p) /\ UNCHANGED <<p_stat, runq>>
        ELSE UNCHANGED queues

(* psignal(p, s).  A held signal is only noted, except that SIGCONT always *)
(* continues a stopped process.                                            *)
Psignal(p, s) ==
  LET held == Action(p, s) = "HOLD" /\ (s # "CONT" \/ p_stat[p] # "SSTOP")
  IN /\ ~AtHigh /\ ~Ignored(p, s)
     /\ \/ ~held /\ p_stat[p] = "SSLEEP" /\ SignalSleeping(p, s)
        \/ ~held /\ p_stat[p] = "SSTOP" /\ SignalStopped(p, s) /\ UNCHANGED p_xstat
        \/ /\ held \/ p_stat[p] \notin {"SSLEEP", "SSTOP"}
           /\ Post(p, Posted(p, s)) /\ UNCHANGED <<queues, p_xstat>>
     /\ UNCHANGED <<p_flag, p_sigmask, u_signal, callout, cpu, frames, awoken>>

-----------------------------------------------------------------------------
(* issig() and psig().                                                     *)

(* Signals are looked at in the order of their numbers. *)
Number == [INT |-> 2, KILL |-> 9, STOP |-> 17, TSTP |-> 18, CONT |-> 19]

(* issig() takes s away without doing anything: it is ignored, or its      *)
(* default is to be ignored, or it would stop an orphan from the terminal. *)
Dropped(p, s) ==
  \/ u_signal[p][s] = "IGN"
  \/ u_signal[p][s] = "DFL" /\ (s = "CONT" \/ (s \in TtyStops /\ p \in Orphans))

Deliverable(p) == {s \in p_sig[p] \ p_sigmask[p] : ~Dropped(p, s)}

(* issig(), from the top of its loop: stop for a stop signal whose action  *)
(* is the default, or return the first signal that is not dropped, or 0.   *)
Issig(p) ==
  LET D == Deliverable(p)
      s == IF D = {} THEN None
           ELSE CHOOSE d \in D : \A e \in D : Number[d] <= Number[e]
      gone == {d \in p_sig[p] \ p_sigmask[p] :
                 Dropped(p, d) /\ (s = None \/ Number[d] < Number[s])}
      stops == s \in Stops /\ u_signal[p][s] = "DFL"
  IN /\ At(p, "issig")
     /\ Post(p, p_sig[p] \ gone)
     /\ found' = [found EXCEPT ![p] = s]
     /\ IF stops
        THEN Stop(p, s) /\ cpu' = None /\ Goto(p, "stopped")
        ELSE Goto(p, ret[p]) /\ UNCHANGED <<p_stat, p_xstat, cpu>>
     /\ UNCHANGED <<p_wchan, slpque, runq, p_flag, p_sigmask, u_signal, callout,
                    ret, call, status, awoken>>

(* issig() runs again after it stopped: the signal it stopped for is taken *)
(* away, and the loop goes on.                                             *)
IssigContinued(p) ==
  /\ At(p, "stopped")
  /\ Post(p, p_sig[p] \ {found[p]})
  /\ Goto(p, "issig")
  /\ UNCHANGED <<queues, p_flag, p_sigmask, p_xstat, u_signal, callout, cpu, ret, found,
                 call, status, awoken>>

(* On the way back to user mode: psig() for the signal found, which enters *)
(* a handler with the signal held (sa_mask is empty), or exits.            *)
Psig(p) ==
  /\ At(p, "trap") /\ found[p] # None
  /\ IF u_signal[p][found[p]] = "CATCH"
     THEN /\ Post(p, p_sig[p] \ {found[p]})
          /\ p_sigmask' = [p_sigmask EXCEPT ![p] = @ \cup {found[p]}]
          /\ Goto(p, "issig")
          /\ UNCHANGED <<p_stat, cpu>>
     ELSE /\ Post(p, {}) /\ p_stat' = [p_stat EXCEPT ![p] = "SZOMB"]
          /\ Goto(p, "dead") /\ cpu' = None /\ UNCHANGED p_sigmask
  /\ UNCHANGED <<p_wchan, slpque, runq, p_flag, p_xstat, u_signal, callout, ret, found,
                 call, status, awoken>>

-----------------------------------------------------------------------------
(* System calls and traps.                                                 *)

Move(p, from, to) ==
  /\ At(p, from) /\ Goto(p, to)
  /\ UNCHANGED <<queues, p_flag, signals, callout, cpu, found, call, status, awoken>>

Syscall(p) == Move(p, "user", "kernel") /\ UNCHANGED ret

(* The end of a system call, or a trap or AST from user mode: CURSIG. *)
CheckSignals(p) ==
  \E from \in {"kernel", "user"} :
    Move(p, from, "issig") /\ ret' = [ret EXCEPT ![p] = "trap"]

(* No signal, or none left: the process goes back to user mode. *)
UserMode(p) == found[p] = None /\ Move(p, "trap", "user") /\ UNCHANGED ret

(* Or first, with runrun set, setrq() and swtch(), and CURSIG once more. *)
Preempt(p) ==
  /\ At(p, "trap") /\ found[p] = None
  /\ runq' = runq \cup {p} /\ cpu' = None
  /\ Goto(p, "issig")
  /\ UNCHANGED <<p_stat, p_wchan, slpque, p_flag, signals, callout, ret, found, call,
                 status, awoken>>

(* sigaction(): setsigvec(). *)
Sigaction(p, s, a) ==
  /\ At(p, "user") /\ s \in Handled
  /\ u_signal' = [u_signal EXCEPT ![p][s] = a]
  /\ Post(p, IF a = "IGN" \/ (a = "DFL" /\ s = "CONT") THEN p_sig[p] \ {s} ELSE p_sig[p])
  /\ UNCHANGED <<queues, p_flag, p_sigmask, p_xstat, callout, cpu, frames, awoken>>

SetMask(p, m) ==
  /\ At(p, "user")
  /\ p_sigmask' = [p_sigmask EXCEPT ![p] = m]
  /\ UNCHANGED <<queues, p_flag, p_sig, p_xstat, u_signal, callout, cpu, frames, awoken>>

(* Mutant of Sigprocmask: SIGKILL and SIGSTOP can be held. *)
SigprocmaskAny(p, m) == SetMask(p, m)

(* sigprocmask(), and the mask restored at the end of a handler. *)
Sigprocmask(p, m) == SetMask(p, m \ CantMask)

Tsleeps(p) == \E c \in Chans, catch, timo \in BOOLEAN : Tsleep(p, c, catch, timo)

(* The steps that take a process on its way through the kernel. *)
Advance(p) == \/ TsleepChecked(p) \/ TsleepResume(p) \/ TsleepWoken(p)
              \/ Issig(p) \/ IssigContinued(p) \/ Psig(p) \/ UserMode(p)

UserStep(p) == \/ Syscall(p) \/ (\E m \in SUBSET Masked : Sigprocmask(p, m))
               \/ \E s \in Handled, a \in Actions : Sigaction(p, s, a)

Next == \/ \E c \in Chans : Wakeup(c)
        \/ \E p \in Procs : \/ Dispatch(p) \/ Endtsleep(p) \/ (\E s \in Sigs : Psignal(p, s))
                            \/ Advance(p) \/ CheckSignals(p) \/ Preempt(p)
                            \/ Tsleeps(p) \/ UserStep(p)

Spec == Init /\ [][Next]_vars

(* A process that is in the kernel goes on, a runnable one is dispatched,  *)
(* one that computes in user mode is interrupted by the clock, which may   *)
(* make it trap or give up the CPU, and timeouts expire (module Timers):   *)
(* a clock interrupt that splhigh() masks for a moment is not lost.        *)
FairSpec ==
  Spec /\ \A p \in Procs : /\ WF_vars(Advance(p)) /\ SF_vars(Endtsleep(p))
                           /\ SF_vars(Dispatch(p))
                           /\ SF_vars(CheckSignals(p)) /\ SF_vars(Preempt(p))

-----------------------------------------------------------------------------
(* Correctness.                                                            *)

(* A process is on the sleep queue, once, exactly when it waits; everyone  *)
(* there is asleep or stopped, except the caller of tsleep() at splhigh(); *)
(* and exactly the runnable processes that do not run are on the run       *)
(* queues.  wakeup(), setrun() and setrq() panic otherwise.                *)
QueuesAgree ==
  \A p \in Procs :
    /\ slpque[p] = IF p_wchan[p] # None THEN 1 ELSE 0
    /\ p_wchan[p] # None => p_stat[p] \in {"SSLEEP", "SSTOP"} \/ (cpu = p /\ AtHigh)
    /\ p_stat[p] = "SSLEEP" => p_wchan[p] # None
    /\ p \in runq <=> p_stat[p] = "SRUN" /\ cpu # p

(* A timer started by tsleep() never outlives the call, to end a later     *)
(* sleep: there is at most one, of a call that has not come back yet, and  *)
(* the mark it leaves is not left for a later call either.                 *)
NoStaleTimer ==
  \A p \in Procs :
    /\ callout[p] <= 1
    /\ callout[p] = 1 => pc[p] = "slept" /\ call[p].timo /\ "STIMO" \notin p_flag[p]
    /\ p_flag[p] # {} => pc[p] = "slept"

(* "If it isn't waiting on an event, then it goes back to run state": what *)
(* was awakened, stopped or not, never sleeps on.                          *)
WakeupNotLost == \A p \in Procs : awoken[p] => p_wchan[p] = None /\ p_stat[p] # "SSLEEP"

(* "Returns 0 if awakened, EWOULDBLOCK if the timeout expires". *)
ZeroMeansAwoken ==
  [][\A p \in Procs : call[p] # None /\ call'[p] = None /\ status'[p] = "0" => awoken[p]]_vars

(* "Sleeps at most timo/hz seconds", and with PCATCH until "a signal needs *)
(* to be delivered": a sleep that tsleep() has begun, as long as it lasts, *)
(* stopped or not, has its timer running, and, if it may be interrupted,   *)
(* there is no signal to act on and psignal() sees that it may.            *)
Asleep(p) == pc[p] = "slept" /\ p_wchan[p] # None

SleepArmed ==
  \A p \in Procs :
    /\ Asleep(p) /\ call[p].timo => callout[p] = 1
    /\ Asleep(p) /\ call[p].catch => "SSINTR" \in p_flag[p] /\ Deliverable(p) = {}

(* "All other (caught or default) signals cause the process to run": no    *)
(* process sleeps with PCATCH while it has a signal to act on.             *)
SignalsInterrupt ==
  \A p \in Procs : p_stat[p] = "SSLEEP" /\ call[p].catch => Deliverable(p) = {}

(* SIGKILL kills, whether the process runs, is in a system call, or sleeps *)
(* interruptibly (psignal(), issig(), psig()).                             *)
KillIsFatal == \A p \in Procs : "KILL" \in p_sig[p] ~> p_stat[p] = "SZOMB"

(* A sleep with a timeout ends (tsleep(), endtsleep()). *)
TimedSleepEnds ==
  \A p \in Procs : (p_stat[p] = "SSLEEP" /\ call[p].timo) ~> p_stat[p] # "SSLEEP"
=============================================================================
