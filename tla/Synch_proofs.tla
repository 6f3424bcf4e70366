---------------------------- MODULE Synch_proofs ----------------------------
(***************************************************************************)
(* Theorems about Synch, for any set of processes, channels and signals.   *)
(*                                                                         *)
(* The queues and the types come first; each of the other invariants is    *)
(* proved together with the shape of the variables it speaks of.  The      *)
(* calls of tsleep() come last, from the invariants of queues and timers.  *)
(***************************************************************************)
EXTENDS Synch, TLAPS

-----------------------------------------------------------------------------
(* Queues and types.                                                       *)

(* The running process is in SRUN. *)
RunnerRuns == cpu # None => p_stat[cpu] = "SRUN"

QueueShape ==
  /\ p_stat \in [Procs -> {"SRUN", "SSLEEP", "SSTOP", "SZOMB"}]
  /\ p_wchan \in [Procs -> Chans \cup {None}]
  /\ slpque \in [Procs -> Nat] /\ runq \subseteq Procs
  /\ cpu \in Procs \cup {None}
  /\ pc \in [Procs -> Labels] /\ ret \in [Procs -> Returns]

QueueInv == QueueShape /\ QueuesAgree /\ RunnerRuns

(* One process changes its place on the queues: it leaves the sleep queue, *)
(* or stays where it is, and becomes st.                                   *)
LEMMA QueueMoves ==
  ASSUME QueueInv, NEW p \in Procs, cpu # p, UNCHANGED <<cpu, pc, ret>>,
         \/ setrun(p)
         \/ unsleep(p) /\ p_stat[p] # "SSLEEP" /\ UNCHANGED <<p_stat, runq>>
         \/ /\ p_stat[p] \in {"SSLEEP", "SSTOP"} /\ UNCHANGED <<p_wchan, slpque, runq>>
            /\ \/ p_stat' = [p_stat EXCEPT ![p] = "SSTOP"]
               \/ p_wchan[p] # None /\ p_stat' = [p_stat EXCEPT ![p] = "SSLEEP"],
         p_stat[p] \in {"SSLEEP", "SSTOP"}
  PROVE  QueueInv'
  BY SynchAssumption DEF QueueInv, QueueShape, QueuesAgree, RunnerRuns, setrun, unsleep,
     SynchAssumption, AtHigh

(* wakeup(c). *)
LEMMA QueueWakeup ==
  ASSUME QueueInv, NEW c \in Chans, Wakeup(c)
  PROVE  QueueInv'
  BY SynchAssumption DEF QueueInv, QueueShape, QueuesAgree, RunnerRuns, Wakeup, Awaken,
     SynchAssumption, AtHigh, frames

(* Away from splhigh(), the running process waits for nothing. *)
LEMMA QueueRunner ==
  ASSUME QueueInv, NEW p \in Procs, cpu = p, ~AtHigh
  PROVE  p_wchan[p] = None /\ p_stat[p] = "SRUN"
  BY SynchAssumption DEF QueueInv, QueuesAgree, RunnerRuns, SynchAssumption

LEMMA QueueUntouched ==
  ASSUME QueueInv, UNCHANGED <<queues, cpu, pc, ret>>
  PROVE  QueueInv'
  BY DEF QueueInv, QueueShape, QueuesAgree, RunnerRuns, AtHigh, queues

LEMMA QueueEndtsleep ==
  ASSUME QueueInv, NEW p \in Procs, Endtsleep(p)
  PROVE  QueueInv'
<1>1. ~AtHigh /\ UNCHANGED <<cpu, pc, ret>>
  BY DEF Endtsleep, frames
<1>2. CASE p_wchan[p] = None
  BY <1>1, <1>2, QueueUntouched DEF Endtsleep
<1>3. CASE p_wchan[p] # None
  <2>1. cpu # p /\ p_stat[p] \in {"SSLEEP", "SSTOP"}
    BY <1>1, <1>3, QueueRunner DEF QueueInv, QueuesAgree
  <2>. QED  BY <1>1, <1>3, <2>1, QueueMoves DEF Endtsleep
<1>. QED  BY <1>2, <1>3

LEMMA QueueTsleep ==
  ASSUME QueueInv, NEW p \in Procs, NEW c \in Chans, NEW catch \in BOOLEAN,
         NEW timo \in BOOLEAN, Tsleep(p, c, catch, timo)
  PROVE  QueueInv'
  BY SynchAssumption DEF QueueInv, QueueShape, QueuesAgree, RunnerRuns, Tsleep, SwitchAway,
     Goto, At, SynchAssumption, AtHigh, Labels, Returns

LEMMA QueueChecked ==
  ASSUME QueueInv, NEW p \in Procs, TsleepChecked(p)
  PROVE  QueueInv'
  BY SynchAssumption DEF QueueInv, QueueShape, QueuesAgree, RunnerRuns, TsleepChecked, Checked,
     SwitchAway, TsleepReturns, unsleep, Goto, At, SynchAssumption, AtHigh, Labels, Returns

(* psignal(). *)
LEMMA QueuePsignal ==
  ASSUME QueueInv, NEW p \in Procs, NEW s \in Sigs, Psignal(p, s)
  PROVE  QueueInv'
<1>1. UNCHANGED <<cpu, pc, ret>>
  BY DEF Psignal, frames
<1>2. CASE UNCHANGED queues
  BY <1>1, <1>2, QueueUntouched
<1>3. CASE p_stat[p] = "SSLEEP" /\ SignalSleeping(p, s)
  <2>1. cpu # p
    BY <1>3, SynchAssumption DEF QueueInv, RunnerRuns, SynchAssumption
  <2>. QED  BY <1>1, <1>2, <1>3, <2>1, QueueMoves DEF SignalSleeping, Stop
<1>4. CASE p_stat[p] = "SSTOP" /\ SignalStopped(p, s)
  <2>1. cpu # p
    BY <1>4, SynchAssumption DEF QueueInv, RunnerRuns, SynchAssumption
  <2>. QED  BY <1>1, <1>2, <1>4, <2>1, QueueMoves
            DEF SignalStopped, ContinueStopped, Continue
<1>. QED  BY <1>2, <1>3, <1>4 DEF Psignal

(* The running process goes on, gives up the CPU, stops, or exits, waiting *)
(* for nothing; or it is in tsleep()'s first CURSIG.                       *)
LEMMA QueueAdvances ==
  ASSUME QueueInv, NEW p \in Procs,
         \/ TsleepResume(p) \/ TsleepWoken(p) \/ Issig(p) \/ IssigContinued(p) \/ Psig(p)
         \/ UserMode(p) \/ CheckSignals(p) \/ Preempt(p) \/ Syscall(p)
  PROVE  QueueInv'
<1>1. CASE TsleepResume(p) \/ TsleepWoken(p)
  BY <1>1, SynchAssumption
     DEF QueueInv, QueueShape, QueuesAgree, RunnerRuns, AtHigh, SynchAssumption, At, Goto,
         TsleepResume, Resume, TsleepWoken, TsleepReturns, queues, Labels, Returns
<1>2. CASE Issig(p)
  BY <1>2, SynchAssumption
     DEF QueueInv, QueueShape, QueuesAgree, RunnerRuns, AtHigh, SynchAssumption, At, Goto,
         Issig, Stop, Labels, Returns
<1>3. CASE IssigContinued(p) \/ UserMode(p) \/ CheckSignals(p) \/ Syscall(p)
  BY <1>3, SynchAssumption
     DEF QueueInv, QueueShape, QueuesAgree, RunnerRuns, AtHigh, SynchAssumption, At, Goto,
         IssigContinued, UserMode, CheckSignals, Syscall, Move, queues, Labels, Returns
<1>4. CASE Psig(p) \/ Preempt(p)
  BY <1>4, SynchAssumption
     DEF QueueInv, QueueShape, QueuesAgree, RunnerRuns, AtHigh, SynchAssumption, At, Goto,
         Psig, Preempt, Labels, Returns
<1>. QED  BY <1>1, <1>2, <1>3, <1>4

LEMMA QueueInvariant == Spec => []QueueInv
<1>1. Init => QueueInv
  BY SynchAssumption DEF Init, QueueInv, QueueShape, QueuesAgree, RunnerRuns, Labels, Returns,
     SynchAssumption
<1>2. QueueInv /\ [Next]_vars => QueueInv'
  <2> SUFFICES ASSUME QueueInv, [Next]_vars PROVE QueueInv'
    OBVIOUS
  <2>1. CASE UNCHANGED vars
    BY <2>1, QueueUntouched DEF vars, frames
  <2>2. ASSUME NEW c \in Chans, Wakeup(c) PROVE QueueInv'
    BY <2>2, QueueWakeup
  <2>3. ASSUME NEW p \in Procs, Dispatch(p) PROVE QueueInv'
    BY <2>3, SynchAssumption
       DEF Dispatch, QueueInv, QueueShape, QueuesAgree, RunnerRuns, AtHigh, SynchAssumption,
           frames
  <2>4. ASSUME NEW p \in Procs, Endtsleep(p) PROVE QueueInv'
    BY <2>4, QueueEndtsleep
  <2>5. ASSUME NEW p \in Procs, NEW s \in Sigs, Psignal(p, s) PROVE QueueInv'
    BY <2>5, QueuePsignal
  <2>6. ASSUME NEW p \in Procs, Advance(p) PROVE QueueInv'
    BY <2>6, QueueChecked, QueueAdvances DEF Advance
  <2>7. ASSUME NEW p \in Procs, CheckSignals(p) \/ Preempt(p) PROVE QueueInv'
    BY <2>7, QueueAdvances
  <2>8. ASSUME NEW p \in Procs, Tsleeps(p) PROVE QueueInv'
    BY <2>8, QueueTsleep DEF Tsleeps
  <2>9. ASSUME NEW p \in Procs, UserStep(p) PROVE QueueInv'
    BY <2>9, QueueAdvances, QueueUntouched
       DEF UserStep, Sigprocmask, SetMask, Sigaction, frames
  <2>. QED  BY <2>1, <2>2, <2>3, <2>4, <2>5, <2>6, <2>7, <2>8, <2>9 DEF Next
<1>. QED  BY <1>1, <1>2, PTL DEF Spec

(* The sleep queue, the run queues, the states of the processes and the    *)
(* CPU always agree, whatever wakeups, timeouts and signals meet: what the *)
(* panics of wakeup(), setrun() and setrq() look for does not happen       *)
(* (kern_synch.c).                                                         *)
THEOREM QueuesAlwaysAgree == Spec => []QueuesAgree
<1>1. QueueInv => QueuesAgree
  BY DEF QueueInv
<1>. QED  BY <1>1, QueueInvariant, PTL

-----------------------------------------------------------------------------
(* Types.                                                                  *)

(* SIGKILL and SIGSTOP are never caught. *)
NoneCaught == \A p \in Procs : \A s \in CantMask : u_signal[p][s] # "CATCH"

TypeInv == TypeOK /\ NoneCaught

(* A set of signals has a first one, which issig() finds. *)
LEMMA FirstSignal ==
  ASSUME NEW D \in SUBSET AllSigs, D # {}
  PROVE  \E d \in D : \A e \in D : Number[d] <= Number[e]
<1>1. /\ Number["INT"] = 2 /\ Number["KILL"] = 9 /\ Number["STOP"] = 17
      /\ Number["TSTP"] = 18 /\ Number["CONT"] = 19
  BY DEF Number
<1>2. \A e \in D : Number[e] \in {2, 9, 17, 18, 19}
  BY <1>1 DEF AllSigs
<1>3. CASE "INT" \in D
  BY <1>1, <1>2, <1>3
<1>4. CASE "INT" \notin D /\ "KILL" \in D
  <2>1. \A e \in D : Number[e] \in {9, 17, 18, 19}
    BY <1>1, <1>4 DEF AllSigs
  <2>. QED  BY <1>1, <1>4, <2>1
<1>5. CASE "INT" \notin D /\ "KILL" \notin D /\ "STOP" \in D
  <2>1. \A e \in D : Number[e] \in {17, 18, 19}
    BY <1>1, <1>5 DEF AllSigs
  <2>. QED  BY <1>1, <1>5, <2>1
<1>6. CASE "INT" \notin D /\ "KILL" \notin D /\ "STOP" \notin D /\ "TSTP" \in D
  <2>1. \A e \in D : Number[e] \in {18, 19}
    BY <1>1, <1>6 DEF AllSigs
  <2>. QED  BY <1>1, <1>6, <2>1
<1>7. CASE D = {"CONT"}
  BY <1>1, <1>7
<1>. QED  BY <1>3, <1>4, <1>5, <1>6, <1>7 DEF AllSigs

(* What issig() finds: nothing, or a signal that it may act on. *)
Found(p) == LET D == Deliverable(p)
            IN IF D = {} THEN None
               ELSE CHOOSE d \in D : \A e \in D : Number[d] <= Number[e]

LEMMA FoundSignal ==
  ASSUME TypeOK, NEW p \in Procs
  PROVE  /\ Deliverable(p) = {} => Found(p) = None
         /\ Deliverable(p) # {} => Found(p) \in Deliverable(p) /\ Found(p) # None
<1>1. Deliverable(p) \in SUBSET AllSigs
  BY SynchAssumption DEF Deliverable, TypeOK, SynchAssumption
<1> DEFINE D == Deliverable(p)
<1>2. D # {} => Found(p) \in D
  <2>1. D # {} => \E d \in D : \A e \in D : Number[d] <= Number[e]
    BY <1>1, FirstSignal
  <2> HIDE DEF D
  <2>2. Found(p) = IF D = {} THEN None
                   ELSE CHOOSE d \in D : \A e \in D : Number[d] <= Number[e]
    BY DEF Found, D
  <2>. QED  BY <2>1, <2>2
<1>. QED  BY <1>1, <1>2, SynchAssumption DEF SynchAssumption, Found

LEMMA TypeUntouched ==
  ASSUME TypeInv, UNCHANGED vars
  PROVE  TypeInv'
  BY DEF TypeInv, TypeOK, NoneCaught, vars, queues, signals, frames

LEMMA TypeWakeup ==
  ASSUME TypeInv, QueueInv, NEW c \in Chans, Wakeup(c)
  PROVE  TypeInv'
  BY QueueWakeup DEF QueueInv, QueueShape, TypeInv, TypeOK, NoneCaught, Wakeup, Awaken,
     signals, frames

LEMMA TypeEndtsleep ==
  ASSUME TypeInv, QueueInv, NEW p \in Procs, Endtsleep(p)
  PROVE  TypeInv'
<1>1. QueueInv'
  BY QueueEndtsleep
<1>2. callout' \in [Procs -> Nat]
  BY DEF Endtsleep, TypeInv, TypeOK
<1>3. p_flag' \in [Procs -> SUBSET {"SSINTR", "STIMO"}]
  <2>1. p_flag \in [Procs -> SUBSET {"SSINTR", "STIMO"}]
    BY DEF TypeInv, TypeOK
  <2>2. UNCHANGED p_flag \/ p_flag' = [p_flag EXCEPT ![p] = @ \cup {"STIMO"}]
    BY DEF Endtsleep
  <2>. QED  BY <2>1, <2>2
<1>. QED  BY <1>1, <1>2, <1>3 DEF QueueInv, QueueShape, TypeInv, TypeOK, NoneCaught, Endtsleep,
     signals, frames

LEMMA TypePsignal ==
  ASSUME TypeInv, QueueInv, NEW p \in Procs, NEW s \in Sigs, Psignal(p, s)
  PROVE  TypeInv'
<1>1. QueueInv'
  BY QueuePsignal
<1>2. Posted(p, s) \subseteq Sigs
  BY DEF Posted, TypeInv, TypeOK
<1>3. p_sig' \in [Procs -> SUBSET Sigs]
  <2>1. ASSUME NEW S, S \subseteq Posted(p, s), Post(p, S)
        PROVE  p_sig' \in [Procs -> SUBSET Sigs]
    BY <1>2, <2>1 DEF Post, TypeInv, TypeOK
  <2>2. \E S : S \subseteq Posted(p, s) /\ Post(p, S)
    <3>1. Posted(p, s) \ {s} \subseteq Posted(p, s) /\ Posted(p, s) \subseteq Posted(p, s)
      OBVIOUS
    <3>2. CASE SignalSleeping(p, s)
      BY <3>1, <3>2 DEF SignalSleeping
    <3>3. CASE SignalStopped(p, s) /\ s # "CONT"
      BY <3>1, <3>3 DEF SignalStopped
    <3>4. CASE s = "CONT" /\ ContinueStopped(p)
      BY <3>1, <3>4 DEF ContinueStopped, Continue
    <3>5. CASE s = "CONT" /\ SignalStopped(p, s) /\ ~ContinueStopped(p)
      BY <3>1, <3>5 DEF SignalStopped
    <3>6. SignalSleeping(p, s) \/ SignalStopped(p, s) \/ Post(p, Posted(p, s))
      BY DEF Psignal
    <3>. QED  BY <3>1, <3>2, <3>3, <3>4, <3>5, <3>6
  <2>. QED  BY <2>1, <2>2
<1>4. p_xstat' \in [Procs -> Stops \cup {None}]
  <2>1. UNCHANGED p_xstat \/ (s \in Stops /\ p_xstat' = [p_xstat EXCEPT ![p] = s])
    BY DEF Psignal, SignalSleeping, Stop
  <2>. QED  BY <2>1 DEF TypeInv, TypeOK
<1>. QED  BY <1>1, <1>3, <1>4 DEF QueueInv, QueueShape, TypeInv, TypeOK, NoneCaught, Psignal,
     frames

LEMMA TypeIssig ==
  ASSUME TypeInv, QueueInv, NEW p \in Procs, Issig(p)
  PROVE  TypeInv'
<1>1. QueueInv'
  BY QueueAdvances
<1>2. Found(p) \in Sigs \cup {None}
  BY FoundSignal DEF TypeInv, TypeOK, Deliverable
<1>3. /\ found' = [found EXCEPT ![p] = Found(p)]
      /\ \/ UNCHANGED p_xstat
         \/ Found(p) \in Stops /\ p_xstat' = [p_xstat EXCEPT ![p] = Found(p)]
  BY DEF Issig, Found, Stop
<1>4. p_sig' \in [Procs -> SUBSET Sigs]
  BY DEF Issig, Post, TypeInv, TypeOK
<1>5. UNCHANGED <<p_flag, p_sigmask, u_signal, callout, call, status, awoken>>
  BY DEF Issig
<1>6. /\ found' \in [Procs -> Sigs \cup {None}]
      /\ p_xstat' \in [Procs -> Stops \cup {None}]
  <2>1. /\ found \in [Procs -> Sigs \cup {None}]
        /\ p_xstat \in [Procs -> Stops \cup {None}]
    BY DEF TypeInv, TypeOK
  <2>. QED  BY <1>2, <1>3, <2>1
<1>. QED  BY <1>1, <1>4, <1>5, <1>6 DEF QueueInv, QueueShape, TypeInv, TypeOK, NoneCaught

(* tsleep() and the calls around it. *)
LEMMA TypeTsleep ==
  ASSUME TypeInv, QueueInv, NEW p \in Procs, NEW c \in Chans, NEW catch \in BOOLEAN,
         NEW timo \in BOOLEAN, Tsleep(p, c, catch, timo)
  PROVE  TypeInv'
<1>1. QueueInv'
  BY QueueTsleep
<1>2. p_flag' \in [Procs -> SUBSET {"SSINTR", "STIMO"}] /\ callout' \in [Procs -> Nat]
  BY DEF Tsleep, SwitchAway, TypeInv, TypeOK
<1>3. call' \in [Procs -> Calls \cup {None}] /\ awoken' \in [Procs -> BOOLEAN]
  BY DEF Tsleep, Calls, TypeInv, TypeOK
<1>4. UNCHANGED <<signals, found, status>>
  BY DEF Tsleep
<1>. QED  BY <1>1, <1>2, <1>3, <1>4 DEF QueueInv, QueueShape, TypeInv, TypeOK, NoneCaught, signals

LEMMA TypeChecked ==
  ASSUME TypeInv, QueueInv, NEW p \in Procs, TsleepChecked(p)
  PROVE  TypeInv'
<1>1. QueueInv'
  BY QueueChecked
<1>2. p_flag' \in [Procs -> SUBSET {"SSINTR", "STIMO"}] /\ callout' \in [Procs -> Nat]
  <2>1. p_flag \in [Procs -> SUBSET {"SSINTR", "STIMO"}] /\ callout \in [Procs -> Nat]
    BY DEF TypeInv, TypeOK
  <2>2. \/ UNCHANGED <<p_flag, callout>>
        \/ /\ p_flag' = [p_flag EXCEPT ![p] = @ \cup {"SSINTR"}]
           /\ UNCHANGED callout \/ callout' = [callout EXCEPT ![p] = @ + 1]
    BY <2>1 DEF TsleepChecked, Checked, SwitchAway
  <2>. QED  BY <2>1, <2>2
<1>3. /\ call' \in [Procs -> Calls \cup {None}]
      /\ status' \in [Procs -> {"none", "0", "EINTR", "EWOULDBLOCK"}]
  BY DEF TsleepChecked, Checked, TsleepReturns, TypeInv, TypeOK
<1>4. UNCHANGED <<signals, found, awoken>>
  BY DEF TsleepChecked, Checked
<1>. QED  BY <1>1, <1>2, <1>3, <1>4 DEF QueueInv, QueueShape, TypeInv, TypeOK, NoneCaught, signals

LEMMA TypeReturns ==
  ASSUME TypeInv, QueueInv, NEW p \in Procs, TsleepResume(p) \/ TsleepWoken(p)
  PROVE  TypeInv'
<1>1. QueueInv'
  BY QueueAdvances
<1>2. callout' \in [Procs -> Nat] /\ p_flag' \in [Procs -> SUBSET {"SSINTR", "STIMO"}]
  BY DEF TsleepResume, Resume, Untimed, TsleepWoken, TypeInv, TypeOK
<1>3. /\ call' \in [Procs -> Calls \cup {None}]
      /\ status' \in [Procs -> {"none", "0", "EINTR", "EWOULDBLOCK"}]
  BY DEF TsleepResume, Resume, TsleepWoken, TsleepReturns, TypeInv, TypeOK
<1>4. UNCHANGED <<signals, found, awoken>>
  BY DEF TsleepResume, Resume, TsleepWoken
<1>. QED  BY <1>1, <1>2, <1>3, <1>4 DEF QueueInv, QueueShape, TypeInv, TypeOK, NoneCaught, signals

(* Only what is caught is held by psig(). *)
LEMMA TypePsig ==
  ASSUME TypeInv, QueueInv, NEW p \in Procs, Psig(p)
  PROVE  TypeInv'
<1>1. QueueInv'
  BY QueueAdvances
<1>2. p_sig' \in [Procs -> SUBSET Sigs]
  BY DEF Psig, Post, TypeInv, TypeOK
<1>3. p_sigmask' \in [Procs -> SUBSET (AllSigs \ CantMask)]
  <2>1. /\ p_sigmask \in [Procs -> SUBSET (AllSigs \ CantMask)]
        /\ found[p] \in Sigs /\ (u_signal[p][found[p]] = "CATCH" => found[p] \notin CantMask)
    BY DEF Psig, TypeInv, TypeOK, NoneCaught
  <2>2. CASE u_signal[p][found[p]] = "CATCH"
    BY <2>1, <2>2, SynchAssumption DEF Psig, SynchAssumption
  <2>3. CASE u_signal[p][found[p]] # "CATCH"
    BY <2>1, <2>3 DEF Psig
  <2>. QED  BY <2>2, <2>3
<1>4. UNCHANGED <<p_flag, p_xstat, u_signal, callout, ret, found, call, status, awoken>>
  BY DEF Psig
<1>. QED  BY <1>1, <1>2, <1>3, <1>4 DEF QueueInv, QueueShape, TypeInv, TypeOK, NoneCaught

(* A process only moves, or takes a signal away. *)
LEMMA TypeMoves ==
  ASSUME TypeInv, QueueInv, NEW p \in Procs,
         IssigContinued(p) \/ UserMode(p) \/ CheckSignals(p) \/ Preempt(p) \/ Syscall(p)
  PROVE  TypeInv'
<1>1. QueueInv'
  BY QueueAdvances
<1>2. p_sig' \in [Procs -> SUBSET Sigs]
  <2>1. p_sig \in [Procs -> SUBSET Sigs]
    BY DEF TypeInv, TypeOK
  <2>2. UNCHANGED p_sig \/ p_sig' = [p_sig EXCEPT ![p] = p_sig[p] \ {found[p]}]
    BY DEF IssigContinued, UserMode, CheckSignals, Preempt, Syscall, Move, Post, signals
  <2>. QED  BY <2>1, <2>2
<1>3. UNCHANGED <<p_flag, p_sigmask, p_xstat, u_signal, callout, found, call, status, awoken>>
  BY DEF IssigContinued, UserMode, CheckSignals, Preempt, Syscall, Move, signals
<1>. QED  BY <1>1, <1>2, <1>3 DEF QueueInv, QueueShape, TypeInv, TypeOK, NoneCaught

(* sigaction() and sigprocmask(). *)
LEMMA TypeUserStep ==
  ASSUME TypeInv, QueueInv, NEW p \in Procs, UserStep(p)
  PROVE  TypeInv'
<1>1. CASE Syscall(p)
  BY <1>1, TypeMoves
<1>2. ASSUME NEW m \in SUBSET Masked, Sigprocmask(p, m) PROVE TypeInv'
  <2>1. p_sigmask' \in [Procs -> SUBSET (AllSigs \ CantMask)]
    BY <1>2, SynchAssumption DEF Sigprocmask, SetMask, SynchAssumption, TypeInv, TypeOK
  <2>2. UNCHANGED <<queues, p_flag, p_sig, p_xstat, u_signal, callout, cpu, frames, awoken>>
    BY <1>2 DEF Sigprocmask, SetMask
  <2>. QED  BY <2>1, <2>2 DEF TypeInv, TypeOK, NoneCaught, queues, frames
<1>3. ASSUME NEW s \in Handled, NEW a \in Actions, Sigaction(p, s, a) PROVE TypeInv'
  <2>1. s \in AllSigs \ CantMask
    BY SynchAssumption DEF SynchAssumption
  <2>2. u_signal' = [u_signal EXCEPT ![p] = [@ EXCEPT ![s] = a]]
    BY <1>3 DEF Sigaction
  <2>3. u_signal \in [Procs -> [AllSigs -> Actions]] /\ CantMask \subseteq AllSigs
    BY DEF TypeInv, TypeOK, CantMask, AllSigs
  <2>4. u_signal' \in [Procs -> [AllSigs -> Actions]]
    BY <2>2, <2>3
  <2>5. NoneCaught'
    BY <2>1, <2>2, <2>3 DEF TypeInv, NoneCaught
  <2>6. p_sig' \in [Procs -> SUBSET Sigs]
    BY <1>3 DEF Sigaction, Post, TypeInv, TypeOK
  <2>7. UNCHANGED <<queues, p_flag, p_sigmask, p_xstat, callout, cpu, frames, awoken>>
    BY <1>3 DEF Sigaction
  <2>. QED  BY <2>4, <2>5, <2>6, <2>7 DEF TypeInv, TypeOK, queues, frames
<1>. QED  BY <1>1, <1>2, <1>3 DEF UserStep

LEMMA TypeInvariant == Spec => []TypeInv
<1>1. Init => TypeInv
  <2> SUFFICES ASSUME Init PROVE TypeInv
    OBVIOUS
  <2>1. u_signal \in [Procs -> [AllSigs -> Actions]] /\ NoneCaught
    BY DEF Init, NoneCaught, Actions, CantMask, AllSigs
  <2>2. TypeOK
    BY <2>1 DEF Init, TypeOK, Labels, Returns
  <2>. QED  BY <2>1, <2>2 DEF TypeInv
<1>2. TypeInv /\ QueueInv /\ [Next]_vars => TypeInv'
  <2> SUFFICES ASSUME TypeInv, QueueInv, [Next]_vars PROVE TypeInv'
    OBVIOUS
  <2>1. CASE UNCHANGED vars
    BY <2>1, TypeUntouched
  <2>2. ASSUME NEW c \in Chans, Wakeup(c) PROVE TypeInv'
    BY <2>2, TypeWakeup
  <2>3. ASSUME NEW p \in Procs, Dispatch(p) PROVE TypeInv'
    BY <2>3 DEF Dispatch, TypeInv, TypeOK, NoneCaught, signals, frames
  <2>4. ASSUME NEW p \in Procs, Endtsleep(p) PROVE TypeInv'
    BY <2>4, TypeEndtsleep
  <2>5. ASSUME NEW p \in Procs, NEW s \in Sigs, Psignal(p, s) PROVE TypeInv'
    BY <2>5, TypePsignal
  <2>6. ASSUME NEW p \in Procs, Advance(p) PROVE TypeInv'
    BY <2>6, TypeChecked, TypeReturns, TypeIssig, TypePsig, TypeMoves DEF Advance
  <2>7. ASSUME NEW p \in Procs, CheckSignals(p) \/ Preempt(p) PROVE TypeInv'
    BY <2>7, TypeMoves
  <2>8. ASSUME NEW p \in Procs, Tsleeps(p) PROVE TypeInv'
    BY <2>8, TypeTsleep DEF Tsleeps
  <2>9. ASSUME NEW p \in Procs, UserStep(p) PROVE TypeInv'
    BY <2>9, TypeUserStep
  <2>. QED  BY <2>1, <2>2, <2>3, <2>4, <2>5, <2>6, <2>7, <2>8, <2>9 DEF Next
<1>. QED  BY <1>1, <1>2, QueueInvariant, PTL DEF Spec

(* Every variable keeps its type; in particular SIGKILL and SIGSTOP are    *)
(* never held (kern_sig.c, sigprocmask() and psig()).                      *)
THEOREM TypeCorrect == Spec => []TypeOK
<1>1. TypeInv => TypeOK
  BY DEF TypeInv
<1>. QED  BY <1>1, TypeInvariant, PTL

-----------------------------------------------------------------------------
(* Wakeups.                                                                *)

WakeShape ==
  /\ p_stat \in [Procs -> {"SRUN", "SSLEEP", "SSTOP", "SZOMB"}]
  /\ p_wchan \in [Procs -> Chans \cup {None}]
  /\ awoken \in [Procs -> BOOLEAN]

WakeInv == WakeShape /\ WakeupNotLost

wakevars == <<p_stat, p_wchan, awoken>>

(* A process is only put to sleep, by tsleep() or by SIGCONT, while it     *)
(* still waits; and ending its wait takes it out of SSLEEP.                *)
LEMMA WakeStep ==
  ASSUME WakeInv,
         NEW p \in Procs,
         \/ UNCHANGED wakevars
         \/ /\ UNCHANGED <<p_wchan, awoken>>
            /\ \E st \in {"SRUN", "SSTOP", "SZOMB"} : p_stat' = [p_stat EXCEPT ![p] = st]
         \/ /\ UNCHANGED <<p_wchan, awoken>> /\ p_wchan[p] # None
            /\ p_stat' = [p_stat EXCEPT ![p] = "SSLEEP"]
         \/ /\ p_wchan' = [p_wchan EXCEPT ![p] = None] /\ UNCHANGED awoken
            /\ \/ p_stat' = [p_stat EXCEPT ![p] = "SRUN"]
               \/ UNCHANGED p_stat /\ p_stat[p] # "SSLEEP"
  PROVE  WakeInv'
  BY SMT DEF WakeInv, WakeShape, WakeupNotLost, wakevars

(* wakeup(c). *)
LEMMA WakeAll ==
  ASSUME WakeInv, NEW c \in Chans, Wakeup(c)
  PROVE  WakeInv'
  BY SMT DEF WakeInv, WakeShape, WakeupNotLost, Wakeup, Awaken

(* tsleep(): a new wait begins. *)
LEMMA WakeNew ==
  ASSUME WakeInv, NEW p \in Procs, NEW c \in Chans, NEW catch \in BOOLEAN,
         NEW timo \in BOOLEAN, Tsleep(p, c, catch, timo)
  PROVE  WakeInv'
  BY SMT, SynchAssumption
     DEF WakeInv, WakeShape, WakeupNotLost, Tsleep, SwitchAway, SynchAssumption

(* psignal(). *)
LEMMA WakeSignal ==
  ASSUME WakeInv, NEW p \in Procs, NEW s \in Sigs, Psignal(p, s)
  PROVE  WakeInv'
<1>1. CASE UNCHANGED queues
  BY <1>1, WakeStep DEF queues, wakevars, Psignal
<1>2. CASE SignalSleeping(p, s) /\ p_stat[p] = "SSLEEP"
  <2>1. UNCHANGED awoken
    BY DEF Psignal
  <2>. QED
    BY <1>2, <2>1, WakeStep DEF SignalSleeping, Stop, setrun, unsleep, queues, wakevars
<1>3. CASE SignalStopped(p, s) /\ p_stat[p] = "SSTOP"
  <2>1. UNCHANGED awoken
    BY DEF Psignal
  <2>2. CASE ContinueStopped(p)
    <3>1. CASE setrun(p)
      BY <2>1, <3>1, WakeStep DEF setrun, unsleep
    <3>2. CASE /\ p_wchan[p] # None
               /\ p_stat' = [p_stat EXCEPT ![p] = "SSLEEP"]
               /\ UNCHANGED <<p_wchan, slpque, runq>>
      BY <2>1, <3>2, WakeStep
    <3>. QED  BY <2>2, <3>1, <3>2 DEF ContinueStopped, Continue
  <2>3. CASE ~ContinueStopped(p)
    BY <1>3, <2>1, <2>3, WakeStep DEF SignalStopped, setrun, unsleep, queues, wakevars
  <2>. QED  BY <2>2, <2>3
<1>. QED
  BY <1>1, <1>2, <1>3 DEF Psignal

(* wakeup() is never lost on a stopped process: once awakened, a process   *)
(* neither waits nor sleeps until it calls tsleep() again (kern_synch.c,   *)
(* wakeup(); kern_sig.c, psignal()'s treatment of SIGCONT).                *)
THEOREM WakeupsAreNotLost == Spec => []WakeupNotLost
<1>1. Init => WakeInv
  BY SMT DEF Init, WakeInv, WakeShape, WakeupNotLost
<1>2. WakeInv /\ [Next]_vars => WakeInv'
  <2> SUFFICES ASSUME WakeInv, [Next]_vars PROVE WakeInv'
    OBVIOUS
  <2>1. CASE UNCHANGED vars
    BY <2>1 DEF WakeInv, WakeShape, WakeupNotLost, vars, queues
  <2>2. ASSUME NEW c \in Chans, Wakeup(c) PROVE WakeInv'
    BY <2>2, WakeAll
  <2>3. ASSUME NEW p \in Procs, Dispatch(p) PROVE WakeInv'
    BY <2>3, WakeStep DEF Dispatch, wakevars
  <2>4. ASSUME NEW p \in Procs, Endtsleep(p) PROVE WakeInv'
    BY <2>4, WakeStep DEF Endtsleep, setrun, unsleep, queues, wakevars
  <2>5. ASSUME NEW p \in Procs, NEW s \in Sigs, Psignal(p, s) PROVE WakeInv'
    BY <2>5, WakeSignal
  <2>6. ASSUME NEW p \in Procs, Advance(p) PROVE WakeInv'
    <3>1. CASE TsleepChecked(p)
      BY <3>1, WakeStep DEF TsleepChecked, Checked, SwitchAway, unsleep, queues, wakevars
    <3>2. CASE TsleepResume(p) \/ TsleepWoken(p) \/ IssigContinued(p) \/ UserMode(p)
      BY <3>2, WakeStep
         DEF TsleepResume, Resume, TsleepWoken, IssigContinued, UserMode, Move, queues, wakevars
    <3>3. CASE Issig(p)
      BY <3>3, WakeStep DEF Issig, Stop, queues, wakevars
    <3>4. CASE Psig(p)
      BY <3>4, WakeStep DEF Psig, wakevars
    <3>. QED  BY <2>6, <3>1, <3>2, <3>3, <3>4 DEF Advance
  <2>7. ASSUME NEW p \in Procs, CheckSignals(p) \/ Preempt(p) PROVE WakeInv'
    BY <2>7, WakeStep DEF CheckSignals, Preempt, Move, queues, wakevars
  <2>8. ASSUME NEW p \in Procs, Tsleeps(p) PROVE WakeInv'
    BY <2>8, WakeNew DEF Tsleeps
  <2>9. ASSUME NEW p \in Procs, UserStep(p) PROVE WakeInv'
    BY <2>9, WakeStep
       DEF UserStep, Syscall, Sigprocmask, SetMask, Sigaction, Move, queues, wakevars
  <2>. QED  BY <2>1, <2>2, <2>3, <2>4, <2>5, <2>6, <2>7, <2>8, <2>9 DEF Next
<1>3. WakeInv => WakeupNotLost
  BY DEF WakeInv
<1>. QED  BY <1>1, <1>2, <1>3, PTL DEF Spec

-----------------------------------------------------------------------------
(* Timers.                                                                 *)

TimerShape ==
  /\ pc \in [Procs -> Labels] /\ ret \in [Procs -> Labels]
  /\ p_flag \in [Procs -> SUBSET {"SSINTR", "STIMO"}]
  /\ callout \in [Procs -> Nat]
  /\ call \in [Procs -> Calls \cup {None}]

TimerInv == TimerShape /\ NoStaleTimer

timervars == <<pc, p_flag, callout, call, ret>>

(* A process that is not between the two halves of tsleep() has neither a  *)
(* timer nor a mark, and moving it elsewhere gives it none.                *)
LEMMA TimerMoves ==
  ASSUME TimerInv, NEW p \in Procs, pc[p] # "slept",
         UNCHANGED <<p_flag, callout>>,
         NEW label \in Labels, pc' = [pc EXCEPT ![p] = label],
         NEW r \in Calls \cup {None}, call' = [call EXCEPT ![p] = r],
         ret' \in [Procs -> Labels]
  PROVE  TimerInv'
<1>1. TimerShape'
  BY DEF TimerInv, TimerShape
<1>2. callout[p] = 0 /\ p_flag[p] = {}
  BY DEF TimerInv, TimerShape, NoStaleTimer
<1>3. ASSUME NEW q \in Procs, q # p
      PROVE  pc'[q] = pc[q] /\ call'[q] = call[q]
  BY <1>3 DEF TimerInv, TimerShape
<1>4. NoStaleTimer'
  BY <1>2, <1>3 DEF TimerInv, NoStaleTimer
<1>. QED  BY <1>1, <1>4 DEF TimerInv

(* tsleep() goes to sleep, perhaps with a timer. *)
LEMMA TimerStarts ==
  ASSUME TimerInv, NEW p \in Procs, pc[p] # "slept",
         NEW r \in Calls \cup {None}, call' = [call EXCEPT ![p] = r],
         NEW fl \in SUBSET {"SSINTR"}, SwitchAway(p, r.timo, fl), UNCHANGED ret
  PROVE  TimerInv'
<1>1. callout[p] = 0 /\ p_flag[p] = {}
  BY DEF TimerInv, TimerShape, NoStaleTimer
<1>2. TimerShape'
  <2>1. pc' \in [Procs -> Labels] /\ ret' \in [Procs -> Labels]
    BY DEF TimerInv, TimerShape, SwitchAway, Goto, Labels
  <2>2. p_flag' \in [Procs -> SUBSET {"SSINTR", "STIMO"}]
    BY DEF TimerInv, TimerShape, SwitchAway
  <2>3. callout' \in [Procs -> Nat]
    BY DEF TimerInv, TimerShape, SwitchAway
  <2>4. call' \in [Procs -> Calls \cup {None}]
    BY DEF TimerInv, TimerShape
  <2>. QED  BY <2>1, <2>2, <2>3, <2>4 DEF TimerShape
<1>3. ASSUME NEW q \in Procs, q # p
      PROVE  /\ pc'[q] = pc[q] /\ call'[q] = call[q]
             /\ callout'[q] = callout[q] /\ p_flag'[q] = p_flag[q]
  BY <1>3 DEF TimerInv, TimerShape, SwitchAway, Goto
<1>4. /\ pc'[p] = "slept" /\ call'[p] = r /\ p_flag'[p] = fl
      /\ callout'[p] = IF r.timo THEN 1 ELSE 0
  BY <1>1 DEF TimerInv, TimerShape, SwitchAway, Goto
<1>5. NoStaleTimer'
  BY <1>3, <1>4 DEF TimerInv, NoStaleTimer
<1>. QED  BY <1>2, <1>5 DEF TimerInv

(* tsleep() runs again: the mark and the timer are gone. *)
LEMMA TimerResumes ==
  ASSUME TimerInv, NEW p \in Procs, TsleepResume(p)
  PROVE  TimerInv'
<1>1. pc[p] = "slept" /\ callout[p] \in {0, 1}
  BY DEF TimerInv, TimerShape, NoStaleTimer, TsleepResume, Resume, At
<1>2. p_flag' = [p_flag EXCEPT ![p] = {}]
  BY DEF TsleepResume, Resume
<1>3. callout' = [callout EXCEPT ![p] = 0]
  <2>1. CASE callout[p] = 0
    BY <2>1 DEF TimerInv, TimerShape, TsleepResume, Resume, Untimed
  <2>2. CASE callout[p] = 1
    <3>1. call[p].timo /\ "STIMO" \notin p_flag[p]
      BY <2>2 DEF TimerInv, NoStaleTimer
    <3>. QED  BY <2>2, <3>1 DEF TimerInv, TimerShape, TsleepResume, Resume, Untimed
  <2>. QED  BY <1>1, <2>1, <2>2
<1>4. PICK label \in Labels : pc' = [pc EXCEPT ![p] = label]
  BY DEF TsleepResume, Resume, TsleepReturns, Goto, Labels
<1>5. PICK r \in Calls \cup {None} : call' = [call EXCEPT ![p] = r]
  BY DEF TimerInv, TimerShape, TsleepResume, Resume, TsleepReturns
<1>6. ret' \in [Procs -> Labels]
  BY DEF TimerInv, TimerShape, TsleepResume, Resume, TsleepReturns, Labels
<1>7. TimerShape'
  BY <1>2, <1>3, <1>4, <1>5, <1>6 DEF TimerInv, TimerShape
<1>8. ASSUME NEW q \in Procs, q # p
      PROVE  /\ pc'[q] = pc[q] /\ call'[q] = call[q]
             /\ callout'[q] = callout[q] /\ p_flag'[q] = p_flag[q]
  BY <1>2, <1>3, <1>4, <1>5, <1>8 DEF TimerInv, TimerShape
<1>9. callout'[p] = 0 /\ p_flag'[p] = {}
  BY <1>2, <1>3 DEF TimerInv, TimerShape
<1>10. NoStaleTimer'
  BY <1>8, <1>9 DEF TimerInv, NoStaleTimer
<1>. QED  BY <1>7, <1>10 DEF TimerInv

(* endtsleep(): the timer is spent, and what it marks is asleep. *)
LEMMA TimerFires ==
  ASSUME TimerInv, NEW p \in Procs, Endtsleep(p)
  PROVE  TimerInv'
<1>1. callout[p] = 1 /\ pc[p] = "slept"
  BY DEF TimerInv, TimerShape, NoStaleTimer, Endtsleep
<1>2. UNCHANGED <<pc, ret, call>>
  BY DEF Endtsleep, frames
<1>3. callout' = [callout EXCEPT ![p] = 0]
  BY <1>1 DEF Endtsleep
<1>4. PICK fl \in SUBSET {"SSINTR", "STIMO"} : p_flag' = [p_flag EXCEPT ![p] = fl]
  BY DEF TimerInv, TimerShape, Endtsleep
<1>5. TimerShape'
  BY <1>2, <1>3, <1>4 DEF TimerInv, TimerShape
<1>6. ASSUME NEW q \in Procs, q # p
      PROVE  callout'[q] = callout[q] /\ p_flag'[q] = p_flag[q]
  BY <1>3, <1>4, <1>6 DEF TimerInv, TimerShape
<1>7. callout'[p] = 0
  BY <1>3 DEF TimerInv, TimerShape
<1>8. NoStaleTimer'
  BY <1>1, <1>2, <1>6, <1>7 DEF TimerInv, NoStaleTimer
<1>. QED  BY <1>5, <1>8 DEF TimerInv

(* A step that does not touch timers, marks and calls. *)
LEMMA TimerUntouched ==
  ASSUME TimerInv, UNCHANGED timervars
  PROVE  TimerInv'
  BY DEF TimerInv, TimerShape, NoStaleTimer, timervars

(* tsleep() and the steps of issig(), which begin and end away from        *)
(* "slept" unless the process goes to sleep.                               *)
LEMMA TimerTsleep ==
  ASSUME TimerInv, NEW p \in Procs, NEW c \in Chans, NEW catch \in BOOLEAN,
         NEW timo \in BOOLEAN, Tsleep(p, c, catch, timo)
  PROVE  TimerInv'
<1>1. pc[p] # "slept"
  BY DEF Tsleep, At
<1> DEFINE r == [chan |-> c, catch |-> catch, timo |-> timo]
<1>2. r \in Calls \cup {None} /\ call' = [call EXCEPT ![p] = r] /\ r.timo = timo
  BY DEF Calls, Tsleep
<1>3. CASE catch
  <2>1. /\ UNCHANGED <<p_flag, callout>> /\ pc' = [pc EXCEPT ![p] = "issig"]
        /\ ret' \in [Procs -> Labels] /\ "issig" \in Labels
    BY <1>3 DEF Tsleep, Goto, TimerInv, TimerShape, Labels
  <2> HIDE DEF r
  <2>. QED  BY <1>1, <1>2, <2>1, TimerMoves
<1>4. CASE ~catch
  <2>1. SwitchAway(p, r.timo, {}) /\ UNCHANGED ret
    BY <1>4 DEF Tsleep, SwitchAway
  <2> HIDE DEF r
  <2>2. {} \in SUBSET {"SSINTR"}
    OBVIOUS
  <2>3. \A x \in Calls \cup {None} :
          call' = [call EXCEPT ![p] = x] /\ SwitchAway(p, x.timo, {}) => TimerInv'
    BY <1>1, <2>1, <2>2, TimerStarts
  <2>. QED  BY <1>2, <2>1, <2>3
<1>. QED  BY <1>3, <1>4

LEMMA TimerChecked ==
  ASSUME TimerInv, NEW p \in Procs, TsleepChecked(p)
  PROVE  TimerInv'
<1>1. pc[p] # "slept"
  BY DEF TsleepChecked, Checked, At
<1>2. ASSUME NEW v \in {"0", "EINTR"}, TsleepReturns(p, v), UNCHANGED <<p_flag, callout>>
      PROVE  TimerInv'
  <2>1. PICK label \in Labels : pc' = [pc EXCEPT ![p] = label]
    BY <1>2 DEF TsleepReturns, Goto, Labels
  <2>2. ret' \in [Procs -> Labels] /\ call' = [call EXCEPT ![p] = None]
    BY <1>2 DEF TsleepReturns, TimerInv, TimerShape, Labels
  <2>. QED  BY <1>1, <1>2, <2>1, <2>2, TimerMoves
<1>3. ASSUME SwitchAway(p, call[p].timo, {"SSINTR"}), UNCHANGED <<ret, call>>
      PROVE  TimerInv'
  <2>1. call[p] \in Calls \cup {None} /\ call' = [call EXCEPT ![p] = call[p]]
    BY <1>3 DEF TimerInv, TimerShape
  <2>. QED  BY <1>1, <1>3, <2>1, TimerStarts
<1>. QED  BY <1>2, <1>3 DEF TsleepChecked, Checked

(* The steps that only move a process from one label to another. *)
LEMMA TimerWalks ==
  ASSUME TimerInv, NEW p \in Procs,
         \/ TsleepWoken(p) \/ Issig(p) \/ IssigContinued(p) \/ Psig(p) \/ UserMode(p)
         \/ CheckSignals(p) \/ Preempt(p) \/ Syscall(p)
  PROVE  TimerInv'
<1>1. pc[p] # "slept" /\ UNCHANGED <<p_flag, callout>>
  BY DEF TsleepWoken, Issig, IssigContinued, Psig, UserMode, CheckSignals, Preempt, Syscall,
         Move, At
<1>2. PICK label \in Labels : pc' = [pc EXCEPT ![p] = label]
  BY DEF TsleepWoken, Issig, IssigContinued, Psig, UserMode, CheckSignals, Preempt, Syscall,
         Move, Goto, TsleepReturns, Labels, TimerInv, TimerShape
<1>3. PICK r \in Calls \cup {None} : call' = [call EXCEPT ![p] = r]
  BY DEF TsleepWoken, Issig, IssigContinued, Psig, UserMode, CheckSignals, Preempt, Syscall,
         Move, TsleepReturns, TimerInv, TimerShape
<1>4. ret' \in [Procs -> Labels]
  BY DEF TsleepWoken, Issig, IssigContinued, Psig, UserMode, CheckSignals, Preempt, Syscall,
         Move, TsleepReturns, Labels, TimerInv, TimerShape
<1>. QED  BY <1>1, <1>2, <1>3, <1>4, TimerMoves

LEMMA TimerInvariant == Spec => []TimerInv
<1>1. Init => TimerInv
  BY SMT DEF Init, TimerInv, TimerShape, NoStaleTimer, Labels
<1>2. TimerInv /\ [Next]_vars => TimerInv'
  <2> SUFFICES ASSUME TimerInv, [Next]_vars PROVE TimerInv'
    OBVIOUS
  <2>1. CASE UNCHANGED vars
    BY <2>1, TimerUntouched DEF vars, timervars, frames
  <2>2. ASSUME NEW c \in Chans, Wakeup(c) PROVE TimerInv'
    BY <2>2, TimerUntouched DEF Wakeup, Awaken, timervars, frames
  <2>3. ASSUME NEW p \in Procs, Dispatch(p) PROVE TimerInv'
    BY <2>3, TimerUntouched DEF Dispatch, timervars, frames
  <2>4. ASSUME NEW p \in Procs, Endtsleep(p) PROVE TimerInv'
    BY <2>4, TimerFires
  <2>5. ASSUME NEW p \in Procs, NEW s \in Sigs, Psignal(p, s) PROVE TimerInv'
    BY <2>5, TimerUntouched DEF Psignal, timervars, frames
  <2>6. ASSUME NEW p \in Procs, Advance(p) PROVE TimerInv'
    BY <2>6, TimerChecked, TimerResumes, TimerWalks DEF Advance
  <2>7. ASSUME NEW p \in Procs, CheckSignals(p) \/ Preempt(p) PROVE TimerInv'
    BY <2>7, TimerWalks
  <2>8. ASSUME NEW p \in Procs, Tsleeps(p) PROVE TimerInv'
    BY <2>8, TimerTsleep DEF Tsleeps
  <2>9. ASSUME NEW p \in Procs, UserStep(p) PROVE TimerInv'
    <3>1. CASE Syscall(p)
      BY <3>1, TimerWalks
    <3>2. CASE ~Syscall(p)
      BY <2>9, <3>2, TimerUntouched
         DEF UserStep, Sigprocmask, SetMask, Sigaction, timervars, frames
    <3>. QED  BY <3>1, <3>2
  <2>. QED  BY <2>1, <2>2, <2>3, <2>4, <2>5, <2>6, <2>7, <2>8, <2>9 DEF Next
<1>. QED  BY <1>1, <1>2, PTL DEF Spec

(* A timer or a mark left by one call of tsleep() never meets a later one  *)
(* (kern_synch.c, tsleep()'s untimeout() and its clearing of STIMO).       *)
THEOREM TimersAreNotStale == Spec => []NoStaleTimer
<1>1. TimerInv => NoStaleTimer
  BY DEF TimerInv
<1>. QED  BY <1>1, TimerInvariant, PTL

-----------------------------------------------------------------------------
(* The calls of tsleep().                                                  *)

(* Sleeps are armed; so is one that is about to begin: at splhigh() no     *)
(* signal comes between CURSIG and the sleep.                              *)
ArmedInv ==
  \A p \in Procs :
    /\ Asleep(p) /\ call[p].timo => callout[p] = 1
    /\ Asleep(p) /\ call[p].catch => "SSINTR" \in p_flag[p] /\ Deliverable(p) = {}
    /\ pc[p] = "checked" => cpu = p /\ (found[p] = None => Deliverable(p) = {})

(* Without stop signals nobody stops, and only tsleep() puts to sleep. *)
NobodyStops ==
  \A p \in Procs : /\ p_stat[p] # "SSTOP" /\ pc[p] # "stopped"
                   /\ p_stat[p] = "SSLEEP" => pc[p] = "slept"

OutsideTsleep(p) ==
  pc[p] \in {"kernel", "user", "trap"} \/ (pc[p] = "issig" /\ ret[p] = "trap")

(* Why a wait is over, until tsleep() returns. *)
EndedFor(p) ==
  /\ pc[p] = "slept" /\ p_wchan[p] = None =>
       \/ awoken[p] \/ "STIMO" \in p_flag[p]
       \/ call[p].catch /\ Deliverable(p) # {}
  /\ pc[p] = "issig" /\ ret[p] = "woken" => awoken[p] \/ Deliverable(p) # {}
  /\ pc[p] = "woken" => awoken[p] \/ found[p] # None
  /\ pc[p] = "checked" \/ (pc[p] = "issig" /\ ret[p] = "checked") =>
       cpu = p /\ p_wchan[p] # None /\ call[p].catch
  /\ pc[p] = "trap" => ret[p] = "trap"
  /\ OutsideTsleep(p) => call[p] = None
  /\ "SSINTR" \in p_flag[p] => call[p].catch

WaitEnded == \A p \in Procs : EndedFor(p)

(* What the steps may assume of the state they begin in. *)
Base == TypeInv /\ QueueInv /\ TimerInv

-----------------------------------------------------------------------------
(* Sleeps are armed.                                                       *)

(* A step that changes no call, signal or timer, moves nobody to another   *)
(* label, and begins no wait.                                              *)
LEMMA ArmedKept ==
  ASSUME ArmedInv,
         UNCHANGED <<p_sig, p_sigmask, u_signal, p_flag, callout, cpu, pc, call, found>>,
         \A p \in Procs : p_wchan'[p] # None => p_wchan[p] # None
  PROVE  ArmedInv'
  BY DEF ArmedInv, Asleep, Deliverable, Dropped

(* A step of p away from "slept" and "checked", to neither of them. *)
LEMMA ArmedMoves ==
  ASSUME Base, ArmedInv, NEW p \in Procs, cpu = p, cpu' \in {p, None},
         NEW label \in Labels \ {"slept", "checked"}, pc' = [pc EXCEPT ![p] = label],
         \A q \in Procs \ {p} : /\ p_sig'[q] = p_sig[q] /\ p_sigmask'[q] = p_sigmask[q]
                                /\ u_signal'[q] = u_signal[q] /\ p_flag'[q] = p_flag[q]
                                /\ callout'[q] = callout[q]
                                /\ p_wchan'[q] = p_wchan[q] /\ call'[q] = call[q]
  PROVE  ArmedInv'
<1>1. \A q \in Procs \ {p} : pc'[q] = pc[q] /\ pc[q] # "checked"
  BY SynchAssumption DEF Base, TypeInv, TypeOK, ArmedInv, SynchAssumption
<1>2. pc'[p] = label
  BY DEF Base, TypeInv, TypeOK
<1>3. \A q \in Procs \ {p} : Deliverable(q)' = Deliverable(q)
  BY DEF Deliverable, Dropped
<1>. QED  BY <1>1, <1>2, <1>3 DEF ArmedInv, Asleep

(* tsleep() goes to sleep, without PCATCH or with nothing to act on. *)
LEMMA ArmedSleeps ==
  ASSUME Base, ArmedInv, NEW p \in Procs, cpu = p, pc[p] # "slept",
         UNCHANGED <<p_sig, p_sigmask, u_signal>>,
         NEW timo, NEW fl, SwitchAway(p, timo, fl),
         call'[p].timo => timo,
         call'[p].catch => "SSINTR" \in fl /\ Deliverable(p) = {},
         \A q \in Procs \ {p} : p_wchan'[q] = p_wchan[q] /\ call'[q] = call[q]
  PROVE  ArmedInv'
<1>1. callout[p] = 0
  BY DEF Base, TimerInv, TimerShape, NoStaleTimer
<1>2. /\ pc'[p] = "slept" /\ (timo => callout'[p] = 1) /\ fl \subseteq p_flag'[p]
  BY <1>1 DEF SwitchAway, Goto, Base, TypeInv, TypeOK
<1>3. \A q \in Procs \ {p} : /\ pc'[q] = pc[q] /\ callout'[q] = callout[q]
                             /\ p_flag'[q] = p_flag[q] /\ pc[q] # "checked"
  BY SynchAssumption
     DEF SwitchAway, Goto, Base, TypeInv, TypeOK, ArmedInv, SynchAssumption
<1>4. \A q \in Procs : Deliverable(q)' = Deliverable(q)
  BY DEF Deliverable, Dropped
<1>. QED  BY <1>2, <1>3, <1>4 DEF ArmedInv, Asleep

LEMMA ArmedTsleep ==
  ASSUME Base, ArmedInv, NEW p \in Procs, NEW c \in Chans, NEW catch \in BOOLEAN,
         NEW timo \in BOOLEAN, Tsleep(p, c, catch, timo)
  PROVE  ArmedInv'
<1>1. /\ cpu = p /\ pc[p] = "kernel" /\ UNCHANGED <<p_sig, p_sigmask, u_signal>>
      /\ call' = [call EXCEPT ![p] = [chan |-> c, catch |-> catch, timo |-> timo]]
      /\ p_wchan' = [p_wchan EXCEPT ![p] = c]
  BY DEF Tsleep, At, signals
<1>2. /\ call'[p].timo = timo /\ call'[p].catch = catch
      /\ \A q \in Procs \ {p} : p_wchan'[q] = p_wchan[q] /\ call'[q] = call[q]
  BY <1>1 DEF Base, TypeInv, TypeOK
<1>3. CASE catch
  BY <1>1, <1>2, <1>3, ArmedMoves DEF Tsleep, Goto, Labels
<1>4. CASE ~catch
  <2>1. SwitchAway(p, timo, {})
    BY <1>4 DEF Tsleep
  <2>. QED  BY <1>1, <1>2, <1>4, <2>1, ArmedSleeps
<1>. QED  BY <1>3, <1>4

LEMMA ArmedChecked ==
  ASSUME Base, ArmedInv, NEW p \in Procs, TsleepChecked(p)
  PROVE  ArmedInv'
<1>1. cpu = p /\ pc[p] = "checked" /\ UNCHANGED <<p_sig, p_sigmask, u_signal>>
  BY DEF TsleepChecked, Checked, At, signals
<1>2. \A q \in Procs \ {p} : p_wchan'[q] = p_wchan[q] /\ call'[q] = call[q]
  BY DEF TsleepChecked, Checked, unsleep, TsleepReturns, Base, TypeInv, TypeOK
<1>3. CASE found[p] = None /\ SwitchAway(p, call[p].timo, {"SSINTR"}) /\ UNCHANGED call
  <2>1. Deliverable(p) = {}
    BY <1>1, <1>3 DEF ArmedInv
  <2>. QED  BY <1>1, <1>2, <1>3, <2>1, ArmedSleeps
<1>4. CASE /\ TsleepReturns(p, "EINTR") \/ TsleepReturns(p, "0")
           /\ UNCHANGED <<p_flag, callout, cpu>>
  <2>1. PICK label \in {"issig", "kernel"} : pc' = [pc EXCEPT ![p] = label]
    BY <1>4 DEF TsleepReturns, Goto
  <2>. QED  BY <1>1, <1>2, <1>4, <2>1, ArmedMoves DEF Labels
<1>. QED  BY <1>3, <1>4 DEF TsleepChecked, Checked

LEMMA ArmedReturns ==
  ASSUME Base, ArmedInv, NEW p \in Procs, TsleepResume(p) \/ TsleepWoken(p)
  PROVE  ArmedInv'
<1>1. cpu = p /\ UNCHANGED <<p_sig, p_sigmask, u_signal, p_wchan, cpu>>
  BY DEF TsleepResume, Resume, TsleepWoken, At, signals, queues
<1>2. \A q \in Procs \ {p} : /\ call'[q] = call[q] /\ p_flag'[q] = p_flag[q]
                             /\ callout'[q] = callout[q]
  BY DEF TsleepResume, Resume, TsleepWoken, TsleepReturns, Base, TypeInv, TypeOK
<1>3. PICK label \in {"issig", "kernel"} : pc' = [pc EXCEPT ![p] = label]
  BY DEF TsleepResume, Resume, TsleepWoken, TsleepReturns, Goto
<1>. QED  BY <1>1, <1>2, <1>3, ArmedMoves DEF Labels

(* What issig() takes away is not deliverable. *)
LEMMA IssigKeeps ==
  ASSUME TypeOK, NEW p \in Procs, Issig(p)
  PROVE  Deliverable(p)' = Deliverable(p)
<1> DEFINE gone == {d \in p_sig[p] \ p_sigmask[p] :
                      Dropped(p, d) /\ (Found(p) = None \/ Number[d] < Number[Found(p)])}
<1>1. p_sig' = [p_sig EXCEPT ![p] = p_sig[p] \ gone] /\ \A d \in gone : Dropped(p, d)
  BY DEF Issig, Post, Found
<1> HIDE DEF gone
<1>2. UNCHANGED <<p_sigmask, u_signal>>
  BY DEF Issig
<1>. QED  BY <1>1, <1>2 DEF Deliverable, Dropped, TypeOK

LEMMA ArmedIssig ==
  ASSUME Base, ArmedInv, NEW p \in Procs, Issig(p)
  PROVE  ArmedInv'
<1>1. /\ cpu = p /\ pc[p] = "issig"
      /\ UNCHANGED <<p_wchan, p_flag, p_sigmask, u_signal, callout, call>>
      /\ found' = [found EXCEPT ![p] = Found(p)]
      /\ \/ cpu' = None /\ pc' = [pc EXCEPT ![p] = "stopped"]
         \/ cpu' = p /\ pc' = [pc EXCEPT ![p] = ret[p]]
  BY DEF Issig, At, Found, Goto
<1>2. \A q \in Procs \ {p} : /\ pc'[q] = pc[q] /\ pc[q] # "checked"
                             /\ Deliverable(q)' = Deliverable(q)
  <2>1. \A q \in Procs \ {p} : p_sig'[q] = p_sig[q]
    BY DEF Issig, Post, Base, TypeInv, TypeOK
  <2>. QED  BY <1>1, <2>1 DEF Base, TypeInv, TypeOK, Deliverable, Dropped, ArmedInv
<1>3. Deliverable(p)' = Deliverable(p) /\ (found'[p] = None => Deliverable(p) = {})
  <2>1. TypeOK /\ found'[p] = Found(p)
    BY <1>1 DEF Base, TypeInv, TypeOK
  <2>. QED  BY <2>1, IssigKeeps, FoundSignal
<1>4. p_wchan[p] # None => pc'[p] # "slept"
  BY <1>1, SynchAssumption
     DEF Base, QueueInv, QueuesAgree, RunnerRuns, AtHigh, TypeInv, TypeOK, SynchAssumption
<1>5. pc'[p] = "checked" => cpu' = p
  BY <1>1 DEF Base, TypeInv, TypeOK
<1>. QED  BY <1>1, <1>2, <1>3, <1>4, <1>5 DEF ArmedInv, Asleep

(* psignal() posts to a sleep only what is held, or ends it. *)
LEMMA PostedToSleeper ==
  ASSUME Base, ArmedInv, NEW p \in Procs, NEW s \in Sigs, Psignal(p, s),
         Asleep(p), p_wchan'[p] # None, call[p].catch
  PROVE  p_sig'[p] \subseteq p_sig[p] \cup p_sigmask[p]
<1>1. "SSINTR" \in p_flag[p] /\ pc[p] = "slept"
  BY DEF ArmedInv, Asleep
<1>2. p_stat[p] \in {"SSLEEP", "SSTOP"}
  BY <1>1 DEF Base, QueueInv, QueuesAgree, AtHigh, Asleep
<1>3. ~setrun(p) /\ ~unsleep(p)
  BY DEF setrun, unsleep, Base, TypeInv, TypeOK
<1>4. ASSUME NEW S, Post(p, S) PROVE p_sig'[p] = S
  BY <1>4 DEF Post, Base, TypeInv, TypeOK
<1>5. /\ Posted(p, s) \subseteq p_sig[p] \cup {s}
      /\ Posted(p, s) \ {s} \subseteq p_sig[p]
  BY DEF Posted
<1>6. CASE Post(p, Posted(p, s)) /\ Action(p, s) = "HOLD"
  BY <1>4, <1>5, <1>6 DEF Action
<1>7. CASE SignalSleeping(p, s)
  <2>1. Post(p, Posted(p, s) \ {s})
    BY <1>1, <1>3, <1>7 DEF SignalSleeping
  <2>. QED  BY <1>4, <1>5, <2>1
<1>8. CASE SignalStopped(p, s)
  <2>1. CASE s = "CONT" /\ ContinueStopped(p)
    <3>1. \/ Action(p, s) = "HOLD" /\ Post(p, Posted(p, s))
          \/ Post(p, Posted(p, s) \ {s})
      BY <1>3, <2>1 DEF ContinueStopped, Continue, Action
    <3>. QED  BY <1>4, <1>5, <1>6, <3>1
  <2>2. CASE s \in Stops /\ Post(p, Posted(p, s) \ {s})
    BY <1>4, <1>5, <2>2
  <2>. QED  BY <1>1, <1>3, <1>8, <2>1, <2>2 DEF SignalStopped, Asleep
<1>. QED  BY <1>2, <1>6, <1>7, <1>8 DEF Psignal

LEMMA ArmedPsignal ==
  ASSUME Base, ArmedInv, NEW p \in Procs, NEW s \in Sigs, Psignal(p, s)
  PROVE  ArmedInv'
<1>1. /\ ~AtHigh
      /\ UNCHANGED <<p_flag, p_sigmask, u_signal, callout, cpu, pc, call, found>>
  BY DEF Psignal, frames
<1>2. \A q \in Procs : pc[q] # "checked"
  BY <1>1, SynchAssumption DEF ArmedInv, AtHigh, SynchAssumption
<1>3. \A q \in Procs : p_wchan'[q] # None => p_wchan[q] # None
  BY DEF Psignal, SignalSleeping, SignalStopped, ContinueStopped, Continue, setrun, unsleep,
     queues, Base, TypeInv, TypeOK
<1>4. \A q \in Procs \ {p} : p_sig'[q] = p_sig[q]
  <2>1. PICK S : Post(p, S)
    BY DEF Psignal, SignalSleeping, SignalStopped, ContinueStopped, Continue
  <2>. QED  BY <2>1 DEF Post, Base, TypeInv, TypeOK
<1>5. ASSUME NEW q \in Procs, Asleep(q)', call'[q].catch
      PROVE  "SSINTR" \in p_flag'[q] /\ Deliverable(q)' = {}
  <2>1. Asleep(q) /\ call[q].catch
    BY <1>1, <1>3, <1>5 DEF Asleep
  <2>2. "SSINTR" \in p_flag[q] /\ Deliverable(q) = {}
    BY <2>1 DEF ArmedInv
  <2>3. p_sig'[q] \subseteq p_sig[q] \cup p_sigmask[q]
    BY <1>4, <1>5, <2>1, PostedToSleeper DEF Asleep
  <2>. QED  BY <1>1, <2>2, <2>3 DEF Deliverable, Dropped
<1>6. ASSUME NEW q \in Procs, Asleep(q)', call'[q].timo PROVE callout'[q] = 1
  BY <1>1, <1>3, <1>6 DEF ArmedInv, Asleep
<1>. QED  BY <1>1, <1>2, <1>5, <1>6 DEF ArmedInv

(* The other steps of a process. *)
LEMMA ArmedWalks ==
  ASSUME Base, ArmedInv, NEW p \in Procs,
         \/ IssigContinued(p) \/ Psig(p) \/ UserMode(p) \/ CheckSignals(p) \/ Preempt(p)
         \/ UserStep(p)
  PROVE  ArmedInv'
<1>1. cpu = p /\ cpu' \in {p, None} /\ UNCHANGED <<p_flag, callout, p_wchan, call>>
  BY DEF IssigContinued, Psig, UserMode, CheckSignals, Preempt, UserStep, Syscall, Sigprocmask,
     SetMask, Sigaction, Move, At, frames, queues
<1>2. PICK label \in Labels \ {"slept", "checked"} : pc' = [pc EXCEPT ![p] = label]
  <2>1. CASE IssigContinued(p) \/ Psig(p) \/ UserMode(p) \/ CheckSignals(p) \/ Preempt(p)
             \/ Syscall(p)
    BY <2>1 DEF IssigContinued, Psig, UserMode, CheckSignals, Preempt, Syscall, Move, Goto,
       Labels
  <2>2. CASE UNCHANGED pc /\ pc[p] = "user"
    BY <2>2 DEF Labels, Base, TypeInv, TypeOK
  <2>. QED  BY <2>1, <2>2 DEF UserStep, Sigprocmask, SetMask, Sigaction, At, frames
<1>3. \A q \in Procs \ {p} : /\ p_sig'[q] = p_sig[q] /\ p_sigmask'[q] = p_sigmask[q]
                             /\ u_signal'[q] = u_signal[q]
  BY DEF IssigContinued, Psig, UserMode, CheckSignals, Preempt, UserStep, Syscall, Sigprocmask,
     SetMask, Sigaction, Move, Post, signals, Base, TypeInv, TypeOK
<1>. QED  BY <1>1, <1>2, <1>3, ArmedMoves

(* endtsleep() ends the sleep whose timer it spends. *)
LEMMA ArmedEndtsleep ==
  ASSUME Base, ArmedInv, NEW p \in Procs, Endtsleep(p)
  PROVE  ArmedInv'
<1>1. UNCHANGED <<p_sig, p_sigmask, u_signal, cpu, pc, call, found>>
  BY DEF Endtsleep, signals, frames
<1>2. /\ p_wchan' = [p_wchan EXCEPT ![p] = None]
      /\ \A q \in Procs \ {p} : callout'[q] = callout[q] /\ p_flag'[q] = p_flag[q]
  BY DEF Endtsleep, setrun, unsleep, queues, Base, TypeInv, TypeOK
<1>3. \A q \in Procs : Deliverable(q)' = Deliverable(q)
  BY <1>1 DEF Deliverable, Dropped
<1>. QED  BY <1>1, <1>2, <1>3 DEF ArmedInv, Asleep, Base, TypeInv, TypeOK

LEMMA BaseInvariant == Spec => []Base
  BY TypeInvariant, QueueInvariant, TimerInvariant, PTL DEF Base

LEMMA ArmedInvariant == Spec => []ArmedInv
<1>1. Init => ArmedInv
  BY DEF Init, ArmedInv, Asleep
<1>2. Base /\ ArmedInv /\ [Next]_vars => ArmedInv'
  <2> SUFFICES ASSUME Base, ArmedInv, [Next]_vars PROVE ArmedInv'
    OBVIOUS
  <2>1. CASE UNCHANGED vars
    BY <2>1, ArmedKept DEF vars, queues, signals, frames
  <2>2. ASSUME NEW c \in Chans, Wakeup(c) PROVE ArmedInv'
    BY <2>2, ArmedKept DEF Wakeup, Awaken, signals, frames
  <2>3. ASSUME NEW p \in Procs, Dispatch(p) PROVE ArmedInv'
    BY <2>3, SynchAssumption
       DEF Dispatch, ArmedInv, Asleep, Deliverable, Dropped, signals, frames, SynchAssumption
  <2>4. ASSUME NEW p \in Procs, Endtsleep(p) PROVE ArmedInv'
    BY <2>4, ArmedEndtsleep
  <2>5. ASSUME NEW p \in Procs, NEW s \in Sigs, Psignal(p, s) PROVE ArmedInv'
    BY <2>5, ArmedPsignal
  <2>6. ASSUME NEW p \in Procs, Advance(p) PROVE ArmedInv'
    BY <2>6, ArmedChecked, ArmedReturns, ArmedIssig, ArmedWalks DEF Advance
  <2>7. ASSUME NEW p \in Procs, CheckSignals(p) \/ Preempt(p) \/ UserStep(p)
        PROVE  ArmedInv'
    BY <2>7, ArmedWalks
  <2>8. ASSUME NEW p \in Procs, Tsleeps(p) PROVE ArmedInv'
    BY <2>8, ArmedTsleep DEF Tsleeps
  <2>. QED  BY <2>1, <2>2, <2>3, <2>4, <2>5, <2>6, <2>7, <2>8 DEF Next
<1>. QED  BY <1>1, <1>2, BaseInvariant, PTL DEF Spec

(* A sleep that tsleep() has begun keeps its timer until it ends, and, if  *)
(* it is interruptible, has no signal to act on, also while the process is *)
(* stopped (kern_synch.c, tsleep(); kern_sig.c, psignal()).                *)
THEOREM SleepsStayArmed == Spec => []SleepArmed
<1>1. ArmedInv => SleepArmed
  BY DEF ArmedInv, SleepArmed
<1>. QED  BY <1>1, ArmedInvariant, PTL

-----------------------------------------------------------------------------
(* Without stop signals every sleep is one that tsleep() has begun.  (With *)
(* them it is not: a process that stops in tsleep()'s first CURSIG and is  *)
(* continued sleeps without its timer and without SSINTR.)                 *)

NoStops == Sigs \cap Stops = {}

LEMMA NobodyIssig ==
  ASSUME NoStops, Base, NobodyStops, NEW p \in Procs, Issig(p)
  PROVE  UNCHANGED <<p_stat, cpu>> /\ pc' = [pc EXCEPT ![p] = ret[p]]
<1>1. Found(p) \notin Stops
  <2>1. Found(p) \in Sigs \cup {None}
    BY FoundSignal DEF Base, TypeInv, TypeOK, Deliverable
  <2>2. None \notin Stops
    BY SynchAssumption DEF SynchAssumption, AllSigs, Stops
  <2>. QED  BY <2>1, <2>2 DEF NoStops
<1>2. IF Found(p) \in Stops /\ u_signal[p][Found(p)] = "DFL"
      THEN Stop(p, Found(p)) /\ cpu' = None /\ Goto(p, "stopped")
      ELSE Goto(p, ret[p]) /\ UNCHANGED <<p_stat, p_xstat, cpu>>
  BY DEF Issig, Found
<1>. QED  BY <1>1, <1>2 DEF Goto

(* psignal() then leaves a process as it is, or makes it run. *)
LEMMA NobodyPsignal ==
  ASSUME NoStops, NobodyStops, NEW p \in Procs, NEW s \in Sigs, Psignal(p, s)
  PROVE  \/ UNCHANGED queues /\ (p_stat[p] = "SSLEEP" /\ "SSINTR" \in p_flag[p]
                                    => s \in p_sigmask[p])
         \/ /\ p_stat[p] = "SSLEEP" /\ "SSINTR" \in p_flag[p] /\ setrun(p)
            /\ s \notin p_sigmask[p]
<1>1. s \notin Stops /\ p_stat[p] # "SSTOP"
  BY DEF NoStops, NobodyStops
<1>. QED  BY <1>1 DEF Psignal, SignalSleeping, Action

LEMMA NobodyStep ==
  ASSUME NoStops, Base, NobodyStops, Next
  PROVE  NobodyStops'
<1>1. /\ p_stat \in [Procs -> {"SRUN", "SSLEEP", "SSTOP", "SZOMB"}]
      /\ pc \in [Procs -> Labels]
      /\ \A p \in Procs : cpu = p => p_stat[p] = "SRUN"
  BY SynchAssumption DEF Base, TypeInv, TypeOK, QueueInv, RunnerRuns, SynchAssumption
<1>2. ASSUME NEW p \in Procs, p_stat' = [p_stat EXCEPT ![p] = "SRUN"], UNCHANGED pc
      PROVE  NobodyStops'
  BY <1>1, <1>2 DEF NobodyStops
<1>3. ASSUME NEW p \in Procs, cpu = p, NEW label \in Labels \ {"stopped"},
             pc' = [pc EXCEPT ![p] = label],
             \/ UNCHANGED p_stat
             \/ \E st \in {"SRUN", "SZOMB"} : p_stat' = [p_stat EXCEPT ![p] = st]
             \/ label = "slept" /\ p_stat' = [p_stat EXCEPT ![p] = "SSLEEP"]
      PROVE  NobodyStops'
  BY <1>1, <1>3 DEF NobodyStops
<1>4. ASSUME UNCHANGED <<p_stat, pc>> PROVE NobodyStops'
  BY <1>4 DEF NobodyStops
<1>5. ASSUME NEW c \in Chans, Wakeup(c) PROVE NobodyStops'
  BY <1>5 DEF Wakeup, Awaken, NobodyStops, frames
<1>6. ASSUME NEW p \in Procs, Dispatch(p) PROVE NobodyStops'
  BY <1>4, <1>6 DEF Dispatch, frames
<1>7. ASSUME NEW p \in Procs, Endtsleep(p) PROVE NobodyStops'
  BY <1>2, <1>4, <1>7 DEF Endtsleep, setrun, unsleep, queues, frames
<1>8. ASSUME NEW p \in Procs, NEW s \in Sigs, Psignal(p, s) PROVE NobodyStops'
  <2>1. UNCHANGED pc
    BY <1>8 DEF Psignal, frames
  <2>. QED  BY <1>2, <1>4, <1>8, <2>1, NobodyPsignal DEF setrun, queues
<1>9. ASSUME NEW p \in Procs, Tsleeps(p) PROVE NobodyStops'
  BY <1>3, <1>9 DEF Tsleeps, Tsleep, SwitchAway, Goto, At, Labels
<1>10. ASSUME NEW p \in Procs, TsleepChecked(p) PROVE NobodyStops'
  BY <1>3, <1>10 DEF TsleepChecked, Checked, SwitchAway, TsleepReturns, Goto, At, Labels
<1>11. ASSUME NEW p \in Procs, TsleepResume(p) \/ TsleepWoken(p) PROVE NobodyStops'
  BY <1>3, <1>11
     DEF TsleepResume, Resume, TsleepWoken, TsleepReturns, Goto, At, Labels, queues
<1>12. ASSUME NEW p \in Procs, Issig(p) PROVE NobodyStops'
  <2>1. UNCHANGED p_stat /\ pc' = [pc EXCEPT ![p] = ret[p]] /\ cpu = p
    BY <1>12, NobodyIssig DEF Issig, At
  <2>2. ret[p] \in Labels \ {"stopped"}
    BY DEF Base, TypeInv, TypeOK, Returns, Labels
  <2>. QED  BY <1>3, <2>1, <2>2
<1>13. ASSUME NEW p \in Procs,
              IssigContinued(p) \/ Psig(p) \/ UserMode(p) \/ CheckSignals(p) \/ Preempt(p)
       PROVE  NobodyStops'
  BY <1>3, <1>13
     DEF IssigContinued, Psig, UserMode, CheckSignals, Preempt, Move, Goto, At, Labels, queues
<1>14. ASSUME NEW p \in Procs, UserStep(p) PROVE NobodyStops'
  BY <1>3, <1>4, <1>14
     DEF UserStep, Syscall, Sigprocmask, SetMask, Sigaction, Move, Goto, At, Labels, queues, frames
<1>. QED  BY <1>5, <1>6, <1>7, <1>8, <1>9, <1>10, <1>11, <1>12, <1>13, <1>14
          DEF Next, Advance

LEMMA NobodyInvariant == NoStops => (Spec => []NobodyStops)
<1> SUFFICES ASSUME NoStops PROVE Spec => []NobodyStops
  OBVIOUS
<1>1. Init => NobodyStops
  BY DEF Init, NobodyStops
<1>2. Base /\ NobodyStops /\ [Next]_vars => NobodyStops'
  <2>1. NobodyStops /\ UNCHANGED vars => NobodyStops'
    BY DEF NobodyStops, vars, queues, frames
  <2>. QED  BY <2>1, NobodyStep
<1>. QED  BY <1>1, <1>2, BaseInvariant, PTL DEF Spec

(* "All other (caught or default) signals cause the process to run": when  *)
(* no stop signals are sent, no process sleeps with PCATCH while it has a  *)
(* signal to act on (kern_sig.c, psignal(); kern_synch.c, tsleep()).       *)
THEOREM SignalsEndSleeps == NoStops => (Spec => []SignalsInterrupt)
<1>1. Base /\ ArmedInv /\ NobodyStops => SignalsInterrupt
  BY DEF Base, QueueInv, QueuesAgree, ArmedInv, Asleep, NobodyStops, SignalsInterrupt
<1>. QED  BY <1>1, BaseInvariant, ArmedInvariant, NobodyInvariant, PTL

-----------------------------------------------------------------------------
(* What tsleep() returns.  A continue signal ends a sleep and is dropped   *)
(* by issig(), so that tsleep() returns 0: the theorem is about processes  *)
(* that are sent neither stop nor continue signals.                        *)

NoJobControl == Sigs \cap (Stops \cup {"CONT"}) = {}

LEMMA NoStopsEither == NoJobControl => NoStops
  BY DEF NoJobControl, NoStops

LEMMA EndedByWakeup ==
  ASSUME Base, WaitEnded, NEW c \in Chans, Wakeup(c)
  PROVE  WaitEnded'
<1>1. /\ ~AtHigh /\ UNCHANGED <<p_flag, p_sig, p_sigmask, u_signal, cpu, pc, ret, found, call>>
  BY DEF Wakeup, Awaken, signals, frames
<1>2. \A p \in Procs : /\ p_wchan'[p] = IF p_wchan[p] = c THEN None ELSE p_wchan[p]
                       /\ awoken'[p] = (p_wchan[p] = c \/ awoken[p])
  BY DEF Wakeup, Awaken
<1>3. \A p \in Procs : Deliverable(p)' = Deliverable(p)
  BY <1>1 DEF Deliverable, Dropped
<1>4. \A p \in Procs : ~(pc[p] = "checked" \/ (pc[p] = "issig" /\ ret[p] = "checked"))
  BY <1>1, SynchAssumption DEF WaitEnded, EndedFor, AtHigh, SynchAssumption
<1>. QED  BY <1>1, <1>2, <1>3, <1>4, SynchAssumption
          DEF WaitEnded, EndedFor, OutsideTsleep, SynchAssumption

(* What a process does on the CPU does not concern the others. *)
LEMMA EndedMoves ==
  ASSUME Base, WaitEnded, NEW p \in Procs, cpu = p,
         \A q \in Procs \ {p} : /\ p_sig'[q] = p_sig[q] /\ p_sigmask'[q] = p_sigmask[q]
                                /\ u_signal'[q] = u_signal[q] /\ p_flag'[q] = p_flag[q]
                                /\ p_wchan'[q] = p_wchan[q] /\ call'[q] = call[q]
                                /\ pc'[q] = pc[q] /\ ret'[q] = ret[q]
                                /\ found'[q] = found[q] /\ awoken'[q] = awoken[q],
         EndedFor(p)'
  PROVE  WaitEnded'
<1>1. \A q \in Procs \ {p} : Deliverable(q)' = Deliverable(q)
  BY DEF Deliverable, Dropped
<1>2. ASSUME NEW q \in Procs \ {p} PROVE EndedFor(q)'
  <2>1. EndedFor(q) /\ cpu # q
    BY DEF WaitEnded
  <2>. QED  BY <1>1, <2>1 DEF EndedFor, OutsideTsleep
<1>. QED  BY <1>2 DEF WaitEnded

LEMMA EndedByTimeout ==
  ASSUME Base, WaitEnded, NEW p \in Procs, Endtsleep(p)
  PROVE  WaitEnded'
<1>1. /\ ~AtHigh /\ UNCHANGED <<p_sig, p_sigmask, u_signal, cpu, pc, ret, found, call, awoken>>
  BY DEF Endtsleep, signals, frames
<1>2. \A q \in Procs \ {p} : p_wchan'[q] = p_wchan[q] /\ p_flag'[q] = p_flag[q]
  BY DEF Endtsleep, setrun, unsleep, queues, Base, TypeInv, TypeOK
<1>3. /\ p_wchan[p] = None => p_wchan'[p] = None /\ p_flag'[p] = p_flag[p]
      /\ p_wchan[p] # None => p_flag'[p] = p_flag[p] \cup {"STIMO"}
  BY DEF Endtsleep, setrun, unsleep, queues, Base, TypeInv, TypeOK
<1>4. \A q \in Procs : Deliverable(q)' = Deliverable(q)
  BY <1>1 DEF Deliverable, Dropped
<1>5. \A q \in Procs : ~(pc[q] = "checked" \/ (pc[q] = "issig" /\ ret[q] = "checked"))
  BY <1>1, SynchAssumption DEF WaitEnded, EndedFor, OutsideTsleep, AtHigh, SynchAssumption
<1>. QED  BY <1>1, <1>2, <1>3, <1>4, <1>5 DEF WaitEnded, EndedFor, OutsideTsleep

(* The signal for which psignal() ends a sleep is there to be acted on. *)
LEMMA EndedBySignal ==
  ASSUME NoJobControl, Base, NobodyStops, WaitEnded,
         NEW p \in Procs, NEW s \in Sigs, Psignal(p, s)
  PROVE  WaitEnded'
<1>1. /\ ~AtHigh /\ ~Ignored(p, s)
      /\ UNCHANGED <<p_flag, p_sigmask, u_signal, cpu, pc, ret, found, call, awoken>>
  BY DEF Psignal, frames
<1>2. s \notin Stops \cup {"CONT"} /\ p_stat[p] # "SSTOP"
  BY DEF NoJobControl, NobodyStops
<1>3. Post(p, Posted(p, s)) /\ Posted(p, s) = p_sig[p] \cup {s}
  BY <1>2 DEF Psignal, SignalSleeping, Posted, Cancelled
<1>4. /\ p_sig'[p] = p_sig[p] \cup {s}
      /\ \A q \in Procs \ {p} : p_sig'[q] = p_sig[q]
  BY <1>3 DEF Post, Base, TypeInv, TypeOK
<1>5. \A q \in Procs : Deliverable(q) \subseteq Deliverable(q)'
  BY <1>1, <1>4 DEF Deliverable, Dropped
<1>6. \A q \in Procs \ {p} : p_wchan'[q] = p_wchan[q]
  BY NoStopsEither, NobodyPsignal DEF setrun, unsleep, queues, Base, TypeInv, TypeOK
<1>7. \/ p_wchan'[p] = p_wchan[p]
      \/ "SSINTR" \in p_flag[p] /\ s \notin p_sigmask[p]
  BY NoStopsEither, NobodyPsignal DEF queues
<1>8. s \notin p_sigmask[p] => s \in Deliverable(p)'
  <2>1. s \in {"INT", "KILL"}
    BY <1>2, SynchAssumption DEF SynchAssumption, AllSigs, Stops
  <2>2. u_signal[p][s] # "IGN"
    BY <1>1, <2>1 DEF Ignored
  <2>. QED  BY <1>1, <1>4, <2>1, <2>2 DEF Deliverable, Dropped, TtyStops
<1>9. \A q \in Procs : ~(pc[q] = "checked" \/ (pc[q] = "issig" /\ ret[q] = "checked"))
  BY <1>1, SynchAssumption DEF WaitEnded, EndedFor, OutsideTsleep, AtHigh, SynchAssumption
<1>10. ASSUME NEW q \in Procs \ {p} PROVE EndedFor(q)'
  BY <1>1, <1>5, <1>6, <1>9 DEF WaitEnded, EndedFor, OutsideTsleep
<1>11. EndedFor(p)'
  <2>1. "SSINTR" \in p_flag[p] => call[p].catch
    BY DEF WaitEnded, EndedFor, OutsideTsleep
  <2>2. CASE p_wchan'[p] = p_wchan[p]
    BY <1>1, <1>5, <1>9, <2>2 DEF WaitEnded, EndedFor, OutsideTsleep
  <2>3. CASE call[p].catch /\ s \in Deliverable(p)'
    BY <1>1, <1>5, <1>9, <2>3 DEF WaitEnded, EndedFor, OutsideTsleep
  <2>. QED  BY <1>7, <1>8, <2>1, <2>2, <2>3
<1>. QED  BY <1>10, <1>11 DEF WaitEnded

LEMMA EndedTsleep ==
  ASSUME Base, WaitEnded, NEW p \in Procs, NEW c \in Chans, NEW catch \in BOOLEAN,
         NEW timo \in BOOLEAN, Tsleep(p, c, catch, timo)
  PROVE  WaitEnded'
<1>1. cpu = p /\ pc[p] = "kernel" /\ UNCHANGED <<p_sig, p_sigmask, u_signal, found>>
  BY DEF Tsleep, At, signals
<1>2. /\ call'[p].catch = catch /\ p_wchan'[p] = c /\ c # None
      /\ \A q \in Procs \ {p} : /\ p_wchan'[q] = p_wchan[q] /\ call'[q] = call[q]
                                /\ awoken'[q] = awoken[q]
  BY SynchAssumption DEF Tsleep, Base, TypeInv, TypeOK, SynchAssumption
<1>3. p_flag[p] = {}
  BY <1>1 DEF Base, TimerInv, NoStaleTimer
<1>4. \A q \in Procs : p_flag'[q] = p_flag[q]
  BY DEF Tsleep, SwitchAway, Base, TypeInv, TypeOK
<1>5. CASE catch
  <2>1. /\ pc' = [pc EXCEPT ![p] = "issig"] /\ ret' = [ret EXCEPT ![p] = "checked"]
        /\ cpu' = p
    BY <1>1, <1>5 DEF Tsleep, Goto
  <2>2. /\ pc'[p] = "issig" /\ ret'[p] = "checked"
        /\ \A q \in Procs \ {p} : pc'[q] = pc[q] /\ ret'[q] = ret[q]
    BY <2>1 DEF Base, TypeInv, TypeOK
  <2>3. EndedFor(p)'
    BY <1>2, <1>3, <1>4, <1>5, <2>1, <2>2 DEF EndedFor, OutsideTsleep
  <2>. QED  BY <1>1, <1>2, <1>4, <2>2, <2>3, EndedMoves
<1>6. CASE ~catch
  <2>1. pc' = [pc EXCEPT ![p] = "slept"] /\ UNCHANGED ret
    BY <1>6 DEF Tsleep, SwitchAway, Goto
  <2>2. pc'[p] = "slept" /\ \A q \in Procs \ {p} : pc'[q] = pc[q] /\ ret'[q] = ret[q]
    BY <2>1 DEF Base, TypeInv, TypeOK
  <2>3. EndedFor(p)'
    BY <1>2, <1>3, <1>4, <2>2 DEF EndedFor, OutsideTsleep
  <2>. QED  BY <1>1, <1>2, <1>4, <2>2, <2>3, EndedMoves
<1>. QED  BY <1>5, <1>6

(* tsleep() returns: what is left to hold is that the flags are clear. *)
LEMMA EndedReturns ==
  ASSUME Base, WaitEnded, NEW p \in Procs, cpu = p, p_flag'[p] = {},
         UNCHANGED <<p_sig, p_sigmask, u_signal, found, awoken>>,
         NEW v, TsleepReturns(p, v),
         \A q \in Procs \ {p} : p_wchan'[q] = p_wchan[q] /\ p_flag'[q] = p_flag[q]
  PROVE  WaitEnded'
<1>1. \/ pc' = [pc EXCEPT ![p] = "issig"] /\ ret' = [ret EXCEPT ![p] = "trap"]
      \/ pc' = [pc EXCEPT ![p] = "kernel"] /\ UNCHANGED ret
  BY DEF TsleepReturns, Goto
<1>2. \A q \in Procs \ {p} : pc'[q] = pc[q] /\ ret'[q] = ret[q] /\ call'[q] = call[q]
  BY <1>1 DEF TsleepReturns, Base, TypeInv, TypeOK
<1>3. /\ (pc'[p] = "issig" /\ ret'[p] = "trap") \/ pc'[p] = "kernel"
      /\ call'[p] = None
  BY <1>1 DEF TsleepReturns, Base, TypeInv, TypeOK
<1>4. EndedFor(p)'
  BY <1>3 DEF EndedFor, OutsideTsleep
<1>. QED  BY <1>2, <1>4, EndedMoves

LEMMA EndedChecked ==
  ASSUME Base, WaitEnded, NEW p \in Procs, TsleepChecked(p)
  PROVE  WaitEnded'
<1>1. /\ cpu = p /\ pc[p] = "checked" /\ p_wchan[p] # None /\ call[p].catch
      /\ UNCHANGED <<p_sig, p_sigmask, u_signal, found, awoken>>
  BY DEF TsleepChecked, Checked, At, signals, WaitEnded, EndedFor, OutsideTsleep
<1>2. p_flag[p] = {}
  BY <1>1 DEF Base, TimerInv, NoStaleTimer
<1>3. CASE found[p] # None
  <2>1. TsleepReturns(p, "EINTR") /\ UNCHANGED p_flag /\ unsleep(p)
    BY <1>3 DEF TsleepChecked, Checked
  <2>2. \A q \in Procs \ {p} : p_wchan'[q] = p_wchan[q]
    BY <2>1 DEF unsleep, Base, TypeInv, TypeOK
  <2>. QED  BY <1>1, <1>2, <2>1, <2>2, EndedReturns
<1>4. CASE found[p] = None
  <2>1. /\ SwitchAway(p, call[p].timo, {"SSINTR"}) /\ UNCHANGED <<p_wchan, ret, call>>
    BY <1>1, <1>4 DEF TsleepChecked, Checked
  <2>2. /\ pc'[p] = "slept"
        /\ \A q \in Procs \ {p} : pc'[q] = pc[q] /\ p_flag'[q] = p_flag[q]
    BY <2>1 DEF SwitchAway, Goto, Base, TypeInv, TypeOK
  <2>3. EndedFor(p)'
    BY <1>1, <2>1, <2>2 DEF EndedFor, OutsideTsleep
  <2>. QED  BY <1>1, <2>1, <2>2, <2>3, EndedMoves
<1>. QED  BY <1>3, <1>4

(* tsleep() runs again: its wait is over, and not without a reason. *)
LEMMA EndedResume ==
  ASSUME Base, WaitEnded, NEW p \in Procs, TsleepResume(p)
  PROVE  /\ WaitEnded'
         /\ \A q \in Procs \ {p} : call'[q] = call[q]
         /\ call[p] # None /\ call'[p] = None /\ status'[p] = "0" => awoken[p]
<1>1. /\ cpu = p /\ pc[p] = "slept"
      /\ UNCHANGED <<p_wchan, p_sig, p_sigmask, u_signal, cpu, found, awoken>>
      /\ p_flag' = [p_flag EXCEPT ![p] = {}]
  BY DEF TsleepResume, Resume, At, signals, queues
<1>2. p_wchan[p] = None
  <2>1. ~AtHigh
    BY <1>1 DEF AtHigh
  <2>. QED  BY <1>1, <2>1, QueueRunner DEF Base
<1>3. p_flag'[p] = {} /\ \A q \in Procs \ {p} : p_flag'[q] = p_flag[q]
  BY <1>1 DEF Base, TypeInv, TypeOK
<1>4. awoken[p] \/ "STIMO" \in p_flag[p] \/ (call[p].catch /\ Deliverable(p) # {})
  BY <1>1, <1>2 DEF WaitEnded, EndedFor, OutsideTsleep
<1>5. ASSUME NEW v, TsleepReturns(p, v)
      PROVE  /\ WaitEnded' /\ status'[p] = v
             /\ \A q \in Procs \ {p} : call'[q] = call[q]
  <2>1. WaitEnded'
    BY <1>1, <1>3, <1>5, EndedReturns
  <2>. QED  BY <1>5, <2>1 DEF TsleepReturns, Base, TypeInv, TypeOK
<1>6. CASE TsleepReturns(p, "EWOULDBLOCK")
  BY <1>5, <1>6
<1>7. CASE "STIMO" \notin p_flag[p] /\ ~call[p].catch /\ TsleepReturns(p, "0")
  BY <1>4, <1>5, <1>7
<1>8. CASE /\ "STIMO" \notin p_flag[p] /\ call[p].catch /\ Goto(p, "issig")
           /\ ret' = [ret EXCEPT ![p] = "woken"] /\ UNCHANGED <<call, status>>
  <2>1. /\ pc'[p] = "issig" /\ ret'[p] = "woken"
        /\ \A q \in Procs \ {p} : pc'[q] = pc[q] /\ ret'[q] = ret[q]
    BY <1>8 DEF Goto, Base, TypeInv, TypeOK
  <2>2. Deliverable(p)' = Deliverable(p)
    BY <1>1 DEF Deliverable, Dropped
  <2>3. EndedFor(p)'
    BY <1>1, <1>3, <1>4, <1>8, <2>1, <2>2 DEF EndedFor, OutsideTsleep
  <2>4. WaitEnded'
    BY <1>1, <1>3, <1>8, <2>1, <2>3, EndedMoves
  <2>. QED  BY <1>8, <2>4
<1>. QED  BY <1>6, <1>7, <1>8 DEF TsleepResume, Resume

LEMMA EndedWoken ==
  ASSUME Base, WaitEnded, NEW p \in Procs, TsleepWoken(p)
  PROVE  /\ WaitEnded'
         /\ \A q \in Procs \ {p} : call'[q] = call[q]
         /\ status'[p] = "0" => awoken[p]
<1>1. /\ cpu = p /\ pc[p] = "woken"
      /\ UNCHANGED <<p_wchan, p_flag, p_sig, p_sigmask, u_signal, cpu, found, awoken>>
      /\ TsleepReturns(p, IF found[p] # None THEN "EINTR" ELSE "0")
  BY DEF TsleepWoken, At, signals, queues
<1>2. p_flag[p] = {}
  BY <1>1 DEF Base, TimerInv, NoStaleTimer
<1>3. WaitEnded'
  BY <1>1, <1>2, EndedReturns
<1>4. status'[p] = "0" => found[p] = None
  BY <1>1 DEF TsleepReturns, Base, TypeInv, TypeOK
<1>5. \A q \in Procs \ {p} : call'[q] = call[q]
  BY <1>1 DEF TsleepReturns, Base, TypeInv, TypeOK
<1>6. awoken[p] \/ found[p] # None
  BY <1>1 DEF WaitEnded, EndedFor, OutsideTsleep
<1>. QED  BY <1>3, <1>4, <1>5, <1>6

(* issig() finds the signal that ended the wait. *)
LEMMA EndedIssig ==
  ASSUME NoJobControl, Base, NobodyStops, WaitEnded, NEW p \in Procs, Issig(p)
  PROVE  WaitEnded'
<1>1. /\ cpu = p /\ pc[p] = "issig"
      /\ UNCHANGED <<p_wchan, p_flag, p_sigmask, u_signal, ret, call, awoken>>
      /\ found' = [found EXCEPT ![p] = Found(p)]
  BY DEF Issig, At, Found
<1>2. cpu' = p /\ pc' = [pc EXCEPT ![p] = ret[p]]
  BY <1>1, NoStopsEither, NobodyIssig
<1>3. /\ pc'[p] = ret[p] /\ found'[p] = Found(p) /\ ret[p] \in Returns
      /\ \A q \in Procs \ {p} : pc'[q] = pc[q] /\ found'[q] = found[q]
  BY <1>1, <1>2 DEF Base, TypeInv, TypeOK
<1>4. \A q \in Procs \ {p} : p_sig'[q] = p_sig[q]
  BY DEF Issig, Post, Base, TypeInv, TypeOK
<1>5. Deliverable(p) # {} => Found(p) # None
  BY FoundSignal DEF Base, TypeInv
<1>6. EndedFor(p)'
  BY <1>1, <1>2, <1>3, <1>5 DEF WaitEnded, EndedFor, OutsideTsleep, Returns
<1>. QED  BY <1>1, <1>3, <1>4, <1>6, EndedMoves

(* The steps of a process that is not in tsleep(). *)
LEMMA EndedWalks ==
  ASSUME Base, NobodyStops, WaitEnded, NEW p \in Procs,
         \/ IssigContinued(p) \/ Psig(p) \/ UserMode(p) \/ CheckSignals(p) \/ Preempt(p)
         \/ UserStep(p)
  PROVE  WaitEnded' /\ UNCHANGED call
<1>1. /\ cpu = p /\ pc[p] \in {"trap", "kernel", "user"}
      /\ UNCHANGED <<p_flag, p_wchan, call, found, awoken>>
  BY DEF NobodyStops, IssigContinued, Psig, UserMode, CheckSignals, Preempt, UserStep, Syscall,
     Sigprocmask, SetMask, Sigaction, Move, At, frames, queues
<1>2. \A q \in Procs \ {p} : /\ p_sig'[q] = p_sig[q] /\ p_sigmask'[q] = p_sigmask[q]
                             /\ u_signal'[q] = u_signal[q]
  BY DEF IssigContinued, Psig, UserMode, CheckSignals, Preempt, UserStep, Syscall, Sigprocmask,
     SetMask, Sigaction, Move, Post, signals, Base, TypeInv, TypeOK
<1>3. \/ UNCHANGED <<pc, ret>> /\ pc[p] = "user"
      \/ \E label \in {"dead", "user", "kernel"} :
           pc' = [pc EXCEPT ![p] = label] /\ UNCHANGED ret
      \/ /\ pc' = [pc EXCEPT ![p] = "issig"]
         /\ \/ UNCHANGED ret /\ pc[p] = "trap"
            \/ ret' = [ret EXCEPT ![p] = "trap"]
  BY <1>1 DEF IssigContinued, Psig, UserMode, CheckSignals, Preempt, UserStep, Syscall,
     Sigprocmask, SetMask, Sigaction, Move, Goto, At, frames
<1>4. \A q \in Procs \ {p} : pc'[q] = pc[q] /\ ret'[q] = ret[q]
  BY <1>3 DEF Base, TypeInv, TypeOK
<1>5. (pc[p] = "trap" => ret[p] = "trap") /\ call[p] = None
  BY <1>1 DEF WaitEnded, EndedFor, OutsideTsleep
<1>6. pc'[p] \in {"dead", "user", "kernel"} \/ (pc'[p] = "issig" /\ ret'[p] = "trap")
  BY <1>3, <1>5 DEF Base, TypeInv, TypeOK
<1>7. p_flag[p] = {}
  BY <1>1 DEF Base, TimerInv, NoStaleTimer
<1>8. EndedFor(p)'
  BY <1>1, <1>5, <1>6, <1>7 DEF EndedFor, OutsideTsleep
<1>. QED  BY <1>1, <1>2, <1>4, <1>8, EndedMoves

LEMMA EndedStep ==
  ASSUME NoJobControl, Base, NobodyStops, WaitEnded, Next
  PROVE  /\ WaitEnded'
         /\ \A p \in Procs :
              call[p] # None /\ call'[p] = None /\ status'[p] = "0" => awoken[p]
<1> DEFINE Honest == \A p \in Procs :
              call[p] # None /\ call'[p] = None /\ status'[p] = "0" => awoken[p]
<1>1. ASSUME UNCHANGED call PROVE Honest
  BY <1>1
<1>2. ASSUME NEW c \in Chans, Wakeup(c) PROVE WaitEnded' /\ Honest
  <2>1. UNCHANGED call
    BY <1>2 DEF Wakeup, Awaken, frames
  <2>. QED  BY <1>1, <1>2, <2>1, EndedByWakeup
<1>3. ASSUME NEW p \in Procs, Dispatch(p) PROVE WaitEnded' /\ Honest
  <2>1. UNCHANGED <<p_wchan, p_flag, p_sig, p_sigmask, u_signal, pc, ret, found, call, awoken>>
    BY <1>3 DEF Dispatch, signals, frames
  <2>2. \A q \in Procs : cpu # q
    BY <1>3, SynchAssumption DEF Dispatch, SynchAssumption
  <2>3. \A q \in Procs : Deliverable(q)' = Deliverable(q)
    BY <2>1 DEF Deliverable, Dropped
  <2>. QED  BY <1>1, <2>1, <2>2, <2>3 DEF WaitEnded, EndedFor, OutsideTsleep
<1>4. ASSUME NEW p \in Procs, Endtsleep(p) PROVE WaitEnded' /\ Honest
  <2>1. UNCHANGED call
    BY <1>4 DEF Endtsleep, frames
  <2>. QED  BY <1>1, <1>4, <2>1, EndedByTimeout
<1>5. ASSUME NEW p \in Procs, NEW s \in Sigs, Psignal(p, s) PROVE WaitEnded' /\ Honest
  <2>1. UNCHANGED call
    BY <1>5 DEF Psignal, frames
  <2>. QED  BY <1>1, <1>5, <2>1, EndedBySignal
<1>6. ASSUME NEW p \in Procs, TsleepChecked(p) PROVE WaitEnded' /\ Honest
  <2>1. p_wchan[p] # None
    BY <1>6 DEF TsleepChecked, Checked, At, WaitEnded, EndedFor, OutsideTsleep
  <2>2. UNCHANGED call \/ TsleepReturns(p, "EINTR")
    BY <1>6, <2>1 DEF TsleepChecked, Checked
  <2>3. Honest
    BY <2>2 DEF TsleepReturns, Base, TypeInv, TypeOK
  <2>. QED  BY <1>6, <2>3, EndedChecked
<1>7. ASSUME NEW p \in Procs, TsleepResume(p) \/ TsleepWoken(p) PROVE WaitEnded' /\ Honest
  BY <1>7, EndedResume, EndedWoken
<1>8. ASSUME NEW p \in Procs, Issig(p) PROVE WaitEnded' /\ Honest
  <2>1. UNCHANGED call
    BY <1>8 DEF Issig
  <2>. QED  BY <1>1, <1>8, <2>1, EndedIssig
<1>9. ASSUME NEW p \in Procs,
             \/ IssigContinued(p) \/ Psig(p) \/ UserMode(p) \/ CheckSignals(p) \/ Preempt(p)
             \/ UserStep(p)
      PROVE  WaitEnded' /\ Honest
  BY <1>1, <1>9, EndedWalks
<1>10. ASSUME NEW p \in Procs, Tsleeps(p) PROVE WaitEnded' /\ Honest
  <2>1. PICK c \in Chans, catch \in BOOLEAN, timo \in BOOLEAN : Tsleep(p, c, catch, timo)
    BY <1>10 DEF Tsleeps
  <2>2. call[p] = None
    BY <2>1 DEF Tsleep, At, WaitEnded, EndedFor, OutsideTsleep
  <2>3. \A q \in Procs \ {p} : call'[q] = call[q]
    BY <2>1 DEF Tsleep, Base, TypeInv, TypeOK
  <2>. QED  BY <2>1, <2>2, <2>3, EndedTsleep
<1>. QED  BY <1>2, <1>3, <1>4, <1>5, <1>6, <1>7, <1>8, <1>9, <1>10 DEF Next, Advance

(* "Returns 0 if awakened, EWOULDBLOCK if the timeout expires": when       *)
(* neither stop nor continue signals are sent, tsleep() returns 0 only     *)
(* after a wakeup() on its channel during the call (kern_synch.c,          *)
(* tsleep(), endtsleep(), wakeup(); kern_sig.c, psignal(), issig()).       *)
THEOREM ZeroAlwaysMeansAwoken == NoJobControl => (Spec => ZeroMeansAwoken)
<1> SUFFICES ASSUME NoJobControl PROVE Spec => ZeroMeansAwoken
  OBVIOUS
<1> DEFINE Honest == \A p \in Procs :
              call[p] # None /\ call'[p] = None /\ status'[p] = "0" => awoken[p]
<1>1. Init => WaitEnded
  BY DEF Init, WaitEnded, EndedFor, OutsideTsleep
<1>2. Base /\ NobodyStops /\ WaitEnded /\ [Next]_vars => WaitEnded' /\ [Honest]_vars
  <2>1. WaitEnded /\ UNCHANGED vars => WaitEnded'
    <3> SUFFICES ASSUME WaitEnded, UNCHANGED vars PROVE WaitEnded'
      OBVIOUS
    <3>1. UNCHANGED <<p_wchan, p_flag, p_sig, p_sigmask, u_signal, cpu, pc, ret, found, call,
                      awoken>>
      BY DEF vars, queues, signals, frames
    <3>2. \A q \in Procs : Deliverable(q)' = Deliverable(q)
      BY <3>1 DEF Deliverable, Dropped
    <3>. QED  BY <3>1, <3>2 DEF WaitEnded, EndedFor, OutsideTsleep
  <2>. QED  BY <2>1, EndedStep
<1>3. Spec => []NobodyStops
  BY NobodyInvariant, NoStopsEither
<1>4. Spec => [][Honest]_vars
  BY <1>1, <1>2, <1>3, BaseInvariant, PTL DEF Spec
<1>. QED  BY <1>4 DEF ZeroMeansAwoken
=============================================================================
