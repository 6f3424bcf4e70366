------------------------------ MODULE Callout -------------------------------
(***************************************************************************)
(* The kernel's callout queue: timeout(), untimeout(), and the parts of    *)
(* hardclock() and softclock() that drive it (sys/kern/kern_clock.c).      *)
(*                                                                         *)
(* calltodo is a delta list.  At its front are the calls that are due      *)
(* (c_time <= 0, minus the number of ticks they are late); each of the     *)
(* others holds its distance to the one before it.  timeout() and          *)
(* untimeout() run at splhigh(), so each is one step.  softclock() takes   *)
(* one call off the list at splhigh() and then calls it with interrupts    *)
(* enabled, so clock ticks, timeouts and untimeouts fall between the steps *)
(* of its loop.                                                            *)
(***************************************************************************)
EXTENDS Integers, Sequences, FiniteSets, Bags

CONSTANTS Funs,        \* (function, argument) pairs handed to timeout()
          None,        \* no call in progress
          NCALLOUT,    \* size of the callout table
          MaxDelay,    \* bound: largest delay asked for
          MaxLate      \* bound: ticks after which a late softclock() has run

ASSUME CalloutAssumption ==
  /\ NCALLOUT \in Nat \ {0} /\ MaxDelay \in Nat \ {0} /\ MaxLate \in Nat
  /\ None \notin Funs

VARIABLES calltodo,    \* sequence of [fun, c_time]
          callfree,    \* number of entries on the free list
          softpend,    \* a software clock interrupt is requested
          soft,        \* softclock(): "idle", "loop" (about to look), "call"
          firing,      \* the function softclock() is calling, or None
          panicked     \* "timeout table overflow"

vars == <<calltodo, callfree, softpend, soft, firing, panicked>>

Callouts == [fun : Funs, c_time : Int]

TypeOK ==
  /\ calltodo \in Seq(Callouts)
  /\ callfree \in Nat
  /\ softpend \in BOOLEAN /\ panicked \in BOOLEAN
  /\ soft \in {"idle", "loop", "call"}
  /\ firing \in Funs \cup {None}

Init ==
  /\ calltodo = <<>> /\ callfree = NCALLOUT
  /\ softpend = FALSE /\ soft = "idle" /\ firing = None
  /\ panicked = FALSE

-----------------------------------------------------------------------------
(* The delta list.                                                         *)

Pos(t) == IF t > 0 THEN t ELSE 0

(* timeout()'s search, for a delay t > 0: left[i] is what is left of t     *)
(* when the search comes to entry i.  It passes an entry whose c_time is   *)
(* less than that, taking a positive c_time off, and stops at entry k.     *)
(* What is left stays positive, since only smaller c_times are taken off.  *)
SearchStopsAt(q, t, k, left) ==
  /\ left[1] = t
  /\ \A i \in 1..(k-1) : /\ q[i].c_time < left[i]
                         /\ left[i+1] = left[i] - Pos(q[i].c_time)
  /\ k <= Len(q) => q[k].c_time >= left[k]

(* Mutant of Insert: the entry after the new one keeps its old delta. *)
InsertKeepsDelta(q, k, f, t) ==
  [i \in 1..(Len(q) + 1) |->
     CASE i < k -> q[i]
       [] i = k -> [fun |-> f, c_time |-> t]
       [] OTHER -> q[i-1]]

(* The new entry goes in at k, and the one after it is counted from it. *)
Insert(q, k, f, t) ==
  [i \in 1..(Len(q) + 1) |->
     CASE i < k     -> q[i]
       [] i = k     -> [fun |-> f, c_time |-> t]
       [] i = k + 1 -> [fun |-> q[k].fun, c_time |-> q[k].c_time - t]
       [] OTHER     -> q[i-1]]

(* The first entry of f goes, its positive delta is added to the next. *)
Delete(q, k) ==
  [i \in 1..(Len(q) - 1) |->
     CASE i < k -> q[i]
       [] i = k -> [fun |-> q[k+1].fun, c_time |-> q[k+1].c_time + Pos(q[k].c_time)]
       [] OTHER -> q[i+1]]

(* Mutant of Advance: the loop goes on after an entry that becomes 0. *)
AdvancePastDue(q) ==
  [i \in DOMAIN q |->
     IF \A j \in 1..(i-1) : q[j].c_time - 1 <= 0
     THEN [fun |-> q[i].fun, c_time |-> q[i].c_time - 1]
     ELSE q[i]]

(* hardclock()'s loop: it goes on to the next entry only after one that    *)
(* has become negative.                                                    *)
Advance(q) ==
  [i \in DOMAIN q |->
     IF \A j \in 1..(i-1) : q[j].c_time - 1 < 0
     THEN [fun |-> q[i].fun, c_time |-> q[i].c_time - 1]
     ELSE q[i]]

-----------------------------------------------------------------------------
(* timeout(fun, arg, t) with an entry from the free list: the search and   *)
(* the insertion of the new call.                                          *)
Enqueue(f, t) ==
  /\ callfree' = callfree - 1
  /\ \E k \in 1..(Len(calltodo) + 1) : \E left \in [1..k -> 1..MaxDelay] :
       /\ SearchStopsAt(calltodo, IF t <= 0 THEN 1 ELSE t, k, left)
       /\ calltodo' = Insert(calltodo, k, f, left[k])
  /\ UNCHANGED <<softpend, soft, firing, panicked>>

(* Mutant of Timeout: the free list is not tested. *)
TimeoutUnchecked(f, t) == ~panicked /\ Enqueue(f, t)

(* timeout(fun, arg, t): called from processes, interrupts and callouts. *)
Timeout(f, t) ==
  /\ ~panicked
  /\ IF callfree = 0
     THEN panicked' = TRUE /\ UNCHANGED <<calltodo, callfree, softpend, soft, firing>>
     ELSE Enqueue(f, t)

(* Mutant of Untimeout: the entry is not put back on the free list. *)
UntimeoutLeaks(f) ==
  /\ ~panicked
  /\ \E k \in DOMAIN calltodo :
        /\ calltodo[k].fun = f
        /\ \A j \in 1..(k-1) : calltodo[j].fun # f
        /\ calltodo' = Delete(calltodo, k)
  /\ UNCHANGED <<callfree, softpend, soft, firing, panicked>>

(* untimeout(fun, arg). *)
Untimeout(f) ==
  /\ ~panicked
  /\ \E k \in DOMAIN calltodo :
        /\ calltodo[k].fun = f
        /\ \A j \in 1..(k-1) : calltodo[j].fun # f
        /\ calltodo' = Delete(calltodo, k)
        /\ callfree' = callfree + 1
  /\ UNCHANGED <<softpend, soft, firing, panicked>>

(* hardclock(): the list, and the request for softclock(), which is run at *)
(* once when the tick interrupted the base priority level (no softclock()  *)
(* can be in progress then) and is otherwise left pending.                 *)
Hardclock ==
  /\ ~panicked
  /\ Len(calltodo) > 0 => calltodo[1].c_time > -MaxLate
  /\ calltodo' = Advance(calltodo)
  /\ IF Len(calltodo) > 0 /\ calltodo'[1].c_time <= 0
     THEN \/ softpend' = TRUE /\ UNCHANGED soft
          \/ soft = "idle" /\ soft' = "loop" /\ UNCHANGED softpend
     ELSE UNCHANGED <<softpend, soft>>
  /\ UNCHANGED <<callfree, firing, panicked>>

(* Mutant of SoftclockStart: the request is taken while softclock() runs. *)
SoftclockStartMasked ==
  /\ ~panicked /\ softpend
  /\ softpend' = FALSE
  /\ soft' = IF soft = "idle" THEN "idle" ELSE soft
  /\ UNCHANGED <<calltodo, callfree, firing, panicked>>

(* The software interrupt is taken. *)
SoftclockStart ==
  /\ ~panicked /\ softpend /\ soft = "idle"
  /\ softpend' = FALSE /\ soft' = "loop"
  /\ UNCHANGED <<calltodo, callfree, firing, panicked>>

(* One turn of softclock()'s loop: the first call, if it is due, is taken  *)
(* off the list and its entry freed; otherwise softclock() returns.        *)
SoftclockLoop ==
  /\ ~panicked /\ soft = "loop"
  /\ IF Len(calltodo) = 0 \/ calltodo[1].c_time > 0
     THEN soft' = "idle" /\ UNCHANGED <<calltodo, callfree, firing>>
     ELSE /\ firing' = calltodo[1].fun
          /\ calltodo' = Tail(calltodo)
          /\ callfree' = callfree + 1
          /\ soft' = "call"
  /\ UNCHANGED <<softpend, panicked>>

(* The function called by softclock() returns. *)
CallReturn ==
  /\ ~panicked /\ soft = "call"
  /\ firing' = None /\ soft' = "loop"
  /\ UNCHANGED <<calltodo, callfree, softpend, panicked>>

Next ==
  \/ \E f \in Funs : (\E t \in -1..MaxDelay : Timeout(f, t)) \/ Untimeout(f)
  \/ Hardclock \/ SoftclockStart \/ SoftclockLoop \/ CallReturn

Spec ==
  /\ Init /\ [][Next]_vars
  /\ WF_vars(SoftclockStart) /\ WF_vars(SoftclockLoop) /\ WF_vars(CallReturn)

-----------------------------------------------------------------------------
(* Correctness.                                                            *)

(* Sum of the positive c_times of the first n entries of q. *)
PosSum(q) ==
  LET s[n \in 0..Len(q)] == IF n = 0 THEN 0 ELSE s[n-1] + Pos(q[n].c_time) IN s

(* Ticks left until entry i is due, read off the delta list. *)
Remaining(q, i) == IF PosSum(q)[i] = 0 THEN q[i].c_time ELSE PosSum(q)[i]

(* An entry as the user knows it, and the bag of them. *)
Call(q, i) == [fun |-> q[i].fun, rem |-> Remaining(q, i)]

Calls(q) == [e \in {Call(q, i) : i \in DOMAIN q} |->
               Cardinality({i \in DOMAIN q : Call(q, i) = e})]

(* timeout, untimeout, hardclock and softclock implement the abstract      *)
(* timers: no call is early, calls are made in due order, adding or        *)
(* removing one call never moves another, and due calls are made.          *)
Abstract == INSTANCE Timers WITH pending <- Calls(calltodo), up <- ~panicked,
                                 Delays <- -1..MaxDelay
ImplementsTimers == Abstract!Spec

(* hardclock()'s comment: negative c_times (late calls) are at the front   *)
(* of the queue, latest first, and what follows is never out of order.     *)
LateFirst ==
  \A i, j \in DOMAIN calltodo :
     i < j /\ calltodo[j].c_time < 0 => calltodo[i].c_time <= calltodo[j].c_time

(* A call that is due is never left without a softclock() to make it:      *)
(* one is requested, or running and yet to look at the list again.         *)
DueIsServed ==
  Len(calltodo) > 0 /\ calltodo[1].c_time <= 0 /\ ~panicked
     => softpend \/ soft \in {"loop", "call"}

(* Entries are neither leaked nor duplicated by the free-list exchanges of *)
(* timeout, untimeout and softclock.                                       *)
TableConserved == Len(calltodo) + callfree = NCALLOUT
=============================================================================
