------------------------------- MODULE Timers -------------------------------
(***************************************************************************)
(* What the kernel's callout queue promises its users, with no list and no *)
(* delta times: a bag of pending calls, each with the number of clock      *)
(* ticks left until it is due (zero or negative once it is due).           *)
(*                                                                         *)
(* Callout.tla, the translation of timeout(), untimeout(), hardclock() and *)
(* softclock(), is shown to implement this specification.                  *)
(***************************************************************************)
EXTENDS Integers, Bags

CONSTANTS Funs,      \* the (function, argument) pairs that are ever scheduled
          Delays,    \* the delays, in ticks, that are ever asked for
          None       \* no call in progress; not in Funs

VARIABLES pending,   \* bag of [fun, rem]: calls not yet made
          firing,    \* the function being called, or None
          up         \* FALSE once the callout table has overflowed (panic)

vars == <<pending, firing, up>>

Entry == [fun : Funs, rem : Int]

(* A pending call whose time has come. *)
Due(e) == e \in BagToSet(pending) /\ e.rem <= 0

(* No pending call is due before e. *)
Earliest(e, S) == e \in S /\ \A d \in S : e.rem <= d.rem

Init == pending = EmptyBag /\ firing = None /\ up = TRUE

(* timeout(f, t): a delay that is not positive means the next tick. *)
Schedule(f, t) ==
  /\ up
  /\ pending' = pending (+) SetToBag({[fun |-> f, rem |-> IF t <= 0 THEN 1 ELSE t]})
  /\ UNCHANGED <<firing, up>>

(* timeout() with the table full. *)
Overflow == up /\ up' = FALSE /\ UNCHANGED <<pending, firing>>

(* untimeout(f): of the pending calls of f, the one due first is forgotten. *)
Cancel(f) ==
  /\ up
  /\ \E e \in BagToSet(pending) :
        /\ Earliest(e, {d \in BagToSet(pending) : d.fun = f})
        /\ pending' = pending (-) SetToBag({e})
  /\ UNCHANGED <<firing, up>>

(* One clock tick brings every pending call one tick nearer. *)
Shift(B) ==
  [e \in {[fun |-> d.fun, rem |-> d.rem - 1] : d \in BagToSet(B)} |->
      B[[fun |-> e.fun, rem |-> e.rem + 1]]]

Tick == up /\ pending' = Shift(pending) /\ UNCHANGED <<firing, up>>

(* A due call is made, the one due first before the others. *)
Fire ==
  /\ up /\ firing = None
  /\ \E e \in BagToSet(pending) :
        /\ Due(e) /\ Earliest(e, BagToSet(pending))
        /\ pending' = pending (-) SetToBag({e})
        /\ firing' = e.fun
  /\ UNCHANGED up

Return == up /\ firing # None /\ firing' = None /\ UNCHANGED <<pending, up>>

Next ==
  \/ \E f \in Funs : (\E t \in Delays : Schedule(f, t)) \/ Cancel(f)
  \/ Overflow \/ Tick \/ Fire \/ Return

(* Due calls are made and calls return: the software interrupt is never    *)
(* masked forever, and a callout handler does not block.                   *)
Spec == Init /\ [][Next]_vars /\ WF_vars(Fire) /\ WF_vars(Return)
=============================================================================
