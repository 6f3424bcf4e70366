------------------------------- MODULE MCSynch ------------------------------
(***************************************************************************)
(* Model-checking instances of Synch.                                      *)
(***************************************************************************)
EXTENDS Synch, TLC

AnySleep == BOOLEAN \X BOOLEAN
Interruptible == {TRUE} \X BOOLEAN
Symmetry == Permutations(Procs) \cup Permutations(Chans)
=============================================================================
