----------------------------- MODULE MCCallout ------------------------------
(***************************************************************************)
(* Model-checking instance of Callout: two functions, a table that can be  *)
(* filled, delays up to three ticks and softclock() up to two ticks late.  *)
(***************************************************************************)
EXTENDS Callout
=============================================================================
