------------------------------- MODULE MCUnpGC ------------------------------
(***************************************************************************)
(* Model-checking instances of UnpGC: two socket pairs, two descriptors of *)
(* a file at a time, two rights in flight.                                 *)
(***************************************************************************)
EXTENDS UnpGC
=============================================================================
