------------------------------ MODULE MCSelect ------------------------------
(***************************************************************************)
(* Model-checking instances of Select.                                     *)
(***************************************************************************)
EXTENDS Select

CONSTANTS f, g

\* Both descriptors, or one and a bad one.
BothOrBad == {{f, g}, {g, None}}
=============================================================================
