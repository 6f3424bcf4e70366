----------------------------- MODULE MCBufCache -----------------------------
(***************************************************************************)
(* Model-checking instances of BufCache.  Buffers and blocks are           *)
(* interchangeable, and so are processes with the same operations: they    *)
(* are only compared for equality, and Init allows every order of the      *)
(* buffers on the free list.                                               *)
(***************************************************************************)
EXTENDS BufCache, TLC

CONSTANTS p1, p2, p3

Symmetry == Permutations(Procs) \cup Permutations(Bufs) \cup Permutations(Blks)

\* Everything but indirect blocks.
Anything ==
  [p \in Procs |-> {"breada", "baddr", "getblk", "geteblk",
                    "vflushbuf", "vflushsync", "vinvalsave", "vinvaltrunc"}]

\* What can fail.
Failing == [p \in Procs |-> {"bread", "geteblk", "vflushsync"}]

\* One process uses a file and its indirect blocks, one invalidates and one
\* flushes them.
Roles == (p1 :> {"bread", "indirect"}) @@ (p2 :> {"vinvalsave"}) @@ (p3 :> {"vflushsync"})
=============================================================================
