------------------------------ MODULE BufCache ------------------------------
(***************************************************************************)
(* The block buffer cache, sys/kern/vfs_bio.c: the buffers and their       *)
(* flags, the free lists, the per-vnode lists of clean and dirty buffers,  *)
(* the processes inside the cache, and the disk that completes their I/O.  *)
(*                                                                         *)
(* The kernel is not preemptive: once inside, a process keeps the CPU      *)
(* until it sleeps or leaves (variable cpu).  The disk interrupt may come  *)
(* between any two steps of a process.  A section of code at splbio() is   *)
(* one step, and so is a stretch of code that touches only a buffer the    *)
(* process has marked BUSY and that is not under I/O.                      *)
(*                                                                         *)
(* A hash chain is the set of valid buffers of a block: only matching      *)
(* buffers of a chain are ever looked at.  All buffers have the same       *)
(* memory, so allocbuf() only sets b_bcount and the list of buffers        *)
(* without memory stays empty.  B_LOCKED and B_NOCACHE are never set       *)
(* by the kernel and B_CACHE is never read here: all three are left out.   *)
(*                                                                         *)
(* The vnodes are of disks and tapes, and of files whose blocks are mapped *)
(* already: VOP_STRATEGY hands the buffer to a driver and does not sleep.  *)
(* nfs_strategy(), which may do the transfer itself, and the bmap of       *)
(* ufs_strategy() are outside the model.  So is biodone()'s B_CALL, with   *)
(* which a driver gets a buffer back: the pager and the disks made of      *)
(* disks set it on headers of their own, outside the cache, and the        *)
(* cassette drivers (tu.c, uu.c) on the last write before a close.         *)
(***************************************************************************)
EXTENDS Integers, Sequences, FiniteSets

CONSTANTS Procs, Bufs, Vnodes, Blks,
          Sizes,       \* block sizes asked for; all round up to one page
          Tapes,       \* vnodes that may be of tape drives
          Ops,         \* the operations each process uses
          MayFail,     \* TRUE if the disk may report errors
          None         \* the null pointer

AllOps == {"bread", "breada", "baddr", "getblk", "geteblk",
           "vflushbuf", "vflushsync", "vinvalsave", "vinvaltrunc",
           "indirect"}

(* What a process asks for. *)
Request == [op : AllOps, vp : Vnodes \cup {None}, blk : Blks \cup {None},
            ra : Blks \cup {None}, size : Sizes \cup {None}]

(* What a process sleeps on that waits for any buffer to be released. *)
FreeChan == "bfreelist"

(* The lists of a vnode. *)
Kinds == {"clean", "dirty"}

ASSUME BufCacheAssumption ==
  /\ Tapes \subseteq Vnodes /\ Ops \in [Procs -> SUBSET AllOps] /\ MayFail \in BOOLEAN
  /\ None \notin Procs \cup Bufs \cup Vnodes \cup Blks \cup Sizes \cup (Vnodes \X Kinds)
  /\ None \notin Request
  /\ Bufs \cap Vnodes = {} /\ FreeChan \notin Bufs \cup Vnodes \cup {None}
  /\ IsFiniteSet(Bufs)

VARIABLES
  (* the buffers *)
  b_flags,       \* subset of Flags
  b_vp, b_lblkno, b_bcount,
  b_list,        \* the vnode list the buffer is on: <<vnode, kind>> or None
  bfreelist,     \* the two free lists of reusable buffers, head first
  freewanted,    \* B_WANTED of bfreelist[0]
  (* the vnodes *)
  v_numoutput,   \* writes in progress
  vbwait,        \* VBWAIT of v_flag
  tapes,         \* those whose driver answers B_TAPE; never changes
  (* the disk *)
  io,            \* buffers handed to the driver by VOP_STRATEGY
  (* which copies of a block hold what was last written to it *)
  b_fresh, d_fresh,
  (* the processes *)
  cpu,           \* the process running in the kernel, or None
  pc, stack,     \* where each process is, and the callers it returns to
  wchan,         \* what it sleeps on, or None
  want,          \* what it asked for: [op, vp, blk, ra, size], or None
  err,           \* did its last biowait() return an error
  bp, hold, todo,\* its local pointers: current buffer, breada's first buffer,
                 \* what is left of a vnode list it is walking
  panicked

bufvars  == <<b_flags, b_vp, b_lblkno, b_bcount, b_list, bfreelist, freewanted>>
vnvars   == <<v_numoutput, vbwait, tapes>>
datavars == <<b_fresh, d_fresh>>
locals   == <<stack, want, err, bp, hold, todo>>
vars == <<bufvars, vnvars, io, datavars, cpu, pc, wchan, locals, panicked>>

Flags == {"READ", "DONE", "ERROR", "BUSY", "WANTED", "AGE", "ASYNC",
          "DELWRI", "INVAL"}
Queues == {"LRU", "AGE"}
Blocks == Vnodes \X Blks
Labels == {"user", "getblk", "found", "getnewbuf", "setage", "bread", "breada",
           "breada_io", "breada_ra", "ra_io", "breada_end", "biowait", "release",
           "vflush", "vflush_scan", "vflush_wait",
           "vinval", "vinval_scan", "vinval_take"}

TypeOK ==
  /\ b_flags \in [Bufs -> SUBSET Flags]
  /\ b_vp \in [Bufs -> Vnodes \cup {None}]
  /\ b_lblkno \in [Bufs -> Blks \cup {None}]
  /\ b_bcount \in [Bufs -> Sizes \cup {None}]
  /\ b_list \in [Bufs -> (Vnodes \X Kinds) \cup {None}]
  /\ bfreelist \in [Queues -> Seq(Bufs)]
  /\ freewanted \in BOOLEAN
  /\ v_numoutput \in [Vnodes -> Int]
  /\ vbwait \in [Vnodes -> BOOLEAN] /\ tapes \subseteq Tapes
  /\ io \subseteq Bufs
  /\ b_fresh \in [Bufs -> BOOLEAN] /\ d_fresh \in [Blocks -> BOOLEAN]
  /\ cpu \in Procs \cup {None}
  /\ pc \in [Procs -> Labels] /\ stack \in [Procs -> Seq(Labels)]
  /\ wchan \in [Procs -> Bufs \cup Vnodes \cup {FreeChan, None}]
  /\ want \in [Procs -> Request \cup {None}]
  /\ bp \in [Procs -> Bufs \cup {None}] /\ hold \in [Procs -> Bufs \cup {None}]
  /\ todo \in [Procs -> SUBSET Bufs] /\ err \in [Procs -> BOOLEAN]
  /\ panicked \in BOOLEAN

(* bufinit(): every buffer is invalid and on the AGE list, in any order. *)
Init ==
  /\ b_flags = [b \in Bufs |-> {"INVAL"}]
  /\ b_vp = [b \in Bufs |-> None] /\ b_lblkno = [b \in Bufs |-> None]
  /\ b_bcount = [b \in Bufs |-> None] /\ b_list = [b \in Bufs |-> None]
  /\ \E s \in [1..Cardinality(Bufs) -> Bufs] :
        /\ \A i, j \in DOMAIN s : s[i] = s[j] => i = j
        /\ bfreelist = [q \in Queues |-> IF q = "AGE" THEN s ELSE <<>>]
  /\ freewanted = FALSE
  /\ v_numoutput = [v \in Vnodes |-> 0] /\ vbwait = [v \in Vnodes |-> FALSE]
  /\ tapes \in SUBSET Tapes
  /\ io = {}
  /\ b_fresh = [b \in Bufs |-> FALSE] /\ d_fresh = [k \in Blocks |-> TRUE]
  /\ cpu = None
  /\ pc = [p \in Procs |-> "user"] /\ stack = [p \in Procs |-> <<>>]
  /\ wchan = [p \in Procs |-> None] /\ want = [p \in Procs |-> None]
  /\ bp = [p \in Procs |-> None] /\ hold = [p \in Procs |-> None]
  /\ todo = [p \in Procs |-> {}] /\ err = [p \in Procs |-> FALSE]
  /\ panicked = FALSE

-----------------------------------------------------------------------------
(* Processes, sleep and wakeup.                                            *)

CanRun(p) == ~panicked /\ wchan[p] = None /\ cpu \in {p, None}

At(p, label) == CanRun(p) /\ pc[p] = label

(* Go on at a label without giving up the CPU. *)
Goto(p, label) == pc' = [pc EXCEPT ![p] = label] /\ cpu' = p

(* Return to the caller on top of the stack. *)
Return(p) ==
  /\ pc' = [pc EXCEPT ![p] = Head(stack[p])]
  /\ stack' = [stack EXCEPT ![p] = Tail(@)]
  /\ cpu' = IF Head(stack[p]) = "user" THEN None ELSE p

Call(p, label, caller) ==
  /\ Goto(p, label)
  /\ stack' = [stack EXCEPT ![p] = <<caller>> \o @]

(* sleep(c): the process gives up the CPU and resumes at the label. *)
Sleep(p, c, label) ==
  /\ wchan' = [wchan EXCEPT ![p] = c]
  /\ pc' = [pc EXCEPT ![p] = label]
  /\ cpu' = None

(* wakeup() of every process that sleeps on a channel in C. *)
Wakeup(C) == wchan' = [p \in Procs |-> IF wchan[p] \in C THEN None ELSE wchan[p]]

Panic == /\ panicked' = TRUE
         /\ UNCHANGED <<bufvars, vnvars, io, datavars, cpu, pc, wchan, locals>>

-----------------------------------------------------------------------------
(* Buffers.                                                                *)

Has(b, f) == f \in b_flags[b]

(* The valid buffers associated with a block. *)
Cached(v, k) ==
  {b \in Bufs : b_vp[b] = v /\ b_lblkno[b] = k /\ "INVAL" \notin b_flags[b]}

incore(v, k) == Cached(v, k) # {}

ListOf(v, kind) == {b \in Bufs : b_list[b] = <<v, kind>>}

(* bremfree(): out of whichever free list the buffer is on. *)
Without(s, b) ==
  IF \E i \in DOMAIN s : s[i] = b
  THEN LET k == CHOOSE i \in DOMAIN s : s[i] = b
       IN [i \in 1..(Len(s) - 1) |-> IF i < k THEN s[i] ELSE s[i+1]]
  ELSE s

FreeWithout(b) == [q \in Queues |-> Without(bfreelist[q], b)]
bremfree(b) == bfreelist' = FreeWithout(b)

(* reassignbuf(): the list of v a buffer with flags fl goes on. *)
NewList(v, fl) == <<v, IF "DELWRI" \in fl THEN "dirty" ELSE "clean">>

(* brelse(b), where the flags of b are fl, its vnode list is l, the free   *)
(* lists are free, and C are the channels to wake.                         *)
Free(free, l, b, fl, C) ==
  LET bad == fl \cap {"ERROR", "INVAL"} # {}
      q   == IF bad \/ "AGE" \in fl THEN "AGE" ELSE "LRU"
      inv == IF "ERROR" \in fl THEN {"INVAL"} ELSE {}
      dw  == IF bad THEN {"DELWRI"} ELSE {}
  IN /\ Wakeup(C)
     /\ freewanted' = FALSE
     /\ b_flags' = [b_flags EXCEPT ![b] =
                      (fl \cup inv) \ ({"WANTED", "BUSY", "ASYNC", "AGE"} \cup dw)]
     /\ b_vp' = [b_vp EXCEPT ![b] = IF bad THEN None ELSE @]
     /\ b_list' = [b_list EXCEPT ![b] = IF bad THEN None ELSE l]
     /\ bfreelist' = [free EXCEPT ![q] = IF bad THEN <<b>> \o @ ELSE Append(@, b)]
     /\ UNCHANGED <<b_lblkno, b_bcount>>

WantB(b, fl) == IF "WANTED" \in fl THEN {b} ELSE {}
WantFree == IF freewanted THEN {FreeChan} ELSE {}

(* brelse() wakes those that want b and those that want any free buffer,   *)
(* and the channels in C.                                                  *)
brelseFrom(free, l, b, fl, C) == Free(free, l, b, fl, C \cup WantB(b, fl) \cup WantFree)

brelse(b, fl, C) == brelseFrom(bfreelist, b_list[b], b, fl, C)

(* Hand b, with flags fl, to the driver for writing; it is then on vnode   *)
(* list l, and n is added to the vnode's writes in progress.               *)
StartWrite(b, fl, l, n) ==
  /\ b_flags' = [b_flags EXCEPT ![b] = fl \ {"READ", "DONE", "ERROR", "DELWRI"}]
  /\ b_list' = [b_list EXCEPT ![b] = l]
  /\ v_numoutput' = [v_numoutput EXCEPT ![b_vp[b]] = @ + n]
  /\ io' = io \cup {b}
  /\ UNCHANGED <<b_vp, b_lblkno, b_bcount, freewanted, vbwait, tapes>>

AfterWrite(b, fl) == IF "DELWRI" \in fl THEN <<b_vp[b], "clean">> ELSE b_list[b]

(* Mutants of bwrite: the buffer stays on the dirty list; asynchronous     *)
(* writes are not counted.                                                 *)
bwriteStaysDirty(b, fl) == StartWrite(b, fl, b_list[b], 1)
bwriteCountsSync(b, fl) ==
  StartWrite(b, fl, AfterWrite(b, fl), IF "ASYNC" \in fl THEN 0 ELSE 1)

(* bwrite(b) up to VOP_STRATEGY, where the flags of b are fl. *)
bwrite(b, fl) == StartWrite(b, fl, AfterWrite(b, fl), 1)

(* bwrite(b) after VOP_STRATEGY: wait for a synchronous write and release  *)
(* the buffer, mark a delayed write AGE, or just return; then go on at     *)
(* label next.                                                             *)
AfterStrategy(p, fl, next) ==
  IF "ASYNC" \notin fl
  THEN Goto(p, "biowait") /\ stack' = [stack EXCEPT ![p] = <<"release", next>> \o @]
  ELSE IF "DELWRI" \in fl
  THEN Call(p, "setage", next)
  ELSE /\ pc' = [pc EXCEPT ![p] = next]
       /\ cpu' = IF next = "user" THEN None ELSE p
       /\ UNCHANGED stack

(* The block of b is overwritten in b: b alone has its newest contents. *)
Modify(b) ==
  /\ b_fresh' = [c \in Bufs |->
       IF c = b THEN TRUE
       ELSE b_fresh[c] /\ <<b_vp[c], b_lblkno[c]>> # <<b_vp[b], b_lblkno[b]>>]
  /\ d_fresh' = [d_fresh EXCEPT ![<<b_vp[b], b_lblkno[b]>>] = FALSE]

-----------------------------------------------------------------------------
(* getblk(), geteblk() and getnewbuf().                                    *)

(* getblk(): the search, which runs with the disk interrupt enabled. *)
GetblkSearch(p) ==
  /\ At(p, "getblk")
  /\ IF incore(want[p].vp, want[p].blk)
     THEN /\ Goto(p, "found")
          /\ \E b \in Cached(want[p].vp, want[p].blk) : bp' = [bp EXCEPT ![p] = b]
     ELSE Goto(p, "getnewbuf") /\ UNCHANGED bp
  /\ UNCHANGED <<bufvars, vnvars, io, datavars, wchan, stack, want, hold, todo, err, panicked>>

(* Sleep on the buffer found, having added flags fl, and go on at label. *)
WaitFor(p, fl, label) ==
  /\ At(p, "found") /\ Has(bp[p], "BUSY")
  /\ b_flags' = [b_flags EXCEPT ![bp[p]] = @ \cup fl]
  /\ Sleep(p, bp[p], label)
  /\ bp' = [bp EXCEPT ![p] = None]
  /\ UNCHANGED <<b_vp, b_lblkno, b_bcount, b_list, bfreelist, freewanted, vnvars,
                 io, datavars, stack, want, hold, todo, err, panicked>>

(* Mutants of GetblkBusy: no B_WANTED; no new search after the sleep. *)
GetblkBusyUnwanted(p) == WaitFor(p, {}, "getblk")
GetblkBusyNoLoop(p) == WaitFor(p, {"WANTED"}, "getnewbuf")

(* getblk(): the buffer found is busy, wait for it and search again. *)
GetblkBusy(p) == WaitFor(p, {"WANTED"}, "getblk")

(* Take the buffer found; free are the free lists afterwards. *)
TakeFound(p, free) ==
  /\ At(p, "found") /\ ~Has(bp[p], "BUSY") /\ b_bcount[bp[p]] = want[p].size
  /\ bfreelist' = free
  /\ b_flags' = [b_flags EXCEPT ![bp[p]] = @ \cup {"BUSY"}]
  /\ Return(p)
  /\ UNCHANGED <<b_vp, b_lblkno, b_bcount, b_list, freewanted, vnvars, io, datavars,
                 wchan, want, bp, hold, todo, err, panicked>>

(* Mutant of GetblkHit: the buffer is left on its free list. *)
GetblkHitLeavesFree(p) == TakeFound(p, bfreelist)

(* getblk(): the buffer found is free, take it and return it. *)
GetblkHit(p) == TakeFound(p, FreeWithout(bp[p]))

(* Write the buffer found, whose size is wrong; free are the free lists.   *)
WriteStray(p, free) ==
  LET b == bp[p]
      fl == b_flags[b] \cup {"BUSY", "INVAL"}
  IN /\ At(p, "found") /\ ~Has(b, "BUSY") /\ b_bcount[b] # want[p].size
     /\ IF b_vp[b] = None
        THEN Panic
        ELSE /\ bfreelist' = free /\ bwrite(b, fl) /\ AfterStrategy(p, fl, "getblk")
             /\ UNCHANGED <<datavars, wchan, want, bp, hold, todo, err, panicked>>

(* getblk(): the buffer found is free but of another size; write it out,   *)
(* invalidate it and search again.                                         *)
GetblkStray(p) == WriteStray(p, FreeWithout(bp[p]))

(* The buffer getnewbuf() takes: the head of AGE, or else of LRU. *)
NewBuf == IF bfreelist["AGE"] # <<>> THEN Head(bfreelist["AGE"])
                                    ELSE Head(bfreelist["LRU"])
NoneFree == bfreelist["AGE"] = <<>> /\ bfreelist["LRU"] = <<>>

(* getnewbuf(): no free buffer, sleep until one is released. *)
GetnewbufSleep(p) ==
  /\ At(p, "getnewbuf") /\ NoneFree
  /\ freewanted' = TRUE
  /\ Sleep(p, FreeChan, "getnewbuf")
  /\ UNCHANGED <<b_flags, b_vp, b_lblkno, b_bcount, b_list, bfreelist, vnvars, io,
                 datavars, locals, panicked>>

(* getnewbuf(): the oldest buffer has a delayed write; start the write and *)
(* try the next one.                                                       *)
GetnewbufDirty(p) ==
  LET fl == b_flags[NewBuf] \cup {"BUSY", "ASYNC"}
  IN /\ At(p, "getnewbuf") /\ ~NoneFree /\ Has(NewBuf, "DELWRI")
     /\ bremfree(NewBuf) /\ bwrite(NewBuf, fl) /\ AfterStrategy(p, fl, "getnewbuf")
     /\ bp' = [bp EXCEPT ![p] = NewBuf]
     /\ UNCHANGED <<datavars, wchan, want, hold, todo, err, panicked>>

(* Take b, with flags fl, vnode list l and block k, for the caller. *)
TakeNew(p, b, fl, l, k) ==
  /\ bremfree(b)
  /\ b_flags' = [b_flags EXCEPT ![b] = fl]
  /\ b_vp' = [b_vp EXCEPT ![b] = want[p].vp]
  /\ b_list' = [b_list EXCEPT ![b] = l]
  /\ b_lblkno' = [b_lblkno EXCEPT ![b] = k]
  /\ b_bcount' = [b_bcount EXCEPT ![b] = want[p].size]
  /\ b_fresh' = [b_fresh EXCEPT ![b] = FALSE]
  /\ bp' = [bp EXCEPT ![p] = b]
  /\ Return(p)
  /\ UNCHANGED <<freewanted, vnvars, io, d_fresh, wchan, want, hold, todo, err, panicked>>

CleanNew(p) == At(p, "getnewbuf") /\ ~NoneFree /\ ~Has(NewBuf, "DELWRI")

(* Mutants of GetnewbufClean: the old block number stays; a buffer of      *)
(* geteblk() is associated.                                                *)
GetnewbufKeepsBlkno(p) ==
  CleanNew(p) /\ TakeNew(p, NewBuf, {"BUSY"}, <<want[p].vp, "clean">>, b_lblkno[NewBuf])
GeteblkAssociates(p) ==
  CleanNew(p) /\ TakeNew(p, NewBuf, {"BUSY"}, <<want[p].vp, "clean">>, want[p].blk)

(* getnewbuf() takes a clean buffer from its old block, and getblk() gives *)
(* it to the new one; geteblk() leaves it invalid and without a block.     *)
GetnewbufClean(p) ==
  /\ CleanNew(p)
  /\ IF want[p].op = "geteblk"
     THEN TakeNew(p, NewBuf, {"BUSY", "INVAL"}, None, b_lblkno[NewBuf])
     ELSE TakeNew(p, NewBuf, {"BUSY"}, <<want[p].vp, "clean">>, want[p].blk)

(* bwrite(): a delayed write started asynchronously is marked AGE after    *)
(* VOP_STRATEGY; the write may already be over and the buffer released.    *)
SetAge(p) ==
  /\ At(p, "setage")
  /\ b_flags' = [b_flags EXCEPT ![bp[p]] = @ \cup {"AGE"}]
  /\ bp' = [bp EXCEPT ![p] = None]
  /\ Return(p)
  /\ UNCHANGED <<b_vp, b_lblkno, b_bcount, b_list, bfreelist, freewanted, vnvars, io,
                 datavars, wchan, want, hold, todo, err, panicked>>

-----------------------------------------------------------------------------
(* bread(), breada(), baddr() and biowait().                               *)

(* Start reading b, unless its contents are there. *)
StartRead(b, extra) ==
  IF b_flags[b] \cap {"DONE", "DELWRI"} # {}
  THEN UNCHANGED <<b_flags, io>>
  ELSE /\ b_flags' = [b_flags EXCEPT ![b] = @ \cup {"READ"} \cup extra]
       /\ io' = io \cup {b}

(* bread() after getblk(): a hit returns at once, a miss waits.  biowait() *)
(* of a buffer whose DONE is set returns at once, of a hit that has only   *)
(* DELWRI it is not called.                                                *)
Bread(p) ==
  /\ At(p, "bread")
  /\ StartRead(bp[p], {})
  /\ IF bp[p] \in io' THEN Goto(p, "biowait") /\ UNCHANGED stack ELSE Return(p)
  /\ UNCHANGED <<b_vp, b_lblkno, b_bcount, b_list, bfreelist, freewanted, vnvars,
                 datavars, wchan, want, bp, hold, todo, err, panicked>>

(* breada(): get and start the block itself if it is not in core. *)
Breada(p) ==
  /\ At(p, "breada")
  /\ IF incore(want[p].vp, want[p].blk)
     THEN Goto(p, "breada_ra") /\ UNCHANGED stack
     ELSE Call(p, "getblk", "breada_io")
  /\ UNCHANGED <<bufvars, vnvars, io, datavars, wchan, want, bp, hold, todo, err, panicked>>

BreadaStart(p) ==
  /\ At(p, "breada_io")
  /\ StartRead(bp[p], {})
  /\ hold' = [hold EXCEPT ![p] = bp[p]] /\ bp' = [bp EXCEPT ![p] = None]
  /\ Goto(p, "breada_ra")
  /\ UNCHANGED <<b_vp, b_lblkno, b_bcount, b_list, bfreelist, freewanted, vnvars,
                 datavars, wchan, stack, want, todo, err, panicked>>

(* want.blk and want.ra are exchanged while the read-ahead block is dealt  *)
(* with.                                                                   *)
Swap(p) == want' = [want EXCEPT ![p].blk = want[p].ra, ![p].ra = want[p].blk]

(* breada(): the read-ahead block, unless it is in core. *)
BreadaAhead(p) ==
  /\ At(p, "breada_ra")
  /\ Swap(p)
  /\ IF incore(want[p].vp, want[p].ra)
     THEN Goto(p, "breada_end") /\ UNCHANGED stack
     ELSE Call(p, "getblk", "ra_io")
  /\ UNCHANGED <<bufvars, vnvars, io, datavars, wchan, bp, hold, todo, err, panicked>>

AheadStart(p) ==
  /\ At(p, "ra_io")
  /\ IF b_flags[bp[p]] \cap {"DONE", "DELWRI"} # {}
     THEN brelse(bp[p], b_flags[bp[p]], {}) /\ UNCHANGED io
     ELSE /\ StartRead(bp[p], {"ASYNC"})
          /\ UNCHANGED <<b_vp, b_lblkno, b_bcount, b_list, bfreelist, freewanted, wchan>>
  /\ bp' = [bp EXCEPT ![p] = None]
  /\ Goto(p, "breada_end")
  /\ UNCHANGED <<vnvars, datavars, stack, want, hold, todo, err, panicked>>

(* breada(): wait for the block read above, or let bread() get it. *)
BreadaEnd(p) ==
  /\ At(p, "breada_end")
  /\ Swap(p)
  /\ bp' = [bp EXCEPT ![p] = hold[p]] /\ hold' = [hold EXCEPT ![p] = None]
  /\ IF hold[p] = None
     THEN Call(p, "getblk", "bread")
     ELSE Goto(p, "biowait") /\ UNCHANGED stack
  /\ UNCHANGED <<bufvars, vnvars, io, datavars, wchan, todo, err, panicked>>

(* Mutant of BiowaitDone: B_DONE is not tested again after the sleep. *)
BiowaitDoneUntested(p) ==
  /\ At(p, "biowait")
  /\ Return(p)
  /\ UNCHANGED <<bufvars, vnvars, io, datavars, wchan, want, err, bp, hold, todo, panicked>>

(* biowait(): returns, or sleeps and tests again. *)
BiowaitDone(p) ==
  /\ At(p, "biowait") /\ Has(bp[p], "DONE")
  /\ err' = [err EXCEPT ![p] = Has(bp[p], "ERROR")]
  /\ Return(p)
  /\ UNCHANGED <<bufvars, vnvars, io, datavars, wchan, want, bp, hold, todo, panicked>>

BiowaitSleep(p) ==
  /\ At(p, "biowait") /\ ~Has(bp[p], "DONE")
  /\ Sleep(p, bp[p], "biowait")
  /\ UNCHANGED <<bufvars, vnvars, io, datavars, locals, panicked>>

(* bwrite(): release after a synchronous write. *)
Release(p) ==
  /\ At(p, "release")
  /\ brelse(bp[p], b_flags[bp[p]], {})
  /\ bp' = [bp EXCEPT ![p] = None]
  /\ Return(p)
  /\ UNCHANGED <<vnvars, io, datavars, want, hold, todo, err, panicked>>

-----------------------------------------------------------------------------
(* vflushbuf() and vinvalbuf().                                            *)

IsSync(p) == want[p].op = "vflushsync"

(* vflushbuf(): the dirty list is walked from its head.  A dirty buffer is *)
(* not under I/O, so no interrupt takes it off the list during the walk.   *)
VflushStart(p) ==
  /\ At(p, "vflush")
  /\ todo' = [todo EXCEPT ![p] = ListOf(want[p].vp, "dirty")]
  /\ Goto(p, "vflush_scan")
  /\ UNCHANGED <<bufvars, vnvars, io, datavars, wchan, stack, want, bp, hold, err, panicked>>

(* vflushbuf(): a busy buffer is passed over. *)
VflushSkip(p) ==
  /\ At(p, "vflush_scan")
  /\ \E b \in todo[p] : Has(b, "BUSY") /\ todo' = [todo EXCEPT ![p] = @ \ {b}]
  /\ cpu' = p
  /\ UNCHANGED <<bufvars, vnvars, io, datavars, pc, wchan, stack, want, bp, hold, err, panicked>>

(* vflushbuf(): a free one is written, synchronously if it is an indirect  *)
(* block of the file that is being flushed synchronously.                  *)
VflushWrite(p) ==
  \E b \in todo[p] :
    LET async == b_vp[b] = want[p].vp \/ ~IsSync(p)
        fl == b_flags[b] \cup {"BUSY"} \cup (IF async THEN {"ASYNC"} ELSE {})
    IN /\ At(p, "vflush_scan") /\ ~Has(b, "BUSY")
       /\ IF ~Has(b, "DELWRI") \/ b_vp[b] = None
          THEN Panic
          ELSE /\ bremfree(b) /\ bwrite(b, fl)
               /\ AfterStrategy(p, fl, IF async THEN "vflush_scan" ELSE "vflush")
               /\ todo' = [todo EXCEPT ![p] = IF async THEN @ \ {b} ELSE {}]
               /\ bp' = [bp EXCEPT ![p] = b]
               /\ UNCHANGED <<datavars, wchan, want, hold, err, panicked>>

(* vflushbuf(): the end of the walk. *)
VflushScanned(p) ==
  /\ At(p, "vflush_scan") /\ todo[p] = {}
  /\ IF IsSync(p) THEN Goto(p, "vflush_wait") /\ UNCHANGED <<stack, want>>
                  ELSE Return(p) /\ want' = [want EXCEPT ![p] = None]
  /\ UNCHANGED <<bufvars, vnvars, io, datavars, wchan, bp, hold, todo, err, panicked>>

(* vflushbuf(B_SYNC): wait for the vnode's writes to finish. *)
VflushSleep(p) ==
  LET v == want[p].vp
  IN /\ At(p, "vflush_wait") /\ v_numoutput[v] # 0
     /\ vbwait' = [vbwait EXCEPT ![v] = TRUE]
     /\ Sleep(p, v, "vflush_wait")
     /\ UNCHANGED <<bufvars, v_numoutput, tapes, io, datavars, locals, panicked>>

(* vflushbuf(B_SYNC): all writes are finished; start again if a buffer is  *)
(* (still or again) dirty.                                                 *)
VflushDone(p) ==
  LET v == want[p].vp
  IN /\ At(p, "vflush_wait") /\ v_numoutput[v] = 0
     /\ IF ListOf(v, "dirty") # {}
        THEN Goto(p, "vflush") /\ UNCHANGED <<stack, want>>
        ELSE Return(p) /\ want' = [want EXCEPT ![p] = None]
     /\ UNCHANGED <<bufvars, vnvars, io, datavars, wchan, bp, hold, todo, err, panicked>>

(* vinvalbuf(): pick the dirty list, or else the clean one; return when    *)
(* both are empty.  todo holds nbp, the next buffer to look at.            *)
VinvalList(p) ==
  LET v == want[p].vp
      kind == IF ListOf(v, "dirty") # {} THEN "dirty" ELSE "clean"
  IN /\ At(p, "vinval")
     /\ IF ListOf(v, kind) = {}
        THEN /\ Return(p) /\ want' = [want EXCEPT ![p] = None]
             /\ UNCHANGED todo
        ELSE /\ Goto(p, "vinval_scan") /\ UNCHANGED <<stack, want>>
             /\ \E b \in ListOf(v, kind) : todo' = [todo EXCEPT ![p] = {b}]
     /\ UNCHANGED <<bufvars, vnvars, io, datavars, wchan, bp, hold, err, panicked>>

(* vinvalbuf(): bp = nbp; nbp = bp->b_blockf.  The interrupt is enabled. *)
VinvalScan(p) ==
  /\ At(p, "vinval_scan")
  /\ \E b \in todo[p] :
       LET rest == IF b_list[b] = None THEN {}
                   ELSE {c \in Bufs : b_list[c] = b_list[b]} \ {b}
       IN /\ bp' = [bp EXCEPT ![p] = b]
          /\ IF rest = {} THEN todo' = [todo EXCEPT ![p] = {}]
             ELSE \E c \in rest : todo' = [todo EXCEPT ![p] = {c}]
  /\ Goto(p, "vinval_take")
  /\ UNCHANGED <<bufvars, vnvars, io, datavars, wchan, stack, want, hold, err, panicked>>

(* vinvalbuf(): a busy buffer is waited for, then the lists are read anew. *)
VinvalBusy(p) ==
  /\ At(p, "vinval_take") /\ Has(bp[p], "BUSY")
  /\ b_flags' = [b_flags EXCEPT ![bp[p]] = @ \cup {"WANTED"}]
  /\ Sleep(p, bp[p], "vinval")
  /\ bp' = [bp EXCEPT ![p] = None] /\ todo' = [todo EXCEPT ![p] = {}]
  /\ UNCHANGED <<b_vp, b_lblkno, b_bcount, b_list, bfreelist, freewanted, vnvars,
                 io, datavars, stack, want, hold, err, panicked>>

(* vinvalbuf(save): a free dirty buffer is written first. *)
VinvalSave(p) ==
  LET b == bp[p]
      fl == b_flags[b] \cup {"BUSY"}
  IN /\ At(p, "vinval_take") /\ ~Has(b, "BUSY")
     /\ want[p].op = "vinvalsave" /\ Has(b, "DELWRI")
     /\ bremfree(b) /\ bwrite(b, fl) /\ AfterStrategy(p, fl, "vinval")
     /\ todo' = [todo EXCEPT ![p] = {}]
     /\ UNCHANGED <<datavars, wchan, want, bp, hold, err, panicked>>

(* Invalidate and release the buffer picked, or, if it is an indirect      *)
(* block, hand it back to its device.  What was delayed in a truncated     *)
(* file is forgotten: the disk holds the block's contents again.           *)
Invalidate(p) ==
  LET b == bp[p]
      fl == (b_flags[b] \cup {"BUSY"}) \cup
            (IF b_vp[b] = want[p].vp THEN {"INVAL"} ELSE {})
  IN /\ At(p, "vinval_take") /\ ~Has(b, "BUSY")
     /\ IF b_vp[b] = None
        THEN Panic
        ELSE /\ brelseFrom(FreeWithout(b), NewList(b_vp[b], b_flags[b]), b, fl, {})
             /\ d_fresh' = IF Has(b, "DELWRI") /\ "INVAL" \in fl
                              /\ want[p].op = "vinvaltrunc"
                           THEN [d_fresh EXCEPT ![<<b_vp[b], b_lblkno[b]>>] = TRUE]
                           ELSE d_fresh
             /\ bp' = [bp EXCEPT ![p] = None]
             /\ Goto(p, IF todo[p] = {} THEN "vinval" ELSE "vinval_scan")
             /\ UNCHANGED <<b_fresh, vnvars, io, stack, want, hold, todo, err, panicked>>

(* Mutant of VinvalDrop: dirty buffers are dropped even if save is set. *)
VinvalDropDirty(p) == Invalidate(p)

(* vinvalbuf(): a free buffer that needs no saving is invalidated. *)
VinvalDrop(p) ==
  /\ At(p, "vinval_take")
  /\ ~(want[p].op = "vinvalsave" /\ Has(bp[p], "DELWRI"))
  /\ Invalidate(p)

-----------------------------------------------------------------------------
(* The file systems, as far as they use the cache: a process asks for one  *)
(* block at a time, or flushes or invalidates a vnode, and releases or     *)
(* writes the buffer it was given.                                         *)

Idle(p) == At(p, "user") /\ bp[p] = None

Request1(op, v, k, ra, size) ==
  [op |-> op, vp |-> v, blk |-> k, ra |-> ra, size |-> size]

(* A call of op that starts at a label and, once there, calls getblk. *)
Enter(p, op, v, k, ra, size, label, callers) ==
  /\ Idle(p) /\ op \in Ops[p]
  /\ want' = [want EXCEPT ![p] = Request1(op, v, k, ra, size)]
  /\ stack' = [stack EXCEPT ![p] = callers] /\ err' = [err EXCEPT ![p] = FALSE]
  /\ Goto(p, label)
  /\ UNCHANGED <<bufvars, vnvars, io, datavars, wchan, bp, hold, todo, panicked>>

CallBread(p) == \E v \in Vnodes, k \in Blks, z \in Sizes :
  Enter(p, "bread", v, k, None, z, "getblk", <<"bread", "user">>)
CallBaddr(p) == \E v \in Vnodes, k \in Blks, z \in Sizes :
  /\ incore(v, k)
  /\ Enter(p, "baddr", v, k, None, z, "getblk", <<"bread", "user">>)
CallBreada(p) == \E v \in Vnodes, k, ra \in Blks, z \in Sizes :
  /\ k # ra
  /\ Enter(p, "breada", v, k, ra, z, "breada", <<"user">>)
CallGetblk(p) == \E v \in Vnodes, k \in Blks, z \in Sizes :
  Enter(p, "getblk", v, k, None, z, "getblk", <<"user">>)
CallGeteblk(p) == \E z \in Sizes :
  Enter(p, "geteblk", None, None, None, z, "getnewbuf", <<"user">>)
CallVflushbuf(p) == \E v \in Vnodes, op \in {"vflushbuf", "vflushsync"} :
  Enter(p, op, v, None, None, None, "vflush", <<"user">>)
CallVinvalbuf(p) == \E v \in Vnodes, op \in {"vinvalsave", "vinvaltrunc"} :
  Enter(p, op, v, None, None, None, "vinval", <<"user">>)

(* The process has a buffer and is done with it. *)
Holding(p) == At(p, "user") /\ bp[p] # None
Forget(p) == /\ bp' = [bp EXCEPT ![p] = None] /\ want' = [want EXCEPT ![p] = None]
             /\ UNCHANGED <<hold, todo, err, panicked>>

(* brelse() by its user.  A block asked for with getblk() and not read is  *)
(* filled and written, not released.                                       *)
UserBrelse(p) ==
  /\ Holding(p)
  /\ want[p].op = "getblk" => b_flags[bp[p]] \cap {"DONE", "DELWRI"} # {}
  /\ brelse(bp[p], b_flags[bp[p]], {})
  /\ Forget(p)
  /\ UNCHANGED <<vnvars, io, datavars, cpu, pc, stack>>

(* A block that was read without an error, or is filled, may be modified. *)
MayWrite(p) ==
  /\ Holding(p) /\ want[p].op # "geteblk"
  /\ want[p].op = "getblk" \/ ~err[p]

(* bwrite() or bawrite() by its user. *)
UserBwrite(p) ==
  \E how \in {{}, {"ASYNC"}} :
    LET b == bp[p]
        fl == b_flags[b] \cup how
    IN /\ MayWrite(p)
       /\ IF b_vp[b] = None
          THEN Panic
          ELSE /\ Modify(b) /\ bwrite(b, fl) /\ AfterStrategy(p, fl, "user")
               /\ want' = [want EXCEPT ![p] = None]
               /\ bp' = IF pc'[p] = "user" THEN [bp EXCEPT ![p] = None] ELSE bp
               /\ UNCHANGED <<bfreelist, wchan, hold, todo, err, panicked>>

(* bdwrite() by its user, to a disk or to a tape. *)
UserBdwrite(p) ==
  LET b == bp[p]
      fl == b_flags[b] \cup {"DELWRI"}
      list == IF Has(b, "DELWRI") THEN b_list[b] ELSE <<b_vp[b], "dirty">>
  IN /\ MayWrite(p)
     /\ IF b_vp[b] = None
        THEN Panic
        ELSE /\ Modify(b)
             /\ IF b_vp[b] \in tapes
                THEN /\ bwrite(b, fl \cup {"ASYNC"})
                     /\ AfterStrategy(p, fl \cup {"ASYNC"}, "user")
                     /\ want' = [want EXCEPT ![p] = None]
                     /\ UNCHANGED <<bfreelist, wchan, bp, hold, todo, err, panicked>>
                ELSE /\ brelseFrom(bfreelist, list, b, fl \cup {"DONE"}, {})
                     /\ Forget(p)
                     /\ UNCHANGED <<vnvars, io, cpu, pc, stack>>

(* ufs_bmap(): the first delayed write of an indirect block (a block of    *)
(* the device) puts it on the dirty list of the file it belongs to.        *)
UserIndirect(p) ==
  LET b == bp[p]
  IN /\ MayWrite(p) /\ "indirect" \in Ops[p]
     /\ b_vp[b] \notin tapes \cup {None} /\ ~Has(b, "DELWRI")
     /\ Modify(b)
     /\ \E v \in Vnodes \ {b_vp[b]} :
          brelseFrom(bfreelist, <<v, "dirty">>, b, b_flags[b] \cup {"DELWRI", "DONE"}, {})
     /\ Forget(p)
     /\ UNCHANGED <<vnvars, io, cpu, pc, stack>>

-----------------------------------------------------------------------------
(* The disk interrupt: the driver has finished with b, and calls biodone() *)
(* with B_ERROR set if the transfer failed.  Requests finish in any order. *)
Biodone(b, failed) ==
  LET fl  == b_flags[b] \cup {"DONE"} \cup (IF failed THEN {"ERROR"} ELSE {})
      v   == b_vp[b]
      wr  == "READ" \notin fl
      out == IF wr /\ v # None THEN v_numoutput[v] - 1 ELSE 0
      idle == wr /\ v # None /\ vbwait[v] /\ out <= 0
      chans == IF idle THEN {v} ELSE {}
  IN /\ ~panicked /\ b \in io
     /\ IF Has(b, "DONE") \/ (idle /\ out < 0)
        THEN Panic
        ELSE /\ io' = io \ {b}
             /\ v_numoutput' = IF wr /\ v # None THEN [v_numoutput EXCEPT ![v] = out]
                               ELSE v_numoutput
             /\ vbwait' = IF idle THEN [vbwait EXCEPT ![v] = FALSE] ELSE vbwait
             /\ IF wr
                THEN /\ d_fresh' = IF failed THEN d_fresh
                                   ELSE [d_fresh EXCEPT ![<<v, b_lblkno[b]>>] = b_fresh[b]]
                     /\ UNCHANGED b_fresh
                ELSE /\ b_fresh' = [b_fresh EXCEPT ![b] =
                                      ~failed /\ d_fresh[<<v, b_lblkno[b]>>]]
                     /\ UNCHANGED d_fresh
             /\ IF "ASYNC" \in fl
                THEN brelse(b, fl, chans)
                ELSE /\ b_flags' = [b_flags EXCEPT ![b] = fl \ {"WANTED"}]
                     /\ Wakeup(chans \cup {b})
                     /\ UNCHANGED <<b_vp, b_lblkno, b_bcount, b_list, bfreelist, freewanted>>
             /\ UNCHANGED <<tapes, cpu, pc, locals, panicked>>

Interrupt(b) == Biodone(b, FALSE) \/ (MayFail /\ Biodone(b, TRUE))

Enters(p) == \/ CallBread(p) \/ CallBaddr(p) \/ CallBreada(p) \/ CallGetblk(p)
             \/ CallGeteblk(p) \/ CallVflushbuf(p) \/ CallVinvalbuf(p)

(* The steps of a process that has entered the cache or holds a buffer. *)
Step(p) ==
  \/ GetblkSearch(p) \/ GetblkBusy(p) \/ GetblkHit(p) \/ GetblkStray(p)
  \/ GetnewbufSleep(p) \/ GetnewbufDirty(p) \/ GetnewbufClean(p) \/ SetAge(p)
  \/ Bread(p) \/ Breada(p) \/ BreadaStart(p) \/ BreadaAhead(p) \/ AheadStart(p)
  \/ BreadaEnd(p) \/ BiowaitDone(p) \/ BiowaitSleep(p) \/ Release(p)
  \/ VflushStart(p) \/ VflushSkip(p) \/ VflushWrite(p) \/ VflushScanned(p)
  \/ VflushSleep(p) \/ VflushDone(p)
  \/ VinvalList(p) \/ VinvalScan(p) \/ VinvalBusy(p) \/ VinvalSave(p) \/ VinvalDrop(p)
  \/ UserBrelse(p) \/ UserBwrite(p) \/ UserBdwrite(p) \/ UserIndirect(p)

(* After a panic nothing happens any more. *)
Halted == panicked /\ UNCHANGED vars

Next == Halted \/ (\E b \in Bufs : Interrupt(b)) \/ \E p \in Procs : Enters(p) \/ Step(p)

Spec == Init /\ [][Next]_vars

(* The disk finishes what it was given, a runnable process gets the CPU    *)
(* (schedcpu() ages priorities), and no process keeps a buffer forever.    *)
FairSpec == Spec /\ (\A b \in Bufs : WF_vars(Interrupt(b))) /\ \A p \in Procs : SF_vars(Step(p))

-----------------------------------------------------------------------------
(* Correctness.                                                            *)

OnFreeList(b) == \E q \in Queues : \E i \in DOMAIN bfreelist[q] : bfreelist[q][i] = b

(* B_BUSY's comment, "not on av_forw/back list", both ways: a buffer is on *)
(* a free list, once, exactly when it is not busy, whoever releases it.    *)
BusyIffNotFree ==
  /\ \A b \in Bufs : Has(b, "BUSY") <=> ~OnFreeList(b)
  /\ \A q \in Queues, r \in Queues :
       \A i \in DOMAIN bfreelist[q], j \in DOMAIN bfreelist[r] :
         bfreelist[q][i] = bfreelist[r][j] => q = r /\ i = j

(* A sleeper is never forgotten: what it waits for has not happened, and   *)
(* whoever makes it happen will see that it is wanted.                     *)
NoLostWakeup ==
  \A p \in Procs :
    /\ wchan[p] \in Bufs =>
         Has(wchan[p], "BUSY") /\ (IF pc[p] = "biowait" THEN wchan[p] \in io
                                                       ELSE Has(wchan[p], "WANTED"))
    /\ wchan[p] = FreeChan => freewanted /\ NoneFree
    /\ wchan[p] \in Vnodes => vbwait[wchan[p]] /\ v_numoutput[wchan[p]] > 0

(* v_numoutput counts the vnode's writes in progress, no more, no fewer:   *)
(* vflushbuf(B_SYNC) waits for exactly these.                              *)
OutputCounted ==
  \A v \in Vnodes :
    v_numoutput[v] = Cardinality({b \in io : b_vp[b] = v /\ ~Has(b, "READ")})

(* At most one valid buffer per block: "If the appropriate block is        *)
(* already associated, return it" and ufs_strategy()'s "Disk buffer        *)
(* overlap" panic.                                                         *)
OneBufferPerBlock == \A v \in Vnodes, k \in Blks : Cardinality(Cached(v, k)) <= 1

(* "If the appropriate block is already associated, return it": the buffer *)
(* a process gets for a block is a valid buffer of that block.             *)
GetblkReturnsBlock ==
  \A p \in Procs :
    pc[p] = "user" /\ bp[p] # None /\ ~panicked /\ want[p].op # "geteblk"
    => bp[p] \in Cached(want[p].vp, want[p].blk)

(* A process that read a block has the buffer of that block to itself, and *)
(* it holds what was last written, whether that was on the disk, delayed,  *)
(* or on its way.                                                          *)
ReadsAreCurrent ==
  \A p \in Procs :
    pc[p] = "user" /\ bp[p] # None /\ ~panicked
    /\ want[p].op \in {"bread", "baddr", "breada"} /\ ~err[p]
    => /\ b_fresh[bp[p]]
       /\ \A q \in Procs \ {p} : bp[p] \notin {hold[q]} /\ (pc[q] = "user" => bp[q] # bp[p])

(* What was written is never lost: it is on the disk, or in a buffer that  *)
(* is marked for a delayed write or is being written.                      *)
NoLostWrite ==
  \A k \in Blocks :
    d_fresh[k] \/ \E b \in Bufs :
      /\ <<b_vp[b], b_lblkno[b]>> = k /\ b_fresh[b]
      /\ Has(b, "DELWRI") \/ (b \in io /\ ~Has(b, "READ"))

(* The vnode lists agree with the flags and the associations: every dirty  *)
(* buffer is on some vnode's dirty list, so that a flush finds it, and a   *)
(* buffer on a list belongs to a vnode.                                    *)
ListsAgree ==
  \A b \in Bufs :
    /\ b_vp[b] = None <=> b_list[b] = None
    /\ b_list[b] # None => (Has(b, "DELWRI") <=> b_list[b][2] = "dirty")

(* No panic: "dup biodone", "biodone: neg numoutput", "vflushbuf: not      *)
(* dirty", "reassignbuf: NULL", or a write through a null b_vp.            *)
NoPanic == ~panicked

(* vflushbuf(B_SYNC) has written what it could, and the dirty buffers that *)
(* are left are in use: it does not sleep, and nobody else gets the CPU.   *)
Spins(p) ==
  /\ At(p, "vflush_wait") /\ cpu = p /\ v_numoutput[want[p].vp] = 0
  /\ ListOf(want[p].vp, "dirty") # {}
  /\ \A b \in ListOf(want[p].vp, "dirty") : Has(b, "BUSY")

(* Whoever sleeps is woken in the end, unless the kernel is caught in the  *)
(* loop of vflushbuf(B_SYNC): no other way leads to sleeping forever.      *)
SleepersWake ==
  \A p \in Procs : wchan[p] # None ~> wchan[p] = None \/ \E q \in Procs : Spins(q)
=============================================================================
