-------------------------- MODULE BufCacheBlock_proofs --------------------------
(***************************************************************************)
(* Theorems about what getblk() returns and about the panics, where the    *)
(* disk reports no errors; about the buffers of a block, as long as        *)
(* getnewbuf() does not sleep; and about the contents of the buffers and   *)
(* of the disk, where both hold and blocks are asked for with one size.    *)
(***************************************************************************)
EXTENDS BufCacheOwn_proofs

(* An invalid buffer is at work or has no vnode, and is not left to the    *)
(* interrupt to release.                                                   *)
Intact(b) ==
  /\ ~Has(b, "ERROR")
  /\ Has(b, "ASYNC") => ~Has(b, "INVAL")
  /\ Has(b, "INVAL") => Has(b, "BUSY") \/ b_vp[b] = None

(* Where a process keeps the CPU from the step before. *)
Walking == {"found", "setage", "vflush_scan", "vinval_scan", "vinval_take"}

(* What is left of a walk is still on the list that is walked. *)
Walk(p) ==
  /\ pc[p] \in Walking => cpu = p
  /\ \A b \in todo[p] : \/ pc[p] \in {"setage", "vflush_scan"} /\ Has(b, "DELWRI")
                        \/ pc[p] \in {"vinval_scan", "vinval_take"} /\ b_list[b] # None
  /\ pc[p] = "setage" /\ todo[p] # {} => Head(stack[p]) = "vflush_scan"
  /\ pc[p] = "vinval_take" => b_list[bp[p]] # None /\ bp[p] \notin todo[p]

(* bp is a buffer of the block asked for. *)
Given(p) == \/ pc[p] \in {"found", "bread", "breada_io", "ra_io"}
            \/ pc[p] = "biowait" /\ Head(stack[p]) = "user"
            \/ pc[p] = "user" /\ bp[p] # None /\ want[p].op # "geteblk"

(* The block of breada()'s first buffer; p is dealing with the other one.  *)
First(p) == IF pc[p] = "breada_ra" THEN want[p].blk ELSE want[p].ra
Ahead(p) == pc[p] \in {"breada_ra", "ra_io", "breada_end"} \/ Listed(stack[p], "ra_io")

(* geteblk() does not go through getblk(). *)
Unnamed(p) == \/ pc[p] = "user"
              \/ pc[p] = "getnewbuf" /\ stack[p] = <<"user">>
              \/ pc[p] = "setage" /\ stack[p] = <<"getnewbuf">> \o <<"user">>

Block(p) ==
  /\ Given(p) => bp[p] \in Cached(want[p].vp, want[p].blk)
  /\ hold[p] # None => hold[p] \in Cached(want[p].vp, First(p)) /\ Ahead(p)
  /\ want[p] # None /\ want[p].op = "geteblk" => Unnamed(p)

BlockInv ==
  ~panicked /\ (\A b \in Bufs : Intact(b)) /\ \A p \in Procs : Walk(p) /\ Block(p)

-----------------------------------------------------------------------------
(* A step of p.                                                            *)

(* The block of b stays. *)
Same(b) == /\ b_vp'[b] = b_vp[b] /\ b_lblkno'[b] = b_lblkno[b]
           /\ "INVAL" \in b_flags'[b] <=> "INVAL" \in b_flags[b]

(* p runs, and nobody else moves. *)
Runs(p) == /\ cpu \in {p, None} /\ Local(p)
           /\ \A q \in Procs \ {p} : todo'[q] = todo[q]

LEMMA BlockStep ==
  ASSUME CacheInv, BlockInv, NEW p \in Procs, Runs(p),
         \A c \in Bufs : Same(c) \/ \A q \in Procs \ {p} : ~Owns(q, c),
         \A c \in Bufs : Intact(c)', Walk(p)', Block(p)', UNCHANGED panicked
  PROVE  BlockInv'
<1> SUFFICES ASSUME NEW q \in Procs \ {p} PROVE Walk(q)' /\ Block(q)'
  BY DEF BlockInv
<1>1. /\ Walk(q) /\ Block(q) /\ todo'[q] = todo[q] /\ pc'[q] = pc[q] /\ stack'[q] = stack[q]
      /\ want'[q] = want[q] /\ bp'[q] = bp[q] /\ hold'[q] = hold[q]
  BY DEF BlockInv, Runs, Local
<1>2. pc[q] \notin Walking
  <2>1. None # q
    BY BufCacheAssumption DEF BufCacheAssumption
  <2>. QED  BY <1>1, <2>1 DEF Walk, Runs
<1>3. Walk(q)'
  BY <1>1, <1>2 DEF Walk, Walking
<1>4. bp[q] \in Bufs \cup {None} /\ hold[q] \in Bufs \cup {None} /\ None \notin Bufs
  BY BufCacheAssumption DEF CacheInv, ControlInv, TypeOK, BufCacheAssumption
<1>5. Given(q)' <=> Given(q)
  BY <1>1 DEF Given
<1>6. Given(q) => bp[q] \in Bufs /\ Same(bp[q])
  <2> SUFFICES ASSUME Given(q) PROVE bp[q] \in Bufs /\ Same(bp[q])
    OBVIOUS
  <2>1. bp[q] \in Bufs
    BY <1>1 DEF Block, Cached
  <2>2. Owns(q, bp[q])
    BY <1>2 DEF Owns, Given, Holders, Walking
  <2>. QED  BY <2>1, <2>2
<1>7. hold[q] # None => hold[q] \in Bufs /\ Same(hold[q])
  BY <1>4 DEF Owns
<1>8. \A v, k : /\ Given(q) /\ bp[q] \in Cached(v, k) => bp[q] \in Cached(v, k)'
                /\ hold[q] # None /\ hold[q] \in Cached(v, k) => hold[q] \in Cached(v, k)'
  BY <1>6, <1>7 DEF Same, Cached
<1>9. Block(q)'
  <2>1. Given(q)' => bp[q] \in Cached(want[q].vp, want[q].blk)'
    BY <1>1, <1>5, <1>8 DEF Block, Cached
  <2>2. hold[q] # None => hold[q] \in Cached(want[q].vp, First(q))' /\ Ahead(q)'
    BY <1>1, <1>8 DEF Block, First, Ahead, Cached
  <2>. QED  BY <1>1, <2>1, <2>2 DEF Block, Unnamed
<1>. QED  BY <1>3, <1>9

(* A step that leaves every buffer with its block, at most marking it; a   *)
(* buffer that is left to the interrupt is valid.                          *)
Quiet ==
  /\ UNCHANGED <<b_vp, b_lblkno, b_list, panicked>>
  /\ \A c \in Bufs :
       /\ b_flags[c] \subseteq b_flags'[c]
       /\ b_flags'[c] \subseteq b_flags[c] \cup {"WANTED", "AGE", "READ", "BUSY", "ASYNC"}
       /\ "ASYNC" \in b_flags'[c] => Has(c, "ASYNC") \/ ~Has(c, "INVAL")

LEMMA QuietKeeps ==
  ASSUME Quiet
  PROVE  /\ \A v, k : Cached(v, k)' = Cached(v, k)
         /\ \A c \in Bufs : Same(c) /\ (Has(c, "DELWRI")' <=> Has(c, "DELWRI"))
<1>1. \A c \in Bufs : Same(c)
  BY DEF Quiet, Same
<1>2. \A c \in Bufs : Has(c, "DELWRI")' <=> Has(c, "DELWRI")
  BY DEF Quiet, Has
<1>. QED  BY <1>1, <1>2 DEF Same, Cached

LEMMA QuietStep ==
  ASSUME CacheInv, BlockInv, NEW p \in Procs, Runs(p), Quiet, Walk(p)', Block(p)'
  PROVE  BlockInv'
<1>1. \A c \in Bufs : Intact(c)'
  BY DEF BlockInv, Intact, Quiet, Has
<1>2. \A c \in Bufs : Same(c) \/ \A q \in Procs \ {p} : ~Owns(q, c)
  BY QuietKeeps
<1>3. UNCHANGED panicked
  BY DEF Quiet
<1>. QED  BY <1>1, <1>2, <1>3, BlockStep

-----------------------------------------------------------------------------
(* Where a process is.                                                     *)

LEMMA NothingLeft ==
  ASSUME BlockInv, NEW p \in Procs, pc[p] \notin Walking \ {"found"}
  PROVE  todo[p] = {}
  BY DEF BlockInv, Walk, Walking

LEMMA Named ==
  ASSUME BlockInv, NEW p \in Procs, pc[p] \notin {"user", "getnewbuf", "setage"}, want[p] # None
  PROVE  want[p].op # "geteblk"
  BY DEF BlockInv, Block, Unnamed

LEMMA AsksForVnode ==
  ASSUME CacheInv, BlockInv, NEW p \in Procs,
         pc[p] \notin {"user", "getnewbuf", "setage", "release", "biowait"}
  PROVE  want[p].vp \in Vnodes /\ want[p].op # "geteblk"
<1>1. want[p] \in Request /\ (want[p].op = "geteblk" <=> want[p].vp = None)
  BY AtLabel, Pops DEF CacheInv, Asked
<1>2. want[p] # None
  BY <1>1, BufCacheAssumption DEF BufCacheAssumption
<1>. QED  BY <1>1, <1>2, Named DEF Request

LEMMA NothingHeld ==
  ASSUME CacheInv, BlockInv, NEW p \in Procs,
         pc[p] \in (OneDeep \cup {"user"}) \ {"breada_ra", "ra_io", "breada_end"}
  PROVE  hold[p] = None /\ (pc[p] # "user" => stack[p] = <<"user">>)
<1>1. stack[p] = <<>> \/ (pc[p] # "user" /\ stack[p] = <<"user">>)
  BY AtLabel DEF CacheInv, FrameAt, PlainStack, OneDeep, InGetblk
<1>2. ~Listed(stack[p], "ra_io")
  BY <1>1 DEF Listed
<1>3. pc[p] # "user" => stack[p] = <<"user">>
  BY AtLabel DEF CacheInv, FrameAt, PlainStack, OneDeep, InGetblk
<1>. QED  BY <1>2, <1>3 DEF BlockInv, Block, Ahead

LEMMA Popped ==
  ASSUME CacheInv, NEW p \in Procs, pc[p] # "user", Return(p), NEW l, Listed(stack[p], l)
  PROVE  pc'[p] = l \/ Listed(stack'[p], l)
<1>1. pc'[p] = Head(stack[p]) /\ stack'[p] = Tail(stack[p])
  BY ReturnFrame DEF CacheInv
<1>2. PICK i \in DOMAIN stack[p] : stack[p][i] = l
  BY DEF Listed
<1>3. stack[p] \in Seq(Labels) /\ Len(stack[p]) \in Nat /\ i \in 1..Len(stack[p])
  BY <1>2, AtLabel DEF CacheInv
<1>4. CASE i = 1
  BY <1>1, <1>2, <1>3, <1>4
<1>5. CASE i # 1
  <2>1. i - 1 \in DOMAIN Tail(stack[p]) /\ Tail(stack[p])[i - 1] = l
    BY <1>2, <1>3, <1>5
  <2>. QED  BY <1>1, <2>1 DEF Listed
<1>. QED  BY <1>4, <1>5

LEMMA Pushed ==
  ASSUME NEW s \in Seq(Labels), NEW c \in Labels, NEW l, Listed(s, l) \/ c = l
  PROVE  Listed(<<c>> \o s, l)
<1>1. /\ Len(s) \in Nat /\ DOMAIN s = 1..Len(s) /\ DOMAIN (<<c>> \o s) = 1..(Len(s) + 1)
      /\ (<<c>> \o s)[1] = c /\ \A i \in 1..Len(s) : (<<c>> \o s)[i + 1] = s[i]
  OBVIOUS
<1>2. CASE c = l
  BY <1>1, <1>2 DEF Listed
<1>3. CASE Listed(s, l)
  <2>1. PICK i \in 1..Len(s) : s[i] = l
    BY <1>1, <1>3 DEF Listed
  <2>2. i + 1 \in DOMAIN (<<c>> \o s) /\ (<<c>> \o s)[i + 1] = l
    BY <1>1, <2>1
  <2>. QED  BY <2>2 DEF Listed
<1>. QED  BY <1>2, <1>3

(* A return keeps the CPU unless it is to the user. *)
LEMMA ReturnKeepsCpu ==
  ASSUME CacheInv, NEW p \in Procs, Return(p) PROVE pc'[p] \in Walking => cpu' = p
  BY ReturnLocal DEF Return, Walking

LEMMA UntouchedIsQuiet ==
  ASSUME UNCHANGED <<bufvars, panicked>> PROVE Quiet
  BY DEF Quiet, bufvars, Has

-----------------------------------------------------------------------------
(* The quiet steps.                                                        *)

LEMMA BlockSearch ==
  ASSUME CacheInv, BlockInv, NEW p \in Procs, GetblkSearch(p) PROVE BlockInv'
<1>1. /\ cpu \in {p, None} /\ pc[p] = "getblk" /\ cpu' = p
      /\ UNCHANGED <<bufvars, panicked, stack, want, hold, todo>>
  BY DEF GetblkSearch, At, CanRun, Goto
<1>2. \/ pc'[p] = "getnewbuf" /\ UNCHANGED bp
      \/ pc'[p] = "found" /\ \E b \in Cached(want[p].vp, want[p].blk) : bp' = [bp EXCEPT ![p] = b]
  BY DEF GetblkSearch, Goto, CacheInv, ControlInv, TypeOK
<1>3. \A q \in Procs \ {p} : pc'[q] = pc[q] /\ bp'[q] = bp[q]
  BY <1>2 DEF GetblkSearch, Goto, CacheInv, ControlInv, TypeOK
<1>4. Runs(p) /\ Quiet
  BY <1>1, <1>3, UntouchedIsQuiet DEF Runs, Local
<1>5. todo[p] = {} /\ (want[p] # None => want[p].op # "geteblk")
  BY <1>1, NothingLeft, Named DEF Walking
<1>6. Walk(p)'
  BY <1>1, <1>2, <1>5 DEF Walk, Walking
<1>7. Given(p)' => bp'[p] \in Cached(want[p].vp, want[p].blk)
  BY <1>2 DEF Given, CacheInv, ControlInv, TypeOK
<1>8. hold[p] # None => hold[p] \in Cached(want[p].vp, want[p].ra) /\ Listed(stack[p], "ra_io")
  BY <1>1 DEF BlockInv, Block, First, Ahead
<1>9. Block(p)'
  BY <1>1, <1>2, <1>4, <1>5, <1>7, <1>8, QuietKeeps DEF Block, First, Ahead
<1>. QED  BY <1>4, <1>6, <1>9, QuietStep

LEMMA BlockBusy ==
  ASSUME CacheInv, BlockInv, NEW p \in Procs, GetblkBusy(p) \/ VinvalBusy(p) PROVE BlockInv'
<1>1. /\ cpu \in {p, None} /\ b_flags' = [b_flags EXCEPT ![bp[p]] = @ \cup {"WANTED"}]
      /\ bp' = [bp EXCEPT ![p] = None]
      /\ UNCHANGED <<b_vp, b_lblkno, b_list, panicked, stack, want, hold>>
  BY DEF GetblkBusy, WaitFor, VinvalBusy, At, CanRun
<1>2. \/ /\ pc[p] = "found" /\ pc' = [pc EXCEPT ![p] = "getblk"] /\ UNCHANGED todo
      \/ /\ pc[p] = "vinval_take" /\ pc' = [pc EXCEPT ![p] = "vinval"]
         /\ todo' = [todo EXCEPT ![p] = {}]
  BY DEF GetblkBusy, WaitFor, VinvalBusy, At, Sleep
<1>3. Quiet
  BY <1>1 DEF Quiet, Has, CacheInv, ControlInv, TypeOK
<1>4. Runs(p) /\ bp'[p] = None
  BY <1>1, <1>2 DEF Runs, Local, CacheInv, ControlInv, TypeOK
<1>5. pc[p] = "found" => todo[p] = {}
  BY NothingLeft
<1>6. pc'[p] \in {"getblk", "vinval"} /\ todo'[p] = {}
  BY <1>2, <1>5 DEF CacheInv, ControlInv, TypeOK
<1>7. want[p] # None => want[p].op # "geteblk"
  BY <1>2, Named
<1>8. hold[p] # None => hold[p] \in Cached(want[p].vp, want[p].ra) /\ Listed(stack[p], "ra_io")
  BY <1>2 DEF BlockInv, Block, First, Ahead
<1>9. Walk(p)' /\ Block(p)'
  BY <1>1, <1>3, <1>6, <1>7, <1>8, QuietKeeps DEF Walk, Walking, Block, Given, First, Ahead
<1>. QED  BY <1>3, <1>4, <1>9, QuietStep

LEMMA BlockHit ==
  ASSUME CacheInv, BlockInv, NEW p \in Procs, GetblkHit(p) PROVE BlockInv'
<1>1. /\ cpu \in {p, None} /\ b_flags' = [b_flags EXCEPT ![bp[p]] = @ \cup {"BUSY"}]
      /\ Return(p) /\ pc[p] = "found"
      /\ UNCHANGED <<b_vp, b_lblkno, b_list, panicked, want, bp, hold, todo>>
  BY DEF GetblkHit, TakeFound, At, CanRun
<1>2. Quiet
  BY <1>1 DEF Quiet, Has, CacheInv, ControlInv, TypeOK
<1>3. Runs(p)
  BY <1>1, ReturnLocal DEF Runs, Local
<1>4. pc'[p] \in Callers \cup {"user"}
  BY <1>1, AtLabel, Pops, ReturnLocal DEF CacheInv, InGetblk
<1>5. todo[p] = {} /\ (want[p] # None => want[p].op # "geteblk")
  BY <1>1, NothingLeft, Named
<1>6. bp[p] \in Cached(want[p].vp, want[p].blk)
  BY <1>1 DEF BlockInv, Block, Given
<1>7. hold[p] # None => hold[p] \in Cached(want[p].vp, want[p].ra) /\ Listed(stack[p], "ra_io")
  BY <1>1 DEF BlockInv, Block, First, Ahead
<1>8. hold[p] # None => Ahead(p)'
  BY <1>1, <1>7, Popped DEF Ahead
<1>9. Walk(p)'
  BY <1>1, <1>4, <1>5 DEF Walk, Walking, Callers
<1>10. Block(p)'
  BY <1>1, <1>2, <1>4, <1>5, <1>6, <1>7, <1>8, QuietKeeps DEF Block, First, Callers
<1>. QED  BY <1>2, <1>3, <1>9, <1>10, QuietStep

LEMMA BlockWaits ==
  ASSUME CacheInv, BlockInv, NEW p \in Procs,
         GetnewbufSleep(p) \/ BiowaitSleep(p) \/ VflushSleep(p)
  PROVE  BlockInv'
<1>1. /\ cpu \in {p, None} /\ pc' = [pc EXCEPT ![p] = pc[p]]
      /\ pc[p] \in {"getnewbuf", "biowait", "vflush_wait"}
      /\ UNCHANGED <<b_flags, b_vp, b_lblkno, b_list, panicked, stack, want, bp, hold, todo>>
  BY DEF GetnewbufSleep, BiowaitSleep, VflushSleep, At, CanRun, Sleep, bufvars, locals
<1>2. Quiet /\ UNCHANGED pc
  BY <1>1 DEF Quiet, Has, CacheInv, ControlInv, TypeOK
<1>3. Runs(p)
  BY <1>1, <1>2 DEF Runs, Local
<1>4. Walk(p)'
  BY <1>1, <1>2 DEF BlockInv, Walk, Walking
<1>5. Block(p)'
  BY <1>1, <1>2, QuietKeeps DEF BlockInv, Block, Given, First, Ahead, Unnamed
<1>. QED  BY <1>2, <1>3, <1>4, <1>5, QuietStep

LEMMA BlockSetAge ==
  ASSUME CacheInv, BlockInv, NEW p \in Procs, SetAge(p) PROVE BlockInv'
<1>1. /\ cpu \in {p, None} /\ b_flags' = [b_flags EXCEPT ![bp[p]] = @ \cup {"AGE"}]
      /\ Return(p) /\ pc[p] = "setage" /\ bp' = [bp EXCEPT ![p] = None]
      /\ UNCHANGED <<b_vp, b_lblkno, b_list, panicked, want, hold, todo>>
  BY DEF SetAge, At, CanRun
<1>2. Quiet
  BY <1>1 DEF Quiet, Has, CacheInv, ControlInv, TypeOK
<1>3. \A q \in Procs \ {p} : bp'[q] = bp[q]
  BY <1>1 DEF CacheInv, ControlInv, TypeOK
<1>4. Runs(p)
  BY <1>1, <1>3, ReturnLocal DEF Runs, Local
<1>5. pc'[p] = Head(stack[p]) /\ stack'[p] = Tail(stack[p]) /\ bp'[p] = None
  BY <1>1, ReturnFrame DEF CacheInv, ControlInv, TypeOK
<1>6. pc'[p] \in Nexts
  BY <1>1, <1>5, AtLabel, Pops DEF CacheInv
<1>7. Walk(p)'
  <2>1. \A b \in todo[p] : b \in Bufs /\ Has(b, "DELWRI") /\ pc'[p] = "vflush_scan"
    BY <1>1, <1>5 DEF BlockInv, Walk, CacheInv, ControlInv, TypeOK
  <2>2. pc'[p] \in Walking => cpu' = p
    BY <1>1, ReturnKeepsCpu
  <2>. QED  BY <1>1, <1>2, <1>6, <2>1, <2>2, QuietKeeps DEF Walk, Nexts
<1>8. hold[p] # None => hold[p] \in Cached(want[p].vp, want[p].ra) /\ Listed(stack[p], "ra_io")
  BY <1>1 DEF BlockInv, Block, First, Ahead
<1>9. hold[p] # None => Ahead(p)'
  BY <1>1, <1>8, Popped DEF Ahead
<1>10. want[p] # None /\ want[p].op = "geteblk" => Unnamed(p)'
  <2> SUFFICES ASSUME want[p] # None /\ want[p].op = "geteblk" PROVE Unnamed(p)'
    OBVIOUS
  <2>1. stack[p] = <<"getnewbuf">> \o <<"user">>
    BY <1>1 DEF BlockInv, Block, Unnamed
  <2>2. \A c \in Labels, t \in Seq(Labels) : Head(<<c>> \o t) = c /\ Tail(<<c>> \o t) = t
    BY PushPop
  <2>3. Head(stack[p]) = "getnewbuf" /\ Tail(stack[p]) = <<"user">>
    <3>1. "getnewbuf" \in Labels /\ <<"user">> \in Seq(Labels)
      BY DEF Labels
    <3>. QED  BY <2>1, <2>2, <3>1, Zenon
  <2>. QED  BY <1>5, <2>3 DEF Unnamed
<1>11. ~Given(p)'
  BY <1>5, <1>6 DEF Given, Nexts
<1>12. Block(p)'
  BY <1>1, <1>2, <1>6, <1>8, <1>9, <1>10, <1>11, QuietKeeps DEF Block, First, Nexts
<1>. QED  BY <1>2, <1>4, <1>7, <1>12, QuietStep

(* StartRead() marks a buffer. *)
LEMMA ReadIsQuiet ==
  ASSUME CacheInv, NEW b \in Bufs, NEW extra \in SUBSET {"ASYNC"}, StartRead(b, extra),
         extra = {} \/ ~Has(b, "INVAL"), UNCHANGED <<b_vp, b_lblkno, b_list, panicked>>
  PROVE  Quiet
<1>1. UNCHANGED b_flags \/ b_flags' = [b_flags EXCEPT ![b] = @ \cup {"READ"} \cup extra]
  BY DEF StartRead
<1>2. \A c \in Bufs : \/ b_flags'[c] = b_flags[c]
                      \/ c = b /\ b_flags'[c] = b_flags[c] \cup {"READ"} \cup extra
  BY <1>1 DEF CacheInv, ControlInv, TypeOK
<1>3. \A c \in Bufs : "ASYNC" \in b_flags'[c] => Has(c, "ASYNC") \/ ~Has(c, "INVAL")
  BY <1>2 DEF Has
<1>. QED  BY <1>2, <1>3 DEF Quiet

LEMMA BlockBread ==
  ASSUME CacheInv, BlockInv, NEW p \in Procs, Bread(p) PROVE BlockInv'
<1>1. /\ cpu \in {p, None} /\ pc[p] = "bread" /\ StartRead(bp[p], {})
      /\ (Goto(p, "biowait") /\ UNCHANGED stack) \/ Return(p)
      /\ UNCHANGED <<b_vp, b_lblkno, b_list, panicked, want, bp, hold, todo>>
  BY DEF Bread, At, CanRun
<1>2. bp[p] \in Cached(want[p].vp, want[p].blk) /\ bp[p] \in Bufs
  BY <1>1 DEF BlockInv, Block, Given, Cached
<1>3. Quiet
  BY <1>1, <1>2, ReadIsQuiet
<1>4. \A q \in Procs \ {p} : pc'[q] = pc[q] /\ stack'[q] = stack[q]
  BY <1>1, ReturnLocal DEF Goto, CacheInv, ControlInv, TypeOK
<1>5. Runs(p)
  BY <1>1, <1>4 DEF Runs, Local
<1>6. hold[p] = None /\ todo[p] = {} /\ (want[p] # None => want[p].op # "geteblk")
  BY <1>1, NothingLeft, Named, NothingHeld DEF OneDeep, Walking
<1>7. pc'[p] \in {"biowait", "user"}
  BY <1>1, ReturnsToUser DEF Goto, CacheInv, ControlInv, TypeOK, OneDeep
<1>8. Walk(p)' /\ Block(p)'
  BY <1>1, <1>2, <1>3, <1>6, <1>7, QuietKeeps DEF Walk, Walking, Block
<1>. QED  BY <1>3, <1>5, <1>8, QuietStep

LEMMA BlockBreada ==
  ASSUME CacheInv, BlockInv, NEW p \in Procs, Breada(p) PROVE BlockInv'
<1>1. /\ cpu \in {p, None} /\ pc[p] = "breada"
      /\ UNCHANGED <<bufvars, panicked, want, bp, hold, todo>>
  BY DEF Breada, At, CanRun
<1>2. PICK l \in {"breada_ra", "getblk"} : pc' = [pc EXCEPT ![p] = l]
  BY DEF Breada, Goto, Call
<1>3. UNCHANGED stack \/ \E s : stack' = [stack EXCEPT ![p] = s]
  BY DEF Breada, Call
<1>4. Runs(p) /\ Quiet /\ pc'[p] = l
  BY <1>1, <1>2, <1>3, UntouchedIsQuiet DEF Runs, Local, CacheInv, ControlInv, TypeOK
<1>5. hold[p] = None /\ todo[p] = {} /\ (want[p] # None => want[p].op # "geteblk")
  BY <1>1, NothingLeft, Named, NothingHeld DEF OneDeep, Walking
<1>6. Walk(p)' /\ Block(p)'
  BY <1>1, <1>4, <1>5 DEF Walk, Walking, Block, Given
<1>. QED  BY <1>4, <1>6, QuietStep

LEMMA BlockBreadaStart ==
  ASSUME CacheInv, BlockInv, NEW p \in Procs, BreadaStart(p) PROVE BlockInv'
<1>1. /\ cpu \in {p, None} /\ pc[p] = "breada_io" /\ StartRead(bp[p], {})
      /\ hold' = [hold EXCEPT ![p] = bp[p]] /\ bp' = [bp EXCEPT ![p] = None]
      /\ pc' = [pc EXCEPT ![p] = "breada_ra"]
      /\ UNCHANGED <<b_vp, b_lblkno, b_list, panicked, stack, want, todo>>
  BY DEF BreadaStart, At, CanRun, Goto
<1>2. bp[p] \in Cached(want[p].vp, want[p].blk) /\ bp[p] \in Bufs
  BY <1>1 DEF BlockInv, Block, Given, Cached
<1>3. Quiet
  BY <1>1, <1>2, ReadIsQuiet
<1>4. Runs(p) /\ pc'[p] = "breada_ra" /\ hold'[p] = bp[p] /\ bp'[p] = None
  BY <1>1 DEF Runs, Local, CacheInv, ControlInv, TypeOK
<1>5. todo[p] = {} /\ (want[p] # None => want[p].op # "geteblk")
  BY <1>1, NothingLeft, Named DEF Walking
<1>6. Walk(p)' /\ Block(p)'
  BY <1>1, <1>2, <1>3, <1>4, <1>5, QuietKeeps DEF Walk, Walking, Block, Given, First, Ahead
<1>. QED  BY <1>3, <1>4, <1>6, QuietStep

(* The two blocks of breada() are exchanged. *)
LEMMA Swapped ==
  ASSUME CacheInv, NEW p \in Procs, pc[p] \in {"breada_ra", "breada_end"}, Swap(p)
  PROVE  /\ want'[p].vp = want[p].vp /\ want'[p].op = want[p].op
         /\ want'[p].blk = want[p].ra /\ want'[p].ra = want[p].blk
         /\ want[p] # None /\ \A q \in Procs \ {p} : want'[q] = want[q]
<1>1. want \in [Procs -> Request \cup {None}]
  BY DEF CacheInv, ControlInv, TypeOK
<1>2. want[p] \in Request
  BY AtLabel, Pops DEF CacheInv, Asked
<1>3. want[p] # None
  BY <1>2, BufCacheAssumption DEF BufCacheAssumption
<1>. QED  BY <1>1, <1>2, <1>3 DEF Swap, Request

LEMMA BlockBreadaAhead ==
  ASSUME CacheInv, BlockInv, NEW p \in Procs, BreadaAhead(p) PROVE BlockInv'
<1>1. /\ cpu \in {p, None} /\ pc[p] = "breada_ra" /\ Swap(p)
      /\ UNCHANGED <<bufvars, panicked, bp, hold, todo>>
  BY DEF BreadaAhead, At, CanRun
<1>2. \/ pc' = [pc EXCEPT ![p] = "breada_end"] /\ UNCHANGED stack
      \/ /\ pc' = [pc EXCEPT ![p] = "getblk"]
         /\ stack' = [stack EXCEPT ![p] = <<"ra_io">> \o stack[p]]
  BY DEF BreadaAhead, Goto, Call
<1>3. /\ want'[p].vp = want[p].vp /\ want'[p].op = want[p].op /\ want'[p].ra = want[p].blk
      /\ want[p] # None /\ \A q \in Procs \ {p} : want'[q] = want[q]
  BY <1>1, Swapped
<1>4. \A q \in Procs \ {p} : pc'[q] = pc[q] /\ stack'[q] = stack[q]
  BY <1>2 DEF CacheInv, ControlInv, TypeOK
<1>5. Runs(p) /\ Quiet
  BY <1>1, <1>3, <1>4, UntouchedIsQuiet DEF Runs, Local
<1>6. pc'[p] \in {"breada_end", "getblk"} /\ Ahead(p)'
  <2>1. "ra_io" \in Labels /\ stack[p] \in Seq(Labels)
    BY DEF CacheInv, ControlInv, TypeOK, Labels
  <2>2. Listed(<<"ra_io">> \o stack[p], "ra_io")
    BY <2>1, Pushed
  <2>. QED  BY <1>2, <2>2 DEF Ahead, CacheInv, ControlInv, TypeOK
<1>7. todo[p] = {} /\ want[p].op # "geteblk"
  BY <1>1, <1>3, NothingLeft, Named DEF Walking
<1>8. hold[p] # None => hold[p] \in Cached(want[p].vp, want[p].blk)
  BY <1>1 DEF BlockInv, Block, First
<1>9. Walk(p)'
  BY <1>1, <1>6, <1>7 DEF Walk, Walking
<1>10. Block(p)'
  BY <1>1, <1>3, <1>5, <1>6, <1>7, <1>8, QuietKeeps DEF Block, Given, First
<1>. QED  BY <1>5, <1>9, <1>10, QuietStep

LEMMA BlockBreadaEnd ==
  ASSUME CacheInv, BlockInv, NEW p \in Procs, BreadaEnd(p) PROVE BlockInv'
<1>1. /\ cpu \in {p, None} /\ pc[p] = "breada_end" /\ Swap(p)
      /\ bp' = [bp EXCEPT ![p] = hold[p]] /\ hold' = [hold EXCEPT ![p] = None]
      /\ UNCHANGED <<bufvars, panicked, todo>>
  BY DEF BreadaEnd, At, CanRun
<1>2. \/ hold[p] = None /\ pc' = [pc EXCEPT ![p] = "getblk"]
      \/ hold[p] # None /\ pc' = [pc EXCEPT ![p] = "biowait"]
  BY DEF BreadaEnd, Goto, Call
<1>3. /\ want'[p].vp = want[p].vp /\ want'[p].op = want[p].op /\ want'[p].blk = want[p].ra
      /\ want[p] # None /\ \A q \in Procs \ {p} : want'[q] = want[q]
  BY <1>1, Swapped
<1>4. UNCHANGED stack \/ \E s : stack' = [stack EXCEPT ![p] = s]
  BY DEF BreadaEnd, Call
<1>5. /\ \A q \in Procs \ {p} : pc'[q] = pc[q] /\ stack'[q] = stack[q]
                                /\ bp'[q] = bp[q] /\ hold'[q] = hold[q]
      /\ bp'[p] = hold[p] /\ hold'[p] = None
      /\ pc'[p] = IF hold[p] = None THEN "getblk" ELSE "biowait"
  BY <1>1, <1>2, <1>4 DEF CacheInv, ControlInv, TypeOK
<1>6. Runs(p) /\ Quiet
  BY <1>1, <1>3, <1>5, UntouchedIsQuiet DEF Runs, Local
<1>7. todo[p] = {} /\ want[p].op # "geteblk"
  BY <1>1, <1>3, NothingLeft, Named DEF Walking
<1>8. hold[p] # None => hold[p] \in Cached(want[p].vp, want[p].ra)
  BY <1>1 DEF BlockInv, Block, First
<1>9. Walk(p)'
  BY <1>1, <1>5, <1>7 DEF Walk, Walking
<1>10. Block(p)'
  BY <1>3, <1>5, <1>6, <1>7, <1>8, QuietKeeps DEF Block, Given
<1>. QED  BY <1>6, <1>9, <1>10, QuietStep

LEMMA BlockBiowait ==
  ASSUME CacheInv, BlockInv, NEW p \in Procs, BiowaitDone(p) PROVE BlockInv'
<1>1. /\ cpu \in {p, None} /\ pc[p] = "biowait" /\ Return(p)
      /\ UNCHANGED <<bufvars, panicked, want, bp, hold, todo>>
  BY DEF BiowaitDone, At, CanRun
<1>2. Runs(p) /\ Quiet
  BY <1>1, ReturnLocal, UntouchedIsQuiet DEF Runs, Local
<1>3. pc'[p] = Head(stack[p]) /\ Head(stack[p]) \in {"user", "release"}
  BY <1>1, ReturnLocal, AtLabel, Pops DEF CacheInv
<1>4. todo[p] = {} /\ (want[p] # None => want[p].op # "geteblk")
  BY <1>1, NothingLeft, Named DEF Walking
<1>5. Given(p)' => bp[p] \in Cached(want[p].vp, want[p].blk)
  BY <1>1, <1>3 DEF BlockInv, Block, Given
<1>6. hold[p] # None => /\ hold[p] \in Cached(want[p].vp, want[p].ra)
                        /\ Listed(stack[p], "ra_io")
  BY <1>1 DEF BlockInv, Block, First, Ahead
<1>7. hold[p] # None => Ahead(p)'
  BY <1>1, <1>6, Popped DEF Ahead
<1>8. Walk(p)'
  BY <1>1, <1>3, <1>4 DEF Walk, Walking
<1>9. Block(p)'
  BY <1>1, <1>2, <1>3, <1>4, <1>5, <1>6, <1>7, QuietKeeps DEF Block, First
<1>. QED  BY <1>2, <1>8, <1>9, QuietStep

(* A walk of a vnode's list. *)
LEMMA WalkStep ==
  ASSUME CacheInv, BlockInv, NEW p \in Procs, cpu \in {p, None},
         pc[p] \in {"vflush", "vflush_scan", "vflush_wait", "vinval", "vinval_scan"},
         UNCHANGED <<bufvars, panicked, stack, want, hold>>, cpu' = p,
         NEW l \in {"vflush", "vflush_scan", "vflush_wait", "vinval", "vinval_scan", "vinval_take"},
         pc' = [pc EXCEPT ![p] = l],
         \A q \in Procs \ {p} : bp'[q] = bp[q] /\ todo'[q] = todo[q],
         \A b \in todo'[p] : \/ l = "vflush_scan" /\ Has(b, "DELWRI")
                             \/ l \in {"vinval_scan", "vinval_take"} /\ b_list[b] # None,
         l = "vinval_take" => b_list[bp'[p]] # None /\ bp'[p] \notin todo'[p]
  PROVE  BlockInv'
<1>1. Runs(p) /\ Quiet /\ pc'[p] = l
  BY UntouchedIsQuiet DEF Runs, Local, CacheInv, ControlInv, TypeOK
<1>2. hold[p] = None /\ (want[p] # None => want[p].op # "geteblk")
  BY Named, NothingHeld DEF OneDeep
<1>3. Walk(p)'
  BY <1>1 DEF Walk, bufvars, Has
<1>4. Block(p)'
  BY <1>1, <1>2 DEF Block, Given
<1>. QED  BY <1>1, <1>3, <1>4, QuietStep

(* The end of a walk. *)
LEMMA WalkEnds ==
  ASSUME CacheInv, BlockInv, NEW p \in Procs, cpu \in {p, None},
         pc[p] \in {"vflush_scan", "vflush_wait", "vinval"}, todo[p] = {},
         UNCHANGED <<bufvars, panicked, bp, hold, todo>>, Return(p), want' = [want EXCEPT ![p] = None]
  PROVE  BlockInv'
<1>1. \A q \in Procs \ {p} : want'[q] = want[q]
  BY DEF CacheInv, ControlInv, TypeOK
<1>2. Runs(p) /\ Quiet
  BY <1>1, ReturnLocal, UntouchedIsQuiet DEF Runs, Local
<1>3. pc'[p] = "user" /\ bp[p] = None /\ hold[p] = None /\ want'[p] = None
  BY ReturnsToUser, NothingHeld, AtLabel
     DEF OneDeep, PointerAt, Pointless, CacheInv, ControlInv, TypeOK
<1>4. Walk(p)' /\ Block(p)'
  BY <1>3 DEF Walk, Walking, Block, Given
<1>. QED  BY <1>2, <1>4, QuietStep

LEMMA BlockVflush ==
  ASSUME CacheInv, BlockInv, NEW p \in Procs,
         VflushStart(p) \/ VflushSkip(p) \/ VflushScanned(p) \/ VflushDone(p)
  PROVE  BlockInv'
<1>1. \A b \in todo[p] : pc[p] = "vflush_scan" => Has(b, "DELWRI")
  BY DEF BlockInv, Walk
<1>2. \A v \in Vnodes : \A b \in ListOf(v, "dirty") : Has(b, "DELWRI")
  <2>1. \A v \in Vnodes : <<v, "dirty">> # None /\ <<v, "dirty">>[2] = "dirty"
    BY BufCacheAssumption DEF BufCacheAssumption, Kinds
  <2>. QED  BY <2>1 DEF CacheInv, ControlInv, ListsAgree, ListOf
<1>3. CASE VflushStart(p)
  <2>1. /\ cpu \in {p, None} /\ pc[p] = "vflush" /\ pc' = [pc EXCEPT ![p] = "vflush_scan"]
        /\ todo' = [todo EXCEPT ![p] = ListOf(want[p].vp, "dirty")] /\ cpu' = p
        /\ UNCHANGED <<bufvars, panicked, stack, want, hold, bp>>
    BY <1>3 DEF VflushStart, At, CanRun, Goto
  <2>2. /\ todo'[p] = ListOf(want[p].vp, "dirty") /\ \A q \in Procs \ {p} : todo'[q] = todo[q]
    BY <2>1 DEF CacheInv, ControlInv, TypeOK
  <2>3. \A b \in todo'[p] : Has(b, "DELWRI")
    BY <1>2, <2>1, <2>2, AsksForVnode
  <2>. QED  BY <2>1, <2>2, <2>3, WalkStep
<1>4. CASE VflushSkip(p)
  <2>1. /\ cpu \in {p, None} /\ pc[p] = "vflush_scan" /\ pc' = [pc EXCEPT ![p] = "vflush_scan"]
        /\ cpu' = p /\ UNCHANGED <<bufvars, panicked, stack, want, hold, bp>>
    BY <1>4 DEF VflushSkip, At, CanRun, CacheInv, ControlInv, TypeOK
  <2>2. todo'[p] \subseteq todo[p] /\ \A q \in Procs \ {p} : todo'[q] = todo[q]
    BY <1>4 DEF VflushSkip, CacheInv, ControlInv, TypeOK
  <2>. QED  BY <1>1, <2>1, <2>2, WalkStep
<1>5. CASE VflushScanned(p) \/ VflushDone(p)
  <2>1. /\ cpu \in {p, None} /\ pc[p] \in {"vflush_scan", "vflush_wait"} /\ todo[p] = {}
        /\ UNCHANGED <<bufvars, panicked, hold, bp, todo>>
    BY <1>5, NothingLeft DEF VflushScanned, VflushDone, At, CanRun, Walking
  <2>2. CASE Return(p) /\ want' = [want EXCEPT ![p] = None]
    BY <2>1, <2>2, WalkEnds
  <2>3. CASE /\ UNCHANGED <<stack, want>> /\ cpu' = p
             /\ \E l \in {"vflush_wait", "vflush"} : pc' = [pc EXCEPT ![p] = l]
    BY <2>1, <2>3, WalkStep
  <2>. QED  BY <1>5, <2>2, <2>3 DEF VflushScanned, VflushDone, Goto
<1>. QED  BY <1>3, <1>4, <1>5

LEMMA BlockVinval ==
  ASSUME CacheInv, BlockInv, NEW p \in Procs, VinvalList(p) \/ VinvalScan(p)
  PROVE  BlockInv'
<1>1. CASE VinvalList(p)
  <2>1. /\ cpu \in {p, None} /\ pc[p] = "vinval" /\ todo[p] = {}
        /\ UNCHANGED <<bufvars, panicked, hold, bp>>
    BY <1>1, NothingLeft DEF VinvalList, At, CanRun, Walking
  <2>2. CASE Return(p) /\ want' = [want EXCEPT ![p] = None] /\ UNCHANGED todo
    BY <2>1, <2>2, WalkEnds
  <2>3. ASSUME NEW kind \in Kinds, NEW b \in ListOf(want[p].vp, kind), UNCHANGED <<stack, want>>,
               Goto(p, "vinval_scan"), todo' = [todo EXCEPT ![p] = {b}]
        PROVE  BlockInv'
    <3>1. b_list[b] # None
      <4>1. <<want[p].vp, kind>> \in Vnodes \X Kinds
        BY <2>1, AsksForVnode
      <4>. QED  BY <4>1, BufCacheAssumption DEF BufCacheAssumption, ListOf
    <3>2. todo'[p] = {b} /\ \A q \in Procs \ {p} : todo'[q] = todo[q]
      BY <2>3 DEF CacheInv, ControlInv, TypeOK
    <3>3. /\ cpu' = p /\ pc' = [pc EXCEPT ![p] = "vinval_scan"]
          /\ \A c \in todo'[p] : b_list[c] # None
      BY <2>3, <3>1, <3>2 DEF Goto
    <3>. QED  BY <2>1, <2>3, <3>2, <3>3, WalkStep
  <2>. QED  BY <1>1, <2>2, <2>3 DEF VinvalList, Kinds
<1>2. CASE VinvalScan(p)
  <2>1. /\ cpu \in {p, None} /\ pc[p] = "vinval_scan" /\ cpu' = p
        /\ pc' = [pc EXCEPT ![p] = "vinval_take"]
        /\ UNCHANGED <<bufvars, panicked, stack, want, hold>>
    BY <1>2 DEF VinvalScan, At, CanRun, Goto
  <2>2. PICK b \in todo[p] :
          LET rest == IF b_list[b] = None THEN {}
                      ELSE {c \in Bufs : b_list[c] = b_list[b]} \ {b}
          IN /\ bp' = [bp EXCEPT ![p] = b]
             /\ IF rest = {} THEN todo' = [todo EXCEPT ![p] = {}]
                ELSE \E c \in rest : todo' = [todo EXCEPT ![p] = {c}]
    BY <1>2 DEF VinvalScan
  <2>3. b_list[b] # None
    BY <2>1 DEF BlockInv, Walk
  <2>4. /\ bp'[p] = b /\ \A q \in Procs \ {p} : bp'[q] = bp[q] /\ todo'[q] = todo[q]
        /\ \A c \in todo'[p] : b_list[c] = b_list[b] /\ c # b
    BY <2>2 DEF CacheInv, ControlInv, TypeOK
  <2>5. /\ b_list[bp'[p]] # None /\ bp'[p] \notin todo'[p]
        /\ \A c \in todo'[p] : b_list[c] # None
    BY <2>3, <2>4
  <2>. QED  BY <2>1, <2>4, <2>5, WalkStep
<1>. QED  BY <1>1, <1>2

LEMMA BlockEnters ==
  ASSUME CacheInv, BlockInv, NEW p \in Procs, Enters(p) PROVE BlockInv'
<1>1. PICK op, v, k, ra, z, label, callers :
        /\ Enter(p, op, v, k, ra, z, label, callers)
        /\ \/ label \in {"getblk", "breada", "vflush", "vinval"} /\ op # "geteblk"
           \/ label = "getnewbuf" /\ callers = <<"user">>
  BY DEF Enters, CallBread, CallBaddr, CallBreada, CallGetblk, CallGeteblk, CallVflushbuf,
         CallVinvalbuf
<1>2. /\ cpu \in {p, None} /\ pc[p] = "user" /\ pc' = [pc EXCEPT ![p] = label]
      /\ want' = [want EXCEPT ![p] = Request1(op, v, k, ra, z)]
      /\ stack' = [stack EXCEPT ![p] = callers]
      /\ UNCHANGED <<bufvars, panicked, bp, hold, todo>>
  BY <1>1 DEF Enter, Idle, At, CanRun, Goto
<1>3. Runs(p) /\ Quiet
  BY <1>2, UntouchedIsQuiet DEF Runs, Local, CacheInv, ControlInv, TypeOK
<1>4. pc'[p] = label /\ stack'[p] = callers /\ want'[p].op = op
  BY <1>2 DEF Request1, CacheInv, ControlInv, TypeOK
<1>5. hold[p] = None /\ todo[p] = {}
  BY <1>2, NothingHeld, NothingLeft DEF Walking
<1>6. Walk(p)' /\ Block(p)'
  BY <1>1, <1>2, <1>4, <1>5 DEF Walk, Walking, Block, Given, Unnamed
<1>. QED  BY <1>3, <1>6, QuietStep

-----------------------------------------------------------------------------
(* The steps that change a buffer.                                         *)

(* The step changes no other buffer than b. *)
Spares(b) == \A c \in Bufs \ {b} : /\ b_vp'[c] = b_vp[c] /\ b_lblkno'[c] = b_lblkno[c]
                                   /\ b_flags'[c] = b_flags[c] /\ b_list'[c] = b_list[c]

LEMMA SparingStep ==
  ASSUME CacheInv, BlockInv, NEW p \in Procs, Runs(p), NEW b \in Bufs, Spares(b), Mine(p, b),
         Intact(b)', Walk(p)', Block(p)', UNCHANGED panicked
  PROVE  BlockInv'
<1>1. \A c \in Bufs : Intact(c)'
  BY DEF BlockInv, Intact, Spares, Has
<1>2. \A c \in Bufs : Same(c) \/ \A q \in Procs \ {p} : ~Owns(q, c)
  BY DEF Spares, Same, Mine
<1>. QED  BY <1>1, <1>2, BlockStep

(* breada()'s first buffer while p deals with another one, b. *)
LEMMA HoldsOn ==
  ASSUME CacheInv, BlockInv, NEW p \in Procs, NEW b \in Bufs, Spares(b), Mine(p, b),
         pc[p] # "breada_ra", pc'[p] # "breada_ra", want'[p] = want[p], hold[p] # None
  PROVE  hold[p] \in Cached(want[p].vp, First(p))'
<1>1. hold[p] \in Cached(want[p].vp, want[p].ra) /\ hold[p] # b
  BY DEF BlockInv, Block, First, Mine
<1>. QED  BY <1>1 DEF Cached, Spares, First

LEMMA BlockNew ==
  ASSUME CacheInv, BlockInv, NEW p \in Procs, GetnewbufClean(p) PROVE BlockInv'
<1>1. cpu \in {p, None} /\ pc[p] = "getnewbuf" /\ ~NoneFree
  BY DEF GetnewbufClean, CleanNew, At, CanRun
<1>2. PICK b \in Bufs : b = NewBuf /\ Mine(p, b)
  BY <1>1, NewBufNotBusy, FreeIsMine DEF CacheInv
<1>3. PICK fl, l, k :
        /\ TakeNew(p, b, fl, l, k) /\ fl \in {{"BUSY"}, {"BUSY", "INVAL"}}
        /\ want[p].op # "geteblk" => fl = {"BUSY"} /\ k = want[p].blk
  BY <1>2 DEF GetnewbufClean
<1>4. /\ b_flags' = [b_flags EXCEPT ![b] = fl] /\ b_vp' = [b_vp EXCEPT ![b] = want[p].vp]
      /\ b_lblkno' = [b_lblkno EXCEPT ![b] = k] /\ b_list' = [b_list EXCEPT ![b] = l]
      /\ bp' = [bp EXCEPT ![p] = b] /\ Return(p)
      /\ UNCHANGED <<want, hold, todo, panicked>>
  BY <1>3 DEF TakeNew
<1>5. /\ Spares(b) /\ b_flags'[b] = fl /\ b_vp'[b] = want[p].vp /\ b_lblkno'[b] = k
      /\ bp'[p] = b /\ \A q \in Procs \ {p} : bp'[q] = bp[q]
  BY <1>2, <1>4 DEF Spares, CacheInv, ControlInv, TypeOK
<1>6. Runs(p)
  BY <1>1, <1>4, <1>5, ReturnLocal DEF Runs, Local
<1>7. Intact(b)'
  BY <1>3, <1>5 DEF Intact, Has
<1>8. pc'[p] = Head(stack[p]) /\ pc'[p] \in Callers \cup {"user"}
  BY <1>1, <1>4, AtLabel, Pops, ReturnLocal DEF CacheInv, InGetblk
<1>9. todo[p] = {}
  BY <1>1, NothingLeft DEF Walking
<1>10. want[p] # None
  <2>1. want[p] \in Request
    BY <1>1, AtLabel, Pops DEF CacheInv, Asked
  <2>. QED  BY <2>1, BufCacheAssumption DEF BufCacheAssumption
<1>11. want[p].op = "geteblk" => pc'[p] = "user"
  BY <1>1, <1>8, <1>10 DEF BlockInv, Block, Unnamed
<1>12. Given(p)' => b \in Cached(want[p].vp, want[p].blk)'
  BY <1>2, <1>3, <1>4, <1>5, <1>8, <1>11 DEF Given, Cached, Callers
<1>13. hold[p] # None => hold[p] \in Cached(want[p].vp, First(p))'
  BY <1>1, <1>2, <1>4, <1>5, <1>8, HoldsOn DEF Callers
<1>14. hold[p] # None => Ahead(p)'
  BY <1>1, <1>4, Popped DEF BlockInv, Block, Ahead
<1>15. Walk(p)'
  BY <1>4, <1>8, <1>9 DEF Walk, Walking, Callers
<1>16. Block(p)'
  BY <1>4, <1>5, <1>11, <1>12, <1>13, <1>14 DEF Block, Unnamed
<1>. QED  BY <1>2, <1>4, <1>5, <1>6, <1>7, <1>15, <1>16, SparingStep

LEMMA PushedTwice ==
  ASSUME NEW s \in Seq(Labels), NEW c \in Labels, NEW d \in Labels, NEW l
  PROVE  /\ Head(<<c, d>> \o s) = c
         /\ Listed(s, l) => Listed(<<c, d>> \o s, l)
<1>1. /\ Len(s) \in Nat /\ DOMAIN s = 1..Len(s) /\ DOMAIN (<<c, d>> \o s) = 1..(Len(s) + 2)
      /\ (<<c, d>> \o s)[1] = c /\ \A i \in 1..Len(s) : (<<c, d>> \o s)[i + 2] = s[i]
  OBVIOUS
<1>2. Head(<<c, d>> \o s) = c
  BY <1>1
<1>3. ASSUME Listed(s, l) PROVE Listed(<<c, d>> \o s, l)
  <2>1. PICK i \in 1..Len(s) : s[i] = l
    BY <1>1, <1>3 DEF Listed
  <2>2. i + 2 \in DOMAIN (<<c, d>> \o s) /\ (<<c, d>> \o s)[i + 2] = l
    BY <1>1, <2>1
  <2>. QED  BY <2>2 DEF Listed
<1>. QED  BY <1>2, <1>3

(* What bwrite() does to the buffers. *)
LEMMA WriteIntact ==
  ASSUME CacheInv, NEW b \in Bufs, NEW fl, bwrite(b, fl), "BUSY" \in fl,
         "ASYNC" \in fl => "INVAL" \notin fl
  PROVE  Spares(b) /\ Intact(b)'
<1>1. b_flags'[b] = fl \ {"READ", "DONE", "ERROR", "DELWRI"}
  BY DEF bwrite, StartWrite, CacheInv, ControlInv, TypeOK
<1>2. Intact(b)'
  BY <1>1 DEF Intact, Has
<1>3. Spares(b)
  BY DEF Spares, bwrite, StartWrite, CacheInv, ControlInv, TypeOK
<1>. QED  BY <1>2, <1>3

(* Where bwrite() starts, and what it leaves of a walk. *)
Writer(p, b, fl, next) ==
  /\ pc[p] \in {"found", "getnewbuf", "vflush_scan", "vinval_take", "user"}
  /\ pc[p] = "user" => want'[p] = None
  /\ pc[p] # "user" => want'[p] = want[p]
  /\ pc[p] = "getnewbuf" => next = "getnewbuf" /\ {"ASYNC", "DELWRI"} \subseteq fl
  /\ \/ todo'[p] = {}
     \/ /\ next = "vflush_scan" /\ pc[p] = "vflush_scan" /\ {"ASYNC", "DELWRI"} \subseteq fl
        /\ todo'[p] \subseteq todo[p] \ {b}
  /\ "ASYNC" \in fl /\ "DELWRI" \notin fl => next = "user" /\ pc[p] = "user" /\ bp'[p] = None

LEMMA BlockWrite ==
  ASSUME CacheInv, BlockInv, NEW p \in Procs, cpu \in {p, None}, NEW b \in Bufs, NEW fl,
         NEW next \in Nexts, Mine(p, b), bwrite(b, fl), AfterStrategy(p, fl, next),
         "BUSY" \in fl, "ASYNC" \in fl => "INVAL" \notin fl, Writer(p, b, fl, next),
         \A q \in Procs \ {p} : want'[q] = want[q] /\ bp'[q] = bp[q] /\ todo'[q] = todo[q],
         UNCHANGED <<hold, panicked>>
  PROVE  BlockInv'
<1>1. \/ /\ "ASYNC" \notin fl /\ pc' = [pc EXCEPT ![p] = "biowait"]
         /\ stack' = [stack EXCEPT ![p] = <<"release", next>> \o stack[p]]
      \/ /\ "ASYNC" \in fl /\ "DELWRI" \in fl /\ pc' = [pc EXCEPT ![p] = "setage"] /\ cpu' = p
         /\ stack' = [stack EXCEPT ![p] = <<next>> \o stack[p]]
      \/ /\ "ASYNC" \in fl /\ "DELWRI" \notin fl /\ pc' = [pc EXCEPT ![p] = next]
         /\ UNCHANGED stack
  BY DEF AfterStrategy, Goto, Call
<1>2. \A q \in Procs \ {p} : pc'[q] = pc[q] /\ stack'[q] = stack[q]
  <2>1. (\E l : pc' = [pc EXCEPT ![p] = l]) /\ (UNCHANGED stack \/ \E s : stack' = [stack EXCEPT ![p] = s])
    BY <1>1
  <2>. QED  BY <2>1 DEF CacheInv, ControlInv, TypeOK
<1>3. Runs(p)
  BY <1>2 DEF Runs, Local
<1>4. Spares(b) /\ Intact(b)'
  BY WriteIntact
<1>5. \/ "ASYNC" \notin fl /\ pc'[p] = "biowait" /\ stack'[p] = <<"release", next>> \o stack[p]
      \/ /\ {"ASYNC", "DELWRI"} \subseteq fl /\ pc'[p] = "setage" /\ cpu' = p
         /\ stack'[p] = <<next>> \o stack[p]
      \/ /\ "ASYNC" \in fl /\ "DELWRI" \notin fl /\ pc'[p] = "user" /\ bp'[p] = None
         /\ pc[p] = "user"
  <2>1. stack[p] \in Seq(Labels) /\ pc \in [Procs -> Labels] /\ stack \in [Procs -> Seq(Labels)]
    BY DEF CacheInv, ControlInv, TypeOK
  <2>. QED  BY <1>1, <2>1 DEF Writer
<1>6. /\ stack[p] \in Seq(Labels) /\ next \in Labels /\ "release" \in Labels
  BY DEF CacheInv, ControlInv, TypeOK, Labels, Nexts
<1>7. ~Given(p)'
  <2>1. pc'[p] = "biowait" => Head(stack'[p]) = "release"
    BY <1>5, <1>6, PushedTwice
  <2>. QED  BY <1>5, <2>1 DEF Given
<1>8. Walk(p)'
  <2>1. CASE todo'[p] = {}
    BY <1>5, <2>1 DEF Walk, Walking
  <2>2. CASE /\ next = "vflush_scan" /\ pc[p] = "vflush_scan" /\ {"ASYNC", "DELWRI"} \subseteq fl
             /\ todo'[p] \subseteq todo[p] \ {b}
    <3>1. pc'[p] = "setage" /\ cpu' = p /\ stack'[p] = <<"vflush_scan">> \o stack[p]
      BY <1>5, <2>2
    <3>2. Head(stack'[p]) = "vflush_scan"
      BY <1>6, <2>2, <3>1, PushPop
    <3>3. \A c \in todo'[p] : c \in Bufs \ {b} /\ Has(c, "DELWRI")
      BY <2>2 DEF BlockInv, Walk, CacheInv, ControlInv, TypeOK
    <3>4. \A c \in todo'[p] : "DELWRI" \in b_flags'[c]
      BY <1>4, <3>3 DEF Spares, Has
    <3>. QED  BY <3>1, <3>2, <3>4 DEF Walk, Has
  <2>. QED  BY <2>1, <2>2 DEF Writer
<1>9. hold[p] # None => hold[p] \in Cached(want[p].vp, First(p))' /\ Ahead(p)'
  <2> SUFFICES ASSUME hold[p] # None
               PROVE  hold[p] \in Cached(want[p].vp, First(p))' /\ Ahead(p)'
    OBVIOUS
  <2>1. pc[p] # "user"
    BY NothingHeld
  <2>2. hold[p] \in Cached(want[p].vp, First(p))'
    BY <1>4, <1>5, <2>1, HoldsOn DEF Writer
  <2>3. Listed(stack[p], "ra_io")
    BY DEF BlockInv, Block, Ahead, Writer
  <2>4. Listed(<<next>> \o stack[p], "ra_io") /\ Listed(<<"release", next>> \o stack[p], "ra_io")
    BY <1>6, <2>3, Pushed, PushedTwice
  <2>5. Listed(stack'[p], "ra_io")
    BY <1>5, <2>1, <2>4
  <2>. QED  BY <2>2, <2>5 DEF Ahead
<1>10. want'[p] # None /\ want'[p].op = "geteblk" => Unnamed(p)'
  <2> SUFFICES ASSUME want'[p] # None /\ want'[p].op = "geteblk" PROVE Unnamed(p)'
    OBVIOUS
  <2>1. pc[p] = "getnewbuf" /\ stack[p] = <<"user">>
    BY DEF BlockInv, Block, Unnamed, Writer
  <2>2. pc'[p] = "setage" /\ stack'[p] = <<"getnewbuf">> \o <<"user">>
    BY <1>5, <2>1 DEF Writer
  <2>. QED  BY <2>2 DEF Unnamed
<1>11. Block(p)'
  BY <1>7, <1>9, <1>10 DEF Block
<1>. QED  BY <1>3, <1>4, <1>8, <1>11, SparingStep

(* A free buffer with a vnode is valid, and is left to nobody. *)
LEMMA FreeIsValid ==
  ASSUME CacheInv, BlockInv, NEW p \in Procs, NEW b \in Bufs, ~Has(b, "BUSY")
  PROVE  /\ b_vp[b] # None => "INVAL" \notin b_flags[b]
         /\ "DELWRI" \in b_flags[b] => b_vp[b] # None
         /\ "ASYNC" \notin b_flags[b] /\ Mine(p, b)
<1>1. Intact(b) /\ Mine(p, b)
  BY FreeIsMine DEF BlockInv, CacheInv
<1>. QED  BY <1>1 DEF Intact, Has, Mine, CacheInv, ControlInv, DirtyHome

LEMMA BlockStray ==
  ASSUME CacheInv, BlockInv, NEW p \in Procs, GetblkStray(p) PROVE BlockInv'
<1>1. cpu \in {p, None} /\ pc[p] = "found" /\ ~Has(bp[p], "BUSY")
  BY DEF GetblkStray, WriteStray, At, CanRun
<1>2. PICK b \in Bufs : b = bp[p] /\ b_vp[b] = want[p].vp
  BY <1>1 DEF BlockInv, Block, Given, Cached
<1> DEFINE fl == b_flags[b] \cup {"BUSY", "INVAL"}
<1>3. b_vp[b] # None
  BY <1>1, <1>2, AsksForVnode, BufCacheAssumption DEF BufCacheAssumption
<1>4. /\ bwrite(b, fl) /\ AfterStrategy(p, fl, "getblk")
      /\ UNCHANGED <<want, bp, hold, todo, panicked>>
  BY <1>2, <1>3 DEF GetblkStray, WriteStray
<1>5. "ASYNC" \notin b_flags[b] /\ Mine(p, b)
  BY <1>1, <1>2, FreeIsValid
<1>6. "BUSY" \in fl /\ "ASYNC" \notin fl /\ "getblk" \in Nexts
  BY <1>5 DEF Nexts
<1> HIDE DEF fl
<1>7. todo[p] = {}
  BY <1>1, NothingLeft
<1>8. Writer(p, b, fl, "getblk")
  BY <1>1, <1>4, <1>6, <1>7 DEF Writer
<1>. QED  BY <1>1, <1>4, <1>5, <1>6, <1>8, BlockWrite

LEMMA BlockDirty ==
  ASSUME CacheInv, BlockInv, NEW p \in Procs, GetnewbufDirty(p) PROVE BlockInv'
<1>1. cpu \in {p, None} /\ pc[p] = "getnewbuf" /\ ~NoneFree
  BY DEF GetnewbufDirty, At, CanRun
<1>2. PICK b \in Bufs : b = NewBuf /\ ~Has(b, "BUSY")
  BY <1>1, NewBufNotBusy
<1> DEFINE fl == b_flags[b] \cup {"BUSY", "ASYNC"}
<1>3. /\ bwrite(b, fl) /\ AfterStrategy(p, fl, "getnewbuf") /\ bp' = [bp EXCEPT ![p] = b]
      /\ "DELWRI" \in b_flags[b] /\ UNCHANGED <<want, hold, todo, panicked>>
  BY <1>2 DEF GetnewbufDirty, Has
<1>4. "INVAL" \notin b_flags[b] /\ Mine(p, b)
  BY <1>2, <1>3, FreeIsValid
<1>5. "BUSY" \in fl /\ "INVAL" \notin fl /\ {"ASYNC", "DELWRI"} \subseteq fl /\ "getnewbuf" \in Nexts
  BY <1>3, <1>4 DEF Nexts
<1> HIDE DEF fl
<1>6. todo[p] = {}
  BY <1>1, NothingLeft DEF Walking
<1>7. Writer(p, b, fl, "getnewbuf")
  BY <1>1, <1>3, <1>5, <1>6 DEF Writer
<1>8. \A q \in Procs \ {p} : bp'[q] = bp[q]
  BY <1>3 DEF CacheInv, ControlInv, TypeOK
<1>. QED  BY <1>1, <1>3, <1>4, <1>5, <1>7, <1>8, BlockWrite

LEMMA BlockVinvalSave ==
  ASSUME CacheInv, BlockInv, NEW p \in Procs, VinvalSave(p) PROVE BlockInv'
<1>1. cpu \in {p, None} /\ pc[p] = "vinval_take" /\ ~Has(bp[p], "BUSY") /\ "DELWRI" \in b_flags[bp[p]]
  BY DEF VinvalSave, At, CanRun, Has
<1>2. PICK b \in Bufs : b = bp[p]
  BY <1>1, AtLabel DEF PointerAt, Pointing, CacheInv, ControlInv, TypeOK
<1> DEFINE fl == b_flags[b] \cup {"BUSY"}
<1>3. /\ bwrite(b, fl) /\ AfterStrategy(p, fl, "vinval") /\ todo' = [todo EXCEPT ![p] = {}]
      /\ UNCHANGED <<want, bp, hold, panicked>>
  BY <1>2 DEF VinvalSave
<1>4. "ASYNC" \notin b_flags[b] /\ Mine(p, b)
  BY <1>1, <1>2, FreeIsValid
<1>5. "BUSY" \in fl /\ "ASYNC" \notin fl /\ "vinval" \in Nexts
  BY <1>4 DEF Nexts
<1> HIDE DEF fl
<1>6. todo'[p] = {} /\ \A q \in Procs \ {p} : todo'[q] = todo[q]
  BY <1>3 DEF CacheInv, ControlInv, TypeOK
<1>7. Writer(p, b, fl, "vinval")
  BY <1>1, <1>3, <1>5, <1>6 DEF Writer
<1>. QED  BY <1>1, <1>3, <1>4, <1>5, <1>6, <1>7, BlockWrite

LEMMA BlockVflushWrite ==
  ASSUME CacheInv, BlockInv, NEW p \in Procs, VflushWrite(p) PROVE BlockInv'
<1>1. PICK b \in todo[p] :
        LET async == b_vp[b] = want[p].vp \/ ~IsSync(p)
            fl == b_flags[b] \cup {"BUSY"} \cup (IF async THEN {"ASYNC"} ELSE {})
        IN /\ At(p, "vflush_scan") /\ ~Has(b, "BUSY")
           /\ IF ~Has(b, "DELWRI") \/ b_vp[b] = None
              THEN Panic
              ELSE /\ bremfree(b) /\ bwrite(b, fl)
                   /\ AfterStrategy(p, fl, IF async THEN "vflush_scan" ELSE "vflush")
                   /\ todo' = [todo EXCEPT ![p] = IF async THEN @ \ {b} ELSE {}]
                   /\ bp' = [bp EXCEPT ![p] = b]
                   /\ UNCHANGED <<datavars, wchan, want, hold, err, panicked>>
  BY DEF VflushWrite
<1>2. cpu \in {p, None} /\ pc[p] = "vflush_scan" /\ ~Has(b, "BUSY") /\ b \in Bufs
  BY <1>1 DEF At, CanRun, CacheInv, ControlInv, TypeOK
<1>3. Has(b, "DELWRI") /\ "DELWRI" \in b_flags[b]
  BY <1>2 DEF BlockInv, Walk, Has
<1>4. b_vp[b] # None /\ "INVAL" \notin b_flags[b] /\ "ASYNC" \notin b_flags[b] /\ Mine(p, b)
  BY <1>2, <1>3, FreeIsValid
<1> DEFINE async == b_vp[b] = want[p].vp \/ ~IsSync(p)
           fl == b_flags[b] \cup {"BUSY"} \cup (IF async THEN {"ASYNC"} ELSE {})
           next == IF async THEN "vflush_scan" ELSE "vflush"
<1>5. /\ bwrite(b, fl) /\ AfterStrategy(p, fl, next) /\ bp' = [bp EXCEPT ![p] = b]
      /\ todo' = [todo EXCEPT ![p] = IF async THEN todo[p] \ {b} ELSE {}]
      /\ UNCHANGED <<want, hold, panicked>>
  BY <1>1, <1>3, <1>4
<1>6. /\ "BUSY" \in fl /\ "INVAL" \notin fl /\ "DELWRI" \in fl /\ ("ASYNC" \in fl <=> async)
      /\ next \in Nexts
  BY <1>3, <1>4 DEF Nexts
<1>7. /\ todo'[p] = IF async THEN todo[p] \ {b} ELSE {}
      /\ \A q \in Procs \ {p} : todo'[q] = todo[q] /\ bp'[q] = bp[q]
  BY <1>5 DEF CacheInv, ControlInv, TypeOK
<1>8. async => next = "vflush_scan"
  OBVIOUS
<1> HIDE DEF fl, async, next
<1>9. Writer(p, b, fl, next)
  BY <1>2, <1>5, <1>6, <1>7, <1>8 DEF Writer
<1>. QED  BY <1>2, <1>4, <1>5, <1>6, <1>7, <1>9, BlockWrite

(* A block that may be modified is valid and has a vnode. *)
LEMMA MayWriteBlock ==
  ASSUME CacheInv, BlockInv, NEW p \in Procs, MayWrite(p)
  PROVE  /\ bp[p] \in Bufs /\ b_vp[bp[p]] # None /\ "INVAL" \notin b_flags[bp[p]]
         /\ "ASYNC" \notin b_flags[bp[p]] /\ "BUSY" \in b_flags[bp[p]] /\ Mine(p, bp[p])
         /\ cpu \in {p, None} /\ pc[p] = "user" /\ todo[p] = {} /\ hold[p] = None
<1>1. /\ Holding(p) /\ cpu \in {p, None} /\ pc[p] = "user" /\ bp[p] # None
      /\ want[p].op # "geteblk"
  BY DEF MayWrite, Holding, At, CanRun
<1>2. /\ bp[p] \in Bufs /\ Mine(p, bp[p]) /\ "BUSY" \in b_flags[bp[p]]
      /\ "ASYNC" \notin b_flags[bp[p]]
  BY <1>1, UserMine DEF Mine, Has
<1>3. bp[p] \in Cached(want[p].vp, want[p].blk)
  BY <1>1 DEF BlockInv, Block, Given
<1>4. want[p].vp # None
  BY <1>1, UserHolds DEF CacheInv, Asked
<1>5. todo[p] = {} /\ hold[p] = None
  BY <1>1, NothingLeft, NothingHeld DEF Walking
<1>. QED  BY <1>1, <1>2, <1>3, <1>4, <1>5 DEF Cached

LEMMA BlockUserBwrite ==
  ASSUME CacheInv, BlockInv, NEW p \in Procs, UserBwrite(p) PROVE BlockInv'
<1>1. PICK how \in {{}, {"ASYNC"}} :
        LET b == bp[p]
            fl == b_flags[b] \cup how
        IN /\ MayWrite(p)
           /\ IF b_vp[b] = None
              THEN Panic
              ELSE /\ Modify(b) /\ bwrite(b, fl) /\ AfterStrategy(p, fl, "user")
                   /\ want' = [want EXCEPT ![p] = None]
                   /\ bp' = IF pc'[p] = "user" THEN [bp EXCEPT ![p] = None] ELSE bp
                   /\ UNCHANGED <<bfreelist, wchan, hold, todo, err, panicked>>
  BY DEF UserBwrite
<1>2. PICK b \in Bufs : b = bp[p]
  BY <1>1, MayWriteBlock
<1> DEFINE fl == b_flags[b] \cup how
<1>3. /\ b_vp[b] # None /\ "INVAL" \notin b_flags[b] /\ "BUSY" \in b_flags[b] /\ Mine(p, b)
      /\ cpu \in {p, None} /\ pc[p] = "user" /\ todo[p] = {}
  BY <1>1, <1>2, MayWriteBlock
<1>4. /\ bwrite(b, fl) /\ AfterStrategy(p, fl, "user") /\ want' = [want EXCEPT ![p] = None]
      /\ bp' = IF pc'[p] = "user" THEN [bp EXCEPT ![p] = None] ELSE bp
      /\ UNCHANGED <<hold, todo, panicked>>
  BY <1>1, <1>2, <1>3
<1>5. "BUSY" \in fl /\ "INVAL" \notin fl /\ "user" \in Nexts
  BY <1>3 DEF Nexts
<1> HIDE DEF fl
<1>6. "ASYNC" \in fl /\ "DELWRI" \notin fl => pc'[p] = "user"
  BY <1>4 DEF AfterStrategy, CacheInv, ControlInv, TypeOK
<1>7. /\ want'[p] = None /\ \A q \in Procs \ {p} : want'[q] = want[q] /\ bp'[q] = bp[q]
      /\ pc'[p] = "user" => bp'[p] = None
  BY <1>4 DEF CacheInv, ControlInv, TypeOK
<1>8. Writer(p, b, fl, "user")
  BY <1>3, <1>4, <1>6, <1>7 DEF Writer
<1>. QED  BY <1>3, <1>4, <1>5, <1>7, <1>8, BlockWrite

(* What brelse() does to the buffers. *)
LEMMA FreeIntact ==
  ASSUME CacheInv, NEW b \in Bufs, NEW free, NEW l, NEW fl, NEW C, Free(free, l, b, fl, C),
         "ERROR" \notin fl
  PROVE  Spares(b) /\ Intact(b)'
<1> DEFINE bad == fl \cap {"ERROR", "INVAL"} # {}
<1>1. PICK dw : b_flags'[b] = (fl \cup {}) \ ({"WANTED", "BUSY", "ASYNC", "AGE"} \cup dw)
  BY DEF Free, CacheInv, ControlInv, TypeOK
<1>2. b_vp'[b] = IF bad THEN None ELSE b_vp[b]
  BY DEF Free, CacheInv, ControlInv, TypeOK
<1>3. Intact(b)'
  BY <1>1, <1>2 DEF Intact, Has
<1>4. Spares(b)
  BY DEF Spares, Free, CacheInv, ControlInv, TypeOK
<1>. QED  BY <1>3, <1>4

LEMMA BlockRelease ==
  ASSUME CacheInv, BlockInv, NEW p \in Procs, Release(p) PROVE BlockInv'
<1>1. cpu \in {p, None} /\ pc[p] = "release"
  BY DEF Release, At, CanRun
<1>2. PICK b \in Bufs : b = bp[p] /\ b # None
  BY <1>1, AtLabel DEF PointerAt, Pointing, CacheInv, ControlInv, TypeOK
<1>3. /\ \E C : Free(bfreelist, b_list[b], b, b_flags[b], C)
      /\ bp' = [bp EXCEPT ![p] = None] /\ Return(p) /\ UNCHANGED <<want, hold, todo, panicked>>
  BY <1>2 DEF Release, brelse, brelseFrom
<1>4. Mine(p, b) /\ "ERROR" \notin b_flags[b]
  BY <1>1, <1>2, HeldIsMine DEF CacheInv, Holders, BlockInv, Intact, Has
<1>5. Spares(b) /\ Intact(b)'
  BY <1>3, <1>4, FreeIntact
<1>6. bp'[p] = None /\ \A q \in Procs \ {p} : bp'[q] = bp[q]
  BY <1>3 DEF CacheInv, ControlInv, TypeOK
<1>7. Runs(p)
  BY <1>1, <1>3, <1>6, ReturnLocal DEF Runs, Local
<1>8. pc'[p] \in Nexts
  BY <1>1, <1>3, AtLabel, Pops, ReturnLocal DEF CacheInv
<1>9. todo[p] = {} /\ (want[p] # None => want[p].op # "geteblk")
  BY <1>1, NothingLeft, Named DEF Walking
<1>10. hold[p] # None => hold[p] \in Cached(want[p].vp, First(p))'
  BY <1>1, <1>3, <1>4, <1>5, <1>8, HoldsOn DEF Nexts
<1>11. hold[p] # None => Ahead(p)'
  BY <1>1, <1>3, Popped DEF BlockInv, Block, Ahead
<1>12. ~Given(p)'
  BY <1>6, <1>8 DEF Given, Nexts
<1>13. Walk(p)'
  BY <1>3, <1>8, <1>9, ReturnKeepsCpu DEF Walk, Nexts
<1>14. Block(p)'
  BY <1>3, <1>9, <1>10, <1>11, <1>12 DEF Block
<1>. QED  BY <1>3, <1>4, <1>5, <1>7, <1>13, <1>14, SparingStep

LEMMA BlockAhead ==
  ASSUME CacheInv, BlockInv, NEW p \in Procs, AheadStart(p) PROVE BlockInv'
<1>1. /\ cpu \in {p, None} /\ pc[p] = "ra_io" /\ bp' = [bp EXCEPT ![p] = None]
      /\ pc' = [pc EXCEPT ![p] = "breada_end"] /\ UNCHANGED <<stack, want, hold, todo, panicked>>
  BY DEF AheadStart, At, CanRun, Goto
<1>2. PICK b \in Bufs : b = bp[p] /\ "INVAL" \notin b_flags[b]
  BY <1>1 DEF BlockInv, Block, Given, Cached
<1>3. Runs(p) /\ pc'[p] = "breada_end" /\ bp'[p] = None
  BY <1>1 DEF Runs, Local, CacheInv, ControlInv, TypeOK
<1>4. todo[p] = {} /\ (want[p] # None => want[p].op # "geteblk")
  BY <1>1, NothingLeft, Named DEF Walking
<1>5. Walk(p)'
  BY <1>1, <1>3, <1>4 DEF Walk, Walking
<1>6. CASE b_flags[b] \cap {"DONE", "DELWRI"} # {}
  <2>1. \E C : Free(bfreelist, b_list[b], b, b_flags[b], C)
    BY <1>2, <1>6 DEF AheadStart, brelse, brelseFrom
  <2>2. Mine(p, b) /\ "ERROR" \notin b_flags[b]
    BY <1>1, <1>2, HeldIsMine, BufCacheAssumption
       DEF CacheInv, Holders, BlockInv, Intact, Has, BufCacheAssumption
  <2>3. Spares(b) /\ Intact(b)'
    BY <2>1, <2>2, FreeIntact
  <2>4. hold[p] # None => hold[p] \in Cached(want[p].vp, First(p))'
    BY <1>1, <1>3, <2>2, <2>3, HoldsOn
  <2>5. Block(p)'
    BY <1>1, <1>3, <1>4, <2>4 DEF Block, Given, Ahead
  <2>. QED  BY <1>1, <1>3, <1>5, <2>2, <2>3, <2>5, SparingStep
<1>7. CASE b_flags[b] \cap {"DONE", "DELWRI"} = {}
  <2>1. StartRead(b, {"ASYNC"}) /\ UNCHANGED <<b_vp, b_lblkno, b_list, panicked>>
    BY <1>2, <1>7 DEF AheadStart
  <2>2. Quiet
    BY <1>2, <2>1, ReadIsQuiet DEF Has
  <2>3. hold[p] # None => hold[p] \in Cached(want[p].vp, want[p].ra)
    BY <1>1 DEF BlockInv, Block, First
  <2>4. Block(p)'
    BY <1>1, <1>3, <1>4, <2>2, <2>3, QuietKeeps DEF Block, Given, First, Ahead
  <2>. QED  BY <1>3, <1>5, <2>2, <2>4, QuietStep
<1>. QED  BY <1>6, <1>7

LEMMA BlockInvalidate ==
  ASSUME CacheInv, BlockInv, NEW p \in Procs, VinvalDrop(p) PROVE BlockInv'
<1>1. cpu \in {p, None} /\ pc[p] = "vinval_take" /\ ~Has(bp[p], "BUSY") /\ Invalidate(p)
  BY DEF VinvalDrop, Invalidate, At, CanRun
<1>2. PICK b \in Bufs : b = bp[p] /\ b_list[b] # None /\ b \notin todo[p]
  BY <1>1, AtLabel DEF BlockInv, Walk, PointerAt, Pointing, CacheInv, ControlInv, TypeOK
<1> DEFINE fl == (b_flags[b] \cup {"BUSY"}) \cup
                 (IF b_vp[b] = want[p].vp THEN {"INVAL"} ELSE {})
           next == IF todo[p] = {} THEN "vinval" ELSE "vinval_scan"
<1>3. b_vp[b] # None
  BY <1>2 DEF CacheInv, ControlInv, ListsAgree
<1>4. /\ \E free, l, C : Free(free, l, b, fl, C)
      /\ bp' = [bp EXCEPT ![p] = None] /\ pc' = [pc EXCEPT ![p] = next] /\ cpu' = p
      /\ UNCHANGED <<stack, want, hold, todo, panicked>>
  BY <1>1, <1>2, <1>3 DEF Invalidate, brelseFrom, Goto
<1>5. Mine(p, b) /\ "ERROR" \notin fl
  BY <1>1, <1>2, FreeIsValid DEF BlockInv, Intact, Has
<1> HIDE DEF fl
<1>6. Spares(b) /\ Intact(b)'
  BY <1>4, <1>5, FreeIntact
<1>7. Runs(p) /\ pc'[p] = next /\ bp'[p] = None
  BY <1>1, <1>4 DEF Runs, Local, CacheInv, ControlInv, TypeOK
<1>8. hold[p] = None /\ (want[p] # None => want[p].op # "geteblk")
  BY <1>1, NothingHeld, Named DEF OneDeep
<1>9. Walk(p)'
  <2>1. \A c \in todo[p] : c \in Bufs \ {b} /\ b_list[c] # None
    BY <1>1, <1>2 DEF BlockInv, Walk, CacheInv, ControlInv, TypeOK
  <2>2. \A c \in todo[p] : b_list'[c] # None /\ next = "vinval_scan"
    BY <1>6, <2>1 DEF Spares
  <2>. QED  BY <1>4, <1>7, <2>2 DEF Walk
<1>10. Block(p)'
  BY <1>4, <1>7, <1>8 DEF Block, Given
<1>. QED  BY <1>4, <1>5, <1>6, <1>7, <1>9, <1>10, SparingStep

(* A process gives its buffer back. *)
LEMMA BlockForget ==
  ASSUME CacheInv, BlockInv, NEW p \in Procs, Holding(p), Forget(p), UNCHANGED <<pc, stack>>,
         NEW l, NEW fl, NEW C, Free(bfreelist, l, bp[p], fl, C), "ERROR" \notin fl
  PROVE  BlockInv'
<1>1. PICK b \in Bufs : b = bp[p] /\ Mine(p, b)
  BY UserMine
<1>2. /\ cpu \in {p, None} /\ pc[p] = "user" /\ bp' = [bp EXCEPT ![p] = None]
      /\ want' = [want EXCEPT ![p] = None] /\ UNCHANGED <<hold, todo, panicked>>
  BY DEF Holding, At, CanRun, Forget
<1>3. Spares(b) /\ Intact(b)'
  BY <1>1, FreeIntact
<1>4. Runs(p) /\ bp'[p] = None /\ want'[p] = None
  BY <1>2 DEF Runs, Local, CacheInv, ControlInv, TypeOK
<1>5. hold[p] = None /\ todo[p] = {}
  BY <1>2, NothingHeld, NothingLeft DEF Walking
<1>6. Walk(p)' /\ Block(p)'
  BY <1>2, <1>4, <1>5 DEF Walk, Walking, Block, Given
<1>. QED  BY <1>1, <1>2, <1>3, <1>4, <1>6, SparingStep

LEMMA BlockUserReleases ==
  ASSUME CacheInv, BlockInv, NEW p \in Procs, UserBrelse(p) \/ UserIndirect(p) PROVE BlockInv'
<1>1. Holding(p) /\ Forget(p) /\ UNCHANGED <<pc, stack>>
  BY DEF UserBrelse, UserIndirect, MayWrite
<1>2. PICK fl \in {b_flags[bp[p]], b_flags[bp[p]] \cup {"DELWRI", "DONE"}} :
        \E l, C : Free(bfreelist, l, bp[p], fl, C)
  BY DEF UserBrelse, UserIndirect, brelse, brelseFrom
<1>3. "ERROR" \notin fl
  BY <1>1, <1>2, UserMine DEF BlockInv, Intact, Has
<1>. QED  BY <1>1, <1>2, <1>3, BlockForget

LEMMA BlockUserBdwrite ==
  ASSUME CacheInv, BlockInv, NEW p \in Procs, UserBdwrite(p) PROVE BlockInv'
<1>1. MayWrite(p) /\ Holding(p)
  BY DEF UserBdwrite, MayWrite
<1>2. PICK b \in Bufs : b = bp[p]
  BY <1>1, MayWriteBlock
<1>3. /\ b_vp[b] # None /\ "INVAL" \notin b_flags[b] /\ "BUSY" \in b_flags[b] /\ Mine(p, b)
      /\ cpu \in {p, None} /\ pc[p] = "user" /\ todo[p] = {} /\ "ERROR" \notin b_flags[b]
  BY <1>1, <1>2, MayWriteBlock DEF BlockInv, Intact, Has
<1> DEFINE fl == b_flags[b] \cup {"DELWRI"}
           fa == fl \cup {"ASYNC"}
           fd == fl \cup {"DONE"}
<1>4. CASE b_vp[b] \in tapes
  <2>1. /\ bwrite(b, fa) /\ AfterStrategy(p, fa, "user") /\ want' = [want EXCEPT ![p] = None]
        /\ UNCHANGED <<bp, hold, todo, panicked>>
    BY <1>2, <1>3, <1>4 DEF UserBdwrite
  <2>2. "BUSY" \in fa /\ "INVAL" \notin fa /\ "DELWRI" \in fa /\ "user" \in Nexts
    BY <1>3 DEF Nexts
  <2> HIDE DEF fa
  <2>3. want'[p] = None /\ \A q \in Procs \ {p} : want'[q] = want[q]
    BY <2>1 DEF CacheInv, ControlInv, TypeOK
  <2>4. Writer(p, b, fa, "user")
    BY <1>3, <2>1, <2>2, <2>3 DEF Writer
  <2>. QED  BY <1>3, <2>1, <2>2, <2>3, <2>4, BlockWrite
<1>5. CASE b_vp[b] \notin tapes
  <2>1. (\E l, C : Free(bfreelist, l, bp[p], fd, C)) /\ Forget(p) /\ UNCHANGED <<pc, stack>>
    BY <1>2, <1>3, <1>5 DEF UserBdwrite, brelseFrom
  <2>2. "ERROR" \notin fd
    BY <1>3
  <2> HIDE DEF fd
  <2>. QED  BY <1>1, <2>1, <2>2, BlockForget
<1>. QED  BY <1>4, <1>5

-----------------------------------------------------------------------------
(* A disk that does not fail.                                              *)

(* The interrupt leaves every buffer its block and its list. *)
LEMMA BlockBiodone ==
  ASSUME CacheInv, BlockInv, NEW b \in Bufs, Biodone(b, FALSE) PROVE BlockInv'
<1> DEFINE fl == b_flags[b] \cup {"DONE"} \cup (IF FALSE THEN {"ERROR"} ELSE {})
<1>1. /\ \/ "ASYNC" \in b_flags[b] /\ \E C : Free(bfreelist, b_list[b], b, fl, C)
         \/ /\ b_flags' = [b_flags EXCEPT ![b] = fl \ {"WANTED"}]
            /\ UNCHANGED <<b_vp, b_lblkno, b_list>>
      /\ UNCHANGED <<cpu, pc, stack, want, bp, hold, todo, panicked>>
  BY BiodoneInOrder
<1>2. Intact(b) /\ (\A c \in Bufs : Intact(c))
  BY DEF BlockInv
<1>3. fl = b_flags[b] \cup {"DONE"}
  OBVIOUS
<1> HIDE DEF fl
<1>4. /\ UNCHANGED <<b_vp, b_lblkno, b_list>> /\ Intact(b)'
      /\ \A c \in Bufs \ {b} : b_flags'[c] = b_flags[c]
      /\ \A f \in {"INVAL", "DELWRI"} : f \in b_flags'[b] <=> f \in b_flags[b]
  <2>1. CASE "ASYNC" \in b_flags[b] /\ \E C : Free(bfreelist, b_list[b], b, fl, C)
    <3>1. PICK C : Free(bfreelist, b_list[b], b, fl, C)
      BY <2>1
    <3>2. "INVAL" \notin fl /\ "ERROR" \notin fl
      BY <1>2, <1>3, <2>1 DEF Intact, Has
    <3>3. fl \cap {"ERROR", "INVAL"} = {}
      BY <3>2
    <3>4. /\ b_flags' = [b_flags EXCEPT ![b] = (fl \cup {}) \ ({"WANTED", "BUSY", "ASYNC", "AGE"} \cup {})]
          /\ b_vp' = [b_vp EXCEPT ![b] = @] /\ b_list' = [b_list EXCEPT ![b] = b_list[b]]
          /\ UNCHANGED b_lblkno
      BY <3>1, <3>2, <3>3 DEF Free
    <3>5. UNCHANGED <<b_vp, b_lblkno, b_list>>
      BY <3>4 DEF CacheInv, ControlInv, TypeOK
    <3>6. /\ b_flags'[b] = (fl \cup {}) \ ({"WANTED", "BUSY", "ASYNC", "AGE"} \cup {})
          /\ \A c \in Bufs \ {b} : b_flags'[c] = b_flags[c]
      BY <3>4 DEF CacheInv, ControlInv, TypeOK
    <3>. QED  BY <1>3, <3>2, <3>5, <3>6 DEF Intact, Has
  <2>2. CASE /\ b_flags' = [b_flags EXCEPT ![b] = fl \ {"WANTED"}]
             /\ UNCHANGED <<b_vp, b_lblkno, b_list>>
    <3>1. b_flags'[b] = fl \ {"WANTED"} /\ \A c \in Bufs \ {b} : b_flags'[c] = b_flags[c]
      BY <2>2 DEF CacheInv, ControlInv, TypeOK
    <3>. QED  BY <1>2, <1>3, <2>2, <3>1 DEF Intact, Has
  <2>. QED  BY <1>1, <2>1, <2>2
<1>5. \A c \in Bufs : Intact(c)'
  BY <1>2, <1>4 DEF Intact, Has
<1>6. /\ \A v, k : Cached(v, k)' = Cached(v, k)
      /\ \A c \in Bufs : Has(c, "DELWRI")' <=> Has(c, "DELWRI")
  BY <1>4 DEF Cached, Has
<1>7. ASSUME NEW p \in Procs PROVE Walk(p)' /\ Block(p)'
  <2>1. Walk(p) /\ Block(p) /\ todo[p] \subseteq Bufs
    BY DEF BlockInv, CacheInv, ControlInv, TypeOK
  <2>2. Walk(p)'
    BY <1>1, <1>4, <1>6, <2>1 DEF Walk
  <2>3. Block(p)'
    BY <1>1, <1>6, <2>1 DEF Block, Given, First, Ahead, Unnamed
  <2>. QED  BY <2>2, <2>3
<1>. QED  BY <1>1, <1>5, <1>7 DEF BlockInv

LEMMA BlockInit ==
  ASSUME Init PROVE BlockInv
  BY DEF Init, BlockInv, Intact, Walk, Walking, Block, Given, Has

LEMMA BlockNext ==
  ASSUME ~MayFail, CacheInv, BlockInv, [Next]_vars PROVE BlockInv'
<1>1. CASE UNCHANGED vars
  <2>1. UNCHANGED <<b_flags, b_vp, b_lblkno, b_list, cpu, pc, stack, want, bp, hold, todo, panicked>>
    BY <1>1 DEF vars, bufvars, locals
  <2>. QED  BY <2>1 DEF BlockInv, Intact, Walk, Block, Given, First, Ahead, Unnamed, Cached, Has
<1>2. ASSUME NEW b \in Bufs, Interrupt(b) PROVE BlockInv'
  BY <1>2, BlockBiodone DEF Interrupt
<1>3. ASSUME NEW p \in Procs, Step(p) PROVE BlockInv'
  BY <1>3, BlockSearch, BlockBusy, BlockHit, BlockStray, BlockWaits, BlockDirty, BlockNew,
     BlockSetAge, BlockBread, BlockBreada, BlockBreadaStart, BlockBreadaAhead, BlockAhead,
     BlockBreadaEnd, BlockBiowait, BlockRelease, BlockVflush, BlockVflushWrite, BlockVinval,
     BlockVinvalSave, BlockInvalidate, BlockUserReleases, BlockUserBwrite, BlockUserBdwrite
     DEF Step
<1>. QED  BY <1>1, <1>2, <1>3, BlockEnters DEF Next, Halted

LEMMA BlockAlways ==
  ASSUME ~MayFail PROVE Spec => []BlockInv
<1>1. CacheInv /\ BlockInv /\ [Next]_vars => BlockInv'
  BY BlockNext
<1>. QED  BY <1>1, BlockInit, CacheAlways, PTL DEF Spec

-----------------------------------------------------------------------------

(* On a disk without errors, what getblk(), bread() and breada() return is *)
(* a valid buffer of the block asked for: nobody takes the buffer away or  *)
(* gives it to another block between the search and the return, while the  *)
(* process sleeps for the I/O, or while breada() holds it and gets the     *)
(* read-ahead block.                                                       *)
THEOREM RightBlockReturned ==
  ASSUME ~MayFail PROVE Spec => []GetblkReturnsBlock
<1>1. BlockInv => GetblkReturnsBlock
  BY DEF BlockInv, Block, Given, GetblkReturnsBlock
<1>. QED  BY <1>1, BlockAlways, PTL

(* On a disk without errors the cache never panics: vflushbuf() finds only *)
(* dirty buffers on the list it walks, vinvalbuf() and getblk() never hand *)
(* reassignbuf() or bwrite() a buffer without a vnode, and neither does    *)
(* the holder of a block.                                                  *)
THEOREM CacheNeverPanics ==
  ASSUME ~MayFail PROVE Spec => []NoPanic
<1>1. BlockInv => NoPanic
  BY DEF BlockInv, NoPanic
<1>. QED  BY <1>1, BlockAlways, PTL

-----------------------------------------------------------------------------
(* One buffer for each block.                                              *)

(* Nobody sleeps in getnewbuf() for want of a free buffer. *)
NeverShort == \A p \in Procs : wchan[p] # FreeChan

(* A buffer that getblk() can find, and only one for each block. *)
Valid(b) == b_vp[b] # None /\ ~Has(b, "INVAL")
Single == \A b, c \in Bufs :
  Valid(b) /\ Valid(c) /\ b_vp[b] = b_vp[c] /\ b_lblkno[b] = b_lblkno[c] => b = c

(* A process in getnewbuf(), or on its way back there from bwrite(), has   *)
(* kept the CPU since it looked for the block it asked for in vain.        *)
Seeking(p) == pc[p] = "getnewbuf" \/ Listed(stack[p], "getnewbuf")
Unfound(p) ==
  /\ Listed(stack[p], "getnewbuf") => pc[p] = "setage"
  /\ Seeking(p) /\ want[p].op # "geteblk" => cpu = p /\ ~incore(want[p].vp, want[p].blk)

OnceInv == Single /\ \A p \in Procs : Unfound(p)

(* No block gets a buffer. *)
NothingNew == \A c \in Bufs : /\ b_lblkno'[c] = b_lblkno[c]
                              /\ Valid(c)' => Valid(c) /\ b_vp'[c] = b_vp[c]

(* p runs, and nobody else gets anywhere. *)
Others(p) == /\ cpu \in {p, None}
             /\ \A q \in Procs \ {p} : pc'[q] = pc[q] /\ stack'[q] = stack[q] /\ want'[q] = want[q]

(* Who does not have the CPU is not between a search and its end. *)
LEMMA OthersWait ==
  ASSUME OnceInv, NEW p \in Procs, Others(p), NEW q \in Procs \ {p} PROVE Unfound(q)'
<1>1. pc'[q] = pc[q] /\ stack'[q] = stack[q] /\ want'[q] = want[q] /\ Unfound(q)
  BY DEF Others, OnceInv
<1>2. cpu # q
  BY BufCacheAssumption DEF Others, BufCacheAssumption
<1>3. ~(Seeking(q) /\ want[q].op # "geteblk")
  BY <1>1, <1>2 DEF Unfound
<1>. QED  BY <1>1, <1>3 DEF Unfound, Seeking

(* A step that gives no block a buffer. *)
LEMMA OnceStep ==
  ASSUME OnceInv, NEW p \in Procs, Others(p), NothingNew, Unfound(p)' PROVE OnceInv'
<1>1. Single'
  BY DEF OnceInv, Single, NothingNew
<1>. QED  BY <1>1, OthersWait DEF OnceInv

(* Outside bwrite() no caller is in getnewbuf(). *)
LEMMA PlainList ==
  ASSUME NEW l \in Labels \ {"setage", "release", "biowait"}, NEW s, NEW w, NEW x,
         FrameAt(l, s, w, x)
  PROVE  ~Listed(s, "getnewbuf")
<1>1. ~Listed(<<>>, "getnewbuf") /\ ~Listed(<<"user">>, "getnewbuf")
  BY DEF Listed
<1>2. ASSUME NEW c \in Callers PROVE ~Listed(<<c>> \o <<"user">>, "getnewbuf")
  <2> DEFINE s2 == <<c>> \o <<"user">>
  <2>1. DOMAIN s2 = 1..2 /\ s2[1] = c /\ s2[2] = "user"
    OBVIOUS
  <2> HIDE DEF s2
  <2>2. ~Listed(s2, "getnewbuf")
    BY <2>1 DEF Listed, Callers
  <2>. QED  BY <2>2 DEF s2
<1>3. PlainStack(l, s)
  BY DEF FrameAt
<1>. QED  BY <1>1, <1>2, <1>3 DEF PlainStack

(* p is not in getnewbuf(). *)
LEMMA Elsewhere ==
  ASSUME NEW p \in Procs, pc'[p] # "getnewbuf", ~Listed(stack'[p], "getnewbuf")
  PROVE  Unfound(p)'
  BY DEF Unfound, Seeking

LEMMA GoesOn ==
  ASSUME CacheInv', NEW p \in Procs, pc'[p] \notin {"getnewbuf", "setage", "release", "biowait"}
  PROVE  Unfound(p)'
<1>1. pc'[p] \in Labels /\ FrameAt(pc'[p], stack'[p], want'[p], bp'[p])
  BY DEF CacheInv, ControlInv, Control, Frame, TypeOK
<1>. QED  BY <1>1, PlainList, Elsewhere

-----------------------------------------------------------------------------
(* Steps of a process move no other.                                       *)

LEMMA ReturnOthers ==
  ASSUME CacheInv, NEW p \in Procs, cpu \in {p, None}, Return(p),
         UNCHANGED want \/ want' = [want EXCEPT ![p] = None]
  PROVE  Others(p)
<1>1. \A q \in Procs \ {p} : want'[q] = want[q]
  BY DEF CacheInv, ControlInv, TypeOK
<1>. QED  BY <1>1, ReturnLocal DEF Others

LEMMA GotoOthers ==
  ASSUME CacheInv, NEW p \in Procs, cpu \in {p, None}, NEW l, pc' = [pc EXCEPT ![p] = l],
         UNCHANGED stack \/ \E s : stack' = [stack EXCEPT ![p] = s],
         UNCHANGED want \/ \E w : want' = [want EXCEPT ![p] = w]
  PROVE  Others(p)
  BY DEF Others, CacheInv, ControlInv, TypeOK

LEMMA WriteOthers ==
  ASSUME CacheInv, NEW p \in Procs, cpu \in {p, None}, NEW fl, NEW next,
         AfterStrategy(p, fl, next), UNCHANGED want \/ \E w : want' = [want EXCEPT ![p] = w]
  PROVE  Others(p)
<1>1. /\ \E l : pc' = [pc EXCEPT ![p] = l]
      /\ UNCHANGED stack \/ \E s : stack' = [stack EXCEPT ![p] = s]
  BY DEF AfterStrategy, Goto, Call
<1>. QED  BY <1>1, GotoOthers

LEMMA StepRuns ==
  ASSUME CacheInv, NEW p \in Procs, Enters(p) \/ Step(p) PROVE Others(p)
<1>1. ASSUME Panic, cpu \in {p, None} PROVE Others(p)
  BY <1>1 DEF Panic, Others, locals
<1>2. CASE Enters(p)
  <2>1. PICK op, v, k, ra, z, label, callers : Enter(p, op, v, k, ra, z, label, callers)
    BY <1>2 DEF Enters, CallBread, CallBaddr, CallBreada, CallGetblk, CallGeteblk, CallVflushbuf,
                CallVinvalbuf
  <2>. QED  BY <2>1, GotoOthers DEF Enter, Idle, At, CanRun, Goto
<1>3. CASE GetblkSearch(p) \/ GetblkBusy(p) \/ VinvalBusy(p) \/ BreadaStart(p) \/ AheadStart(p)
           \/ VflushStart(p) \/ VinvalScan(p)
  <2>1. /\ cpu \in {p, None} /\ UNCHANGED <<stack, want>>
        /\ \E l : pc' = [pc EXCEPT ![p] = l]
    BY <1>3 DEF GetblkSearch, GetblkBusy, WaitFor, VinvalBusy, BreadaStart, AheadStart, VflushStart,
                VinvalScan, At, CanRun, Goto, Sleep
  <2>. QED  BY <2>1, GotoOthers
<1>4. CASE GetnewbufSleep(p) \/ BiowaitSleep(p) \/ VflushSleep(p)
  <2>1. /\ cpu \in {p, None} /\ UNCHANGED <<stack, want>>
        /\ \E l : pc' = [pc EXCEPT ![p] = l]
    BY <1>4 DEF GetnewbufSleep, BiowaitSleep, VflushSleep, At, CanRun, Sleep, locals
  <2>. QED  BY <2>1, GotoOthers
<1>5. CASE GetblkHit(p) \/ SetAge(p) \/ BiowaitDone(p) \/ Release(p) \/ GetnewbufClean(p)
  <2>1. cpu \in {p, None} /\ Return(p) /\ UNCHANGED want
    BY <1>5 DEF GetblkHit, TakeFound, SetAge, BiowaitDone, Release, GetnewbufClean, CleanNew,
                TakeNew, At, CanRun
  <2>. QED  BY <2>1, ReturnOthers
<1>6. CASE Bread(p) \/ Breada(p)
  <2>1. cpu \in {p, None} /\ UNCHANGED want
    BY <1>6 DEF Bread, Breada, At, CanRun
  <2>2. \/ Return(p)
        \/ /\ \E l : pc' = [pc EXCEPT ![p] = l]
           /\ UNCHANGED stack \/ \E s : stack' = [stack EXCEPT ![p] = s]
    BY <1>6 DEF Bread, Breada, Goto, Call
  <2>. QED  BY <2>1, <2>2, GotoOthers, ReturnOthers
<1>7. CASE BreadaAhead(p) \/ BreadaEnd(p)
  <2>1. /\ cpu \in {p, None} /\ Swap(p) /\ pc[p] \in {"breada_ra", "breada_end"}
        /\ \E l : pc' = [pc EXCEPT ![p] = l]
        /\ UNCHANGED stack \/ \E s : stack' = [stack EXCEPT ![p] = s]
    BY <1>7 DEF BreadaAhead, BreadaEnd, Goto, Call, At, CanRun
  <2>2. \A q \in Procs \ {p} : want'[q] = want[q]
    BY <2>1, Swapped
  <2>. QED  BY <2>1, <2>2 DEF Others, CacheInv, ControlInv, TypeOK
<1>8. CASE VflushSkip(p)
  BY <1>8 DEF VflushSkip, At, CanRun, Others
<1>9. CASE VflushScanned(p) \/ VflushDone(p) \/ VinvalList(p)
  <2>1. cpu \in {p, None}
    BY <1>9 DEF VflushScanned, VflushDone, VinvalList, At, CanRun
  <2>2. \/ Return(p) /\ want' = [want EXCEPT ![p] = None]
        \/ UNCHANGED <<stack, want>> /\ \E l : pc' = [pc EXCEPT ![p] = l]
    BY <1>9 DEF VflushScanned, VflushDone, VinvalList, Goto
  <2>. QED  BY <2>1, <2>2, GotoOthers, ReturnOthers
<1>10. CASE GetblkStray(p) \/ GetnewbufDirty(p) \/ VinvalSave(p)
  <2>1. /\ cpu \in {p, None}
        /\ Panic \/ (UNCHANGED want /\ \E fl, next : AfterStrategy(p, fl, next))
    BY <1>10 DEF GetblkStray, WriteStray, GetnewbufDirty, VinvalSave, At, CanRun
  <2>. QED  BY <1>1, <2>1, WriteOthers
<1>11. CASE VflushWrite(p)
  <2>1. /\ cpu \in {p, None}
        /\ Panic \/ (UNCHANGED want /\ \E fl, next : AfterStrategy(p, fl, next))
    BY <1>11 DEF VflushWrite, At, CanRun
  <2>. QED  BY <1>1, <2>1, WriteOthers
<1>12. CASE VinvalDrop(p)
  <2>1. /\ cpu \in {p, None}
        /\ Panic \/ (UNCHANGED <<stack, want>> /\ \E l : pc' = [pc EXCEPT ![p] = l])
    BY <1>12 DEF VinvalDrop, Invalidate, At, CanRun, Goto
  <2>. QED  BY <1>1, <2>1, GotoOthers
<1>13. CASE UserBrelse(p) \/ UserIndirect(p)
  <2>1. cpu \in {p, None} /\ UNCHANGED <<pc, stack>> /\ want' = [want EXCEPT ![p] = None]
    BY <1>13 DEF UserBrelse, UserIndirect, MayWrite, Holding, Forget, At, CanRun
  <2>. QED  BY <2>1 DEF Others, CacheInv, ControlInv, TypeOK
<1>14. CASE UserBwrite(p) \/ UserBdwrite(p)
  <2>1. cpu \in {p, None}
    BY <1>14 DEF UserBwrite, UserBdwrite, MayWrite, Holding, At, CanRun
  <2>2. \/ Panic
        \/ want' = [want EXCEPT ![p] = None] /\ \E fl, next : AfterStrategy(p, fl, next)
        \/ want' = [want EXCEPT ![p] = None] /\ UNCHANGED <<pc, stack>>
    BY <1>14 DEF UserBwrite, UserBdwrite, Forget
  <2>3. CASE want' = [want EXCEPT ![p] = None] /\ UNCHANGED <<pc, stack>>
    BY <2>1, <2>3 DEF Others, CacheInv, ControlInv, TypeOK
  <2>. QED  BY <1>1, <2>1, <2>2, <2>3, WriteOthers
<1>. QED  BY <1>2, <1>3, <1>4, <1>5, <1>6, <1>7, <1>8, <1>9, <1>10, <1>11, <1>12, <1>13, <1>14
          DEF Step

-----------------------------------------------------------------------------
(* Only getnewbuf() gives a block a buffer: the others leave buffers with   *)
(* their blocks or take them away.                                         *)

LEMMA MarksNothing ==
  ASSUME UNCHANGED <<b_vp, b_lblkno>>,
         \A c \in Bufs : Has(c, "INVAL") => Has(c, "INVAL")'
  PROVE  NothingNew
  BY DEF NothingNew, Valid

LEMMA FreesNothing ==
  ASSUME CacheInv, NEW free, NEW l, NEW b \in Bufs, NEW fl, NEW C, Free(free, l, b, fl, C),
         b_flags[b] \subseteq fl
  PROVE  NothingNew
<1>1. UNCHANGED b_lblkno
  BY DEF Free
<1>2. \A c \in Bufs \ {b} : b_flags'[c] = b_flags[c] /\ b_vp'[c] = b_vp[c]
  BY DEF Free, CacheInv, ControlInv, TypeOK
<1>3. b_vp'[b] = b_vp[b] \/ b_vp'[b] = None
  BY DEF Free, CacheInv, ControlInv, TypeOK
<1>4. "INVAL" \in fl => "INVAL" \in b_flags'[b]
  BY DEF Free, CacheInv, ControlInv, TypeOK
<1>. QED  BY <1>1, <1>2, <1>3, <1>4 DEF NothingNew, Valid, Has

LEMMA WritesNothing ==
  ASSUME CacheInv, NEW b \in Bufs, NEW fl, bwrite(b, fl), b_flags[b] \subseteq fl
  PROVE  NothingNew
<1>1. UNCHANGED <<b_vp, b_lblkno>>
  BY DEF bwrite, StartWrite
<1>2. /\ b_flags'[b] = fl \ {"READ", "DONE", "ERROR", "DELWRI"}
      /\ \A c \in Bufs \ {b} : b_flags'[c] = b_flags[c]
  BY DEF bwrite, StartWrite, CacheInv, ControlInv, TypeOK
<1>. QED  BY <1>1, <1>2, MarksNothing DEF Has

LEMMA StepNew ==
  ASSUME CacheInv, NEW p \in Procs, Enters(p) \/ Step(p),
         ~(GetnewbufClean(p) /\ want[p].op # "geteblk")
  PROVE  NothingNew
<1>1. ASSUME UNCHANGED bufvars \/ UNCHANGED <<b_vp, b_lblkno, b_flags>> PROVE NothingNew
  BY <1>1, MarksNothing DEF bufvars, Has
<1>2. CASE Enters(p)
  <2>1. UNCHANGED bufvars
    BY <1>2 DEF Enters, CallBread, CallBaddr, CallBreada, CallGetblk, CallGeteblk, CallVflushbuf,
                CallVinvalbuf, Enter
  <2>. QED  BY <1>1, <2>1
<1>3. CASE \/ GetblkSearch(p) \/ Breada(p) \/ BreadaAhead(p) \/ BreadaEnd(p) \/ BiowaitDone(p)
           \/ BiowaitSleep(p) \/ VflushStart(p) \/ VflushSkip(p) \/ VflushScanned(p)
           \/ VflushSleep(p) \/ VflushDone(p) \/ VinvalList(p) \/ VinvalScan(p)
           \/ GetnewbufSleep(p)
  <2>1. UNCHANGED bufvars \/ UNCHANGED <<b_vp, b_lblkno, b_flags>>
    BY <1>3 DEF GetblkSearch, Breada, BreadaAhead, BreadaEnd, BiowaitDone, BiowaitSleep,
                VflushStart, VflushSkip, VflushScanned, VflushSleep, VflushDone, VinvalList,
                VinvalScan, GetnewbufSleep
  <2>. QED  BY <1>1, <2>1
<1>4. CASE GetblkBusy(p) \/ VinvalBusy(p) \/ GetblkHit(p) \/ SetAge(p)
  <2>1. /\ UNCHANGED <<b_vp, b_lblkno>>
        /\ \E f : b_flags' = [b_flags EXCEPT ![bp[p]] = @ \cup f]
    BY <1>4 DEF GetblkBusy, WaitFor, VinvalBusy, GetblkHit, TakeFound, SetAge
  <2>2. \A c \in Bufs : Has(c, "INVAL") => Has(c, "INVAL")'
    BY <2>1 DEF Has, CacheInv, ControlInv, TypeOK
  <2>. QED  BY <2>1, <2>2, MarksNothing
<1>5. CASE Bread(p) \/ BreadaStart(p) \/ AheadStart(p)
  <2>1. CASE UNCHANGED <<b_vp, b_lblkno>> /\ \E extra : StartRead(bp[p], extra)
    <3>1. UNCHANGED b_flags \/ \E f : b_flags' = [b_flags EXCEPT ![bp[p]] = @ \cup {"READ"} \cup f]
      BY <2>1 DEF StartRead
    <3>2. \A c \in Bufs : Has(c, "INVAL") => Has(c, "INVAL")'
      BY <3>1 DEF Has, CacheInv, ControlInv, TypeOK
    <3>. QED  BY <2>1, <3>2, MarksNothing
  <2>2. CASE pc[p] = "ra_io" /\ brelse(bp[p], b_flags[bp[p]], {})
    <3>1. bp[p] \in Bufs
      BY <2>2, AtLabel DEF PointerAt, Pointing, CacheInv, ControlInv, TypeOK
    <3>. QED  BY <2>2, <3>1, FreesNothing DEF brelse, brelseFrom
  <2>. QED  BY <1>5, <2>1, <2>2 DEF Bread, BreadaStart, AheadStart, At
<1>6. CASE GetnewbufClean(p)
  <2>1. PICK b \in Bufs : b = NewBuf
    BY <1>6, NewBufNotBusy DEF GetnewbufClean, CleanNew
  <2>2. want[p].op = "geteblk" /\ pc[p] = "getnewbuf"
    BY <1>6 DEF GetnewbufClean, CleanNew, At
  <2>3. want[p].vp = None
    BY <2>2, AtLabel, Pops DEF CacheInv, Asked
  <2>4. /\ b_vp' = [b_vp EXCEPT ![b] = want[p].vp] /\ b_flags' = [b_flags EXCEPT ![b] = {"BUSY", "INVAL"}]
        /\ b_lblkno' = [b_lblkno EXCEPT ![b] = b_lblkno[b]]
    BY <1>6, <2>1, <2>2 DEF GetnewbufClean, TakeNew
  <2>. QED  BY <2>3, <2>4 DEF NothingNew, Valid, Has, CacheInv, ControlInv, TypeOK
<1>7. CASE GetblkStray(p) \/ VinvalSave(p) \/ GetnewbufDirty(p) \/ VflushWrite(p)
  <2>1. \/ Panic
        \/ \E b, fl : bwrite(b, fl) /\ b_flags[b] \subseteq fl
              /\ ((b = bp[p] /\ pc[p] \in Pointing) \/ (b = NewBuf /\ ~NoneFree) \/ b \in todo[p])
    <3>1. CASE GetblkStray(p) \/ VinvalSave(p)
      BY <3>1 DEF GetblkStray, WriteStray, VinvalSave, At, Pointing
    <3>2. CASE GetnewbufDirty(p)
      BY <3>2 DEF GetnewbufDirty
    <3>3. CASE VflushWrite(p)
      BY <3>3 DEF VflushWrite
    <3>. QED  BY <1>7, <3>1, <3>2, <3>3
  <2>2. Panic => UNCHANGED bufvars
    BY DEF Panic
  <2>3. /\ pc[p] \in Pointing => bp[p] \in Bufs
        /\ ~NoneFree => NewBuf \in Bufs
        /\ todo[p] \subseteq Bufs
    BY AtLabel, NewBufNotBusy DEF PointerAt, CacheInv, ControlInv, TypeOK
  <2>. QED  BY <1>1, <2>1, <2>2, <2>3, WritesNothing
<1>8. CASE Release(p) \/ UserBrelse(p) \/ UserIndirect(p) \/ VinvalDrop(p)
  <2>1. \/ Panic
        \/ \E free, l, fl, C : Free(free, l, bp[p], fl, C) /\ b_flags[bp[p]] \subseteq fl
    <3>1. CASE Release(p) \/ UserBrelse(p) \/ UserIndirect(p)
      <4>1. PICK fl \in {b_flags[bp[p]], b_flags[bp[p]] \cup {"DELWRI", "DONE"}} :
              \E l, C : Free(bfreelist, l, bp[p], fl, C)
        BY <3>1 DEF Release, UserBrelse, UserIndirect, brelse, brelseFrom
      <4>. QED  BY <4>1
    <3>2. CASE VinvalDrop(p)
      <4> DEFINE fl == (b_flags[bp[p]] \cup {"BUSY"}) \cup
                       (IF b_vp[bp[p]] = want[p].vp THEN {"INVAL"} ELSE {})
      <4>1. Panic \/ \E free, l, C : Free(free, l, bp[p], fl, C)
        BY <3>2 DEF VinvalDrop, Invalidate, brelseFrom
      <4>2. b_flags[bp[p]] \subseteq fl
        OBVIOUS
      <4>. QED  BY <4>1, <4>2
    <3>. QED  BY <1>8, <3>1, <3>2
  <2>2. Panic => UNCHANGED bufvars
    BY DEF Panic
  <2>3. bp[p] \in Bufs
    <3>1. Holding(p) \/ pc[p] \in Pointing
      BY <1>8 DEF Release, UserBrelse, UserIndirect, VinvalDrop, MayWrite, At, Pointing
    <3>. QED  BY <3>1, UserMine, AtLabel DEF PointerAt, CacheInv, ControlInv, TypeOK
  <2>. QED  BY <1>1, <2>1, <2>2, <2>3, FreesNothing
<1>9. CASE UserBwrite(p) \/ UserBdwrite(p)
  <2>1. bp[p] \in Bufs
    BY <1>9, UserMine DEF UserBwrite, UserBdwrite, MayWrite
  <2>2. \/ Panic
        \/ \E fl : bwrite(bp[p], fl) /\ b_flags[bp[p]] \subseteq fl
        \/ \E free, l, fl, C : Free(free, l, bp[p], fl, C) /\ b_flags[bp[p]] \subseteq fl
    BY <1>9 DEF UserBwrite, UserBdwrite, brelseFrom
  <2>3. Panic => UNCHANGED bufvars
    BY DEF Panic
  <2>. QED  BY <1>1, <2>1, <2>2, <2>3, FreesNothing, WritesNothing
<1>. QED  BY <1>2, <1>3, <1>4, <1>5, <1>6, <1>7, <1>8, <1>9 DEF Step

-----------------------------------------------------------------------------
(* Where a process is, and where it will be. *)
On(p, l) == pc[p] = l \/ Listed(stack[p], l)

(* After a return there are only places that were on the stack. *)
LEMMA ReturnPlaces ==
  ASSUME CacheInv, NEW p \in Procs, pc[p] # "user", Return(p), NEW l, On(p, l)'
  PROVE  Listed(stack[p], l)
<1>1. stack[p] # <<>>
  <2>1. \A a \in Labels, t \in Seq(Labels) : <<a>> \o t # <<>>
    BY PushPop
  <2>2. /\ Nexts \subseteq Labels /\ Callers \subseteq Labels /\ "release" \in Labels
        /\ <<"user">> \in Seq(Labels) /\ <<"user">> # <<>>
    BY DEF Nexts, Callers, Labels
  <2>3. FrameAt(pc[p], stack[p], want[p], bp[p])
    BY AtLabel DEF CacheInv
  <2>4. ASSUME NEW s, NEW w, WriteStack(s, w) PROVE s # <<>>
    BY <2>1, <2>2, <2>4, Zenon DEF WriteStack
  <2>5. PlainStack(pc[p], stack[p]) => stack[p] # <<>>
    <3>1. \A c \in Callers : <<c>> \o <<"user">> # <<>>
      BY <2>1, <2>2, Zenon
    <3>. QED  BY <2>2, <3>1, Zenon DEF PlainStack
  <2>6. \A t \in Seq(Labels) : <<"release">> \o t # <<>>
    BY <2>1, <2>2, Zenon
  <2>. QED  BY <2>2, <2>3, <2>4, <2>5, <2>6, Zenon DEF FrameAt
<1>2. pc'[p] = Head(stack[p]) /\ stack'[p] = Tail(stack[p]) /\ stack[p] \in Seq(Labels)
  BY AtLabel, ReturnFrame DEF CacheInv
<1>3. CASE pc'[p] = l
  <2>1. 1 \in DOMAIN stack[p] /\ Head(stack[p]) = stack[p][1]
    BY <1>1, <1>2
  <2>. QED  BY <1>2, <1>3, <2>1 DEF Listed
<1>4. CASE Listed(stack'[p], l)
  <2>1. PICK i \in DOMAIN Tail(stack[p]) : Tail(stack[p])[i] = l
    BY <1>2, <1>4 DEF Listed
  <2>2. i + 1 \in DOMAIN stack[p] /\ stack[p][i + 1] = l
    BY <1>1, <1>2, <2>1
  <2>. QED  BY <2>2 DEF Listed
<1>. QED  BY <1>3, <1>4 DEF On

(* A label more on the stack. *)
LEMMA PushPlaces ==
  ASSUME NEW s \in Seq(Labels), NEW c \in Labels, NEW l
  PROVE  Listed(<<c>> \o s, l) <=> Listed(s, l) \/ c = l
<1> DEFINE t == <<c>> \o s
<1>1. /\ Len(s) \in Nat /\ DOMAIN s = 1..Len(s) /\ DOMAIN t = 1..(Len(s) + 1) /\ t[1] = c
      /\ \A i \in 2..(Len(s) + 1) : t[i] = s[i - 1] /\ i - 1 \in DOMAIN s
  OBVIOUS
<1> HIDE DEF t
<1>2. Listed(t, l) => Listed(s, l) \/ c = l
  BY <1>1 DEF Listed
<1>3. Listed(s, l) \/ c = l => Listed(t, l)
  BY Pushed DEF t
<1>. QED  BY <1>2, <1>3 DEF t

(* Inside bwrite(), and back at next. *)
LEMMA WritePlaces ==
  ASSUME CacheInv, NEW p \in Procs, NEW fl, NEW next \in Nexts, AfterStrategy(p, fl, next), NEW l
  PROVE  /\ On(p, l)' => Listed(stack[p], l) \/ l \in {"biowait", "release", "setage", next}
         /\ Listed(stack[p], l) => Listed(stack'[p], l)
<1> DEFINE s == stack[p]
<1>1. s \in Seq(Labels) /\ next \in Labels /\ "release" \in Labels
  BY AtLabel DEF CacheInv, Nexts, Labels
<1>2. /\ pc'[p] \in {"biowait", "setage", next}
      /\ stack'[p] \in {s, <<next>> \o s, <<"release", next>> \o s}
  BY DEF AfterStrategy, Goto, Call, CacheInv, ControlInv, TypeOK
<1>3. <<next>> \o s \in Seq(Labels) /\ <<"release", next>> \o s = <<"release">> \o (<<next>> \o s)
  BY <1>1
<1>4. Listed(<<next>> \o s, l) <=> Listed(s, l) \/ next = l
  BY <1>1, PushPlaces
<1>5. Listed(<<"release">> \o (<<next>> \o s), l) <=> Listed(<<next>> \o s, l) \/ "release" = l
  BY <1>1, <1>3, PushPlaces
<1>. QED  BY <1>2, <1>3, <1>4, <1>5 DEF On

-----------------------------------------------------------------------------
(* Searches.                                                               *)

LEMMA ReturnsElsewhere ==
  ASSUME CacheInv, NEW p \in Procs, pc[p] \notin {"user", "setage"}, OnceInv, Return(p)
  PROVE  Unfound(p)'
<1>1. ~Listed(stack[p], "getnewbuf")
  BY DEF OnceInv, Unfound
<1>2. ~On(p, "getnewbuf")'
  BY <1>1, ReturnPlaces
<1>. QED  BY <1>2, Elsewhere DEF On

LEMMA WritesElsewhere ==
  ASSUME CacheInv, NEW p \in Procs, NEW fl, NEW next \in Nexts, next # "getnewbuf",
         ~Listed(stack[p], "getnewbuf"), AfterStrategy(p, fl, next)
  PROVE  Unfound(p)'
<1>1. ~On(p, "getnewbuf")'
  BY WritePlaces
<1>. QED  BY <1>1, Elsewhere DEF On

(* What a process in getnewbuf() asks for has a vnode, unless it is        *)
(* geteblk()'s.                                                            *)
LEMMA SeekerAsks ==
  ASSUME CacheInv, OnceInv, NEW p \in Procs, Seeking(p), want[p].op # "geteblk"
  PROVE  want[p].vp \in Vnodes
<1>1. want[p] \in Asked => want[p].vp \in Vnodes
  BY DEF Asked, Request
<1>2. CASE pc[p] = "getnewbuf"
  BY <1>1, <1>2, AtLabel, Pops DEF CacheInv
<1>3. CASE pc[p] # "getnewbuf"
  <2>1. Listed(stack[p], "getnewbuf") /\ pc[p] = "setage"
    BY <1>3 DEF Seeking, OnceInv, Unfound
  <2>2. /\ PlainStack(Head(stack[p]), Tail(stack[p])) /\ stack[p] \in Seq(Labels)
        /\ Head(stack[p]) # "user" => want[p] \in Asked
    BY <2>1, AtLabel, Pops DEF CacheInv
  <2>3. ASSUME Head(stack[p]) = "user" PROVE FALSE
    <3>1. Tail(stack[p]) = <<>>
      BY <2>2, <2>3 DEF PlainStack, OneDeep, InGetblk
    <3>2. \A i \in DOMAIN stack[p] : i = 1
      BY <2>2, <3>1
    <3>3. \A i \in DOMAIN stack[p] : stack[p][i] = "user"
      BY <2>2, <2>3, <3>2
    <3>. QED  BY <2>1, <3>3 DEF Listed
  <2>. QED  BY <1>1, <2>2, <2>3
<1>. QED  BY <1>2, <1>3

(* What was not found is not there yet. *)
LEMMA StillUnfound ==
  ASSUME NothingNew, NEW v \in Vnodes, NEW k, ~incore(v, k) PROVE ~incore(v, k)'
<1>1. v # None
  BY BufCacheAssumption DEF BufCacheAssumption
<1>2. \A c \in Bufs : c \in Cached(v, k)' => c \in Cached(v, k)
  BY <1>1 DEF Cached, NothingNew, Valid, Has
<1>. QED  BY <1>2 DEF incore, Cached

(* biodone() takes buffers from blocks at most. *)
LEMMA OnceInterrupt ==
  ASSUME CacheInv, OnceInv, NEW b \in Bufs, NEW failed \in BOOLEAN, Biodone(b, failed)
  PROVE  OnceInv'
<1> DEFINE fl == b_flags[b] \cup {"DONE"} \cup (IF failed THEN {"ERROR"} ELSE {})
<1>1. /\ \/ \E C : Free(bfreelist, b_list[b], b, fl, C)
         \/ /\ b_flags' = [b_flags EXCEPT ![b] = fl \ {"WANTED"}]
            /\ UNCHANGED <<b_vp, b_lblkno>>
      /\ UNCHANGED <<cpu, pc, stack, want>>
  BY BiodoneInOrder
<1>2. b_flags[b] \subseteq fl
  OBVIOUS
<1> HIDE DEF fl
<1>3. NothingNew
  <2>1. CASE /\ b_flags' = [b_flags EXCEPT ![b] = fl \ {"WANTED"}]
             /\ UNCHANGED <<b_vp, b_lblkno>>
    <3>1. \A c \in Bufs : Has(c, "INVAL") => Has(c, "INVAL")'
      BY <1>2, <2>1 DEF Has, CacheInv, ControlInv, TypeOK
    <3>. QED  BY <2>1, <3>1, MarksNothing
  <2>. QED  BY <1>1, <1>2, <2>1, FreesNothing
<1>4. ASSUME NEW p \in Procs PROVE Unfound(p)'
  <2>1. Seeking(p) /\ want[p].op # "geteblk" => ~incore(want[p].vp, want[p].blk)'
    BY <1>1, <1>3, SeekerAsks, StillUnfound DEF OnceInv, Unfound
  <2>2. Unfound(p)
    BY DEF OnceInv
  <2>. QED  BY <1>1, <2>1, <2>2 DEF Unfound, Seeking
<1>5. Single'
  BY <1>3 DEF OnceInv, Single, NothingNew
<1>. QED  BY <1>4, <1>5 DEF OnceInv

(* getblk() takes a new buffer for the block it did not find. *)
LEMMA OnceNew ==
  ASSUME CacheInv, CacheInv', OnceInv, NEW p \in Procs, GetnewbufClean(p),
         want[p].op # "geteblk"
  PROVE  OnceInv'
<1>1. PICK b \in Bufs : b = NewBuf
  BY NewBufNotBusy DEF GetnewbufClean, CleanNew
<1>2. /\ pc[p] = "getnewbuf" /\ Return(p)
      /\ b_vp' = [b_vp EXCEPT ![b] = want[p].vp] /\ b_flags' = [b_flags EXCEPT ![b] = {"BUSY"}]
      /\ b_lblkno' = [b_lblkno EXCEPT ![b] = want[p].blk]
  BY <1>1 DEF GetnewbufClean, CleanNew, TakeNew, At
<1>3. Others(p)
  BY StepRuns DEF Step
<1>4. Unfound(p)'
  BY <1>2, ReturnsElsewhere
<1>5. Single'
  <2>1. \A c \in Bufs : Valid(c) /\ b_vp[c] = want[p].vp => b_lblkno[c] # want[p].blk
    BY <1>2 DEF OnceInv, Unfound, Seeking, incore, Cached, Valid, Has
  <2>2. \A c \in Bufs \ {b} : /\ b_vp'[c] = b_vp[c] /\ b_lblkno'[c] = b_lblkno[c]
                              /\ b_flags'[c] = b_flags[c]
    BY <1>2 DEF CacheInv, ControlInv, TypeOK
  <2>3. b_vp'[b] = want[p].vp /\ b_lblkno'[b] = want[p].blk
    BY <1>2 DEF CacheInv, ControlInv, TypeOK
  <2>. QED  BY <2>1, <2>2, <2>3 DEF Single, OnceInv, Valid, Has
<1>. QED  BY <1>3, <1>4, <1>5, OthersWait DEF OnceInv

(* A step that does not sleep in getnewbuf(): p is in getnewbuf() then     *)
(* only if it has just looked for its block, or comes back from the write  *)
(* of a delayed block that was in its way.                                 *)
LEMMA StepSeeks ==
  ASSUME CacheInv, CacheInv', OnceInv, NEW p \in Procs, Enters(p) \/ Step(p), NothingNew,
         NeverShort'
  PROVE  Unfound(p)'
<1> DEFINE In == {"getnewbuf", "setage", "release", "biowait"}
<1>0. /\ pc[p] \notin {"setage"} => ~Listed(stack[p], "getnewbuf")
      /\ pc \in [Procs -> Labels] /\ stack \in [Procs -> Seq(Labels)]
  BY DEF OnceInv, Unfound, CacheInv, ControlInv, TypeOK
<1>1. ASSUME Panic, pc[p] # "getnewbuf", pc[p] # "setage" PROVE Unfound(p)'
  BY <1>0, <1>1, Elsewhere DEF Panic, locals
<1>2. CASE Enters(p)
  <2>1. CASE CallGeteblk(p)
    <3>1. pc'[p] = "getnewbuf" /\ want'[p].op = "geteblk"
      BY <2>1 DEF CallGeteblk, Enter, Goto, Request1, CacheInv, ControlInv, TypeOK
    <3>2. ~Listed(stack'[p], "getnewbuf")
      <4>1. "getnewbuf" \in Labels /\ FrameAt(pc'[p], stack'[p], want'[p], bp'[p])
        BY DEF Labels, CacheInv, ControlInv, Control, Frame
      <4>. QED  BY <3>1, <4>1, PlainList
    <3>. QED  BY <3>1, <3>2 DEF Unfound
  <2>2. CASE ~CallGeteblk(p)
    <3>1. PICK label \in {"getblk", "breada", "vflush", "vinval"} :
            \E op, v, k, ra, z, callers : Enter(p, op, v, k, ra, z, label, callers)
      BY <1>2, <2>2 DEF Enters, CallBread, CallBaddr, CallBreada, CallGetblk, CallVflushbuf,
                  CallVinvalbuf
    <3>2. pc'[p] = label
      BY <1>0, <3>1 DEF Enter, Goto
    <3>. QED  BY <3>2, GoesOn
  <2>. QED  BY <2>1, <2>2
<1>3. CASE GetblkSearch(p)
  <2>1. CASE incore(want[p].vp, want[p].blk)
    <3>1. pc'[p] = "found"
      BY <1>0, <1>3, <2>1 DEF GetblkSearch, Goto
    <3>. QED  BY <3>1, GoesOn
  <2>2. CASE ~incore(want[p].vp, want[p].blk)
    <3>1. /\ cpu' = p /\ UNCHANGED <<stack, want, b_flags, b_vp, b_lblkno>> /\ pc[p] = "getblk"
      BY <1>3, <2>2 DEF GetblkSearch, Goto, bufvars, At
    <3>. QED  BY <1>0, <2>2, <3>1 DEF Unfound, incore, Cached
  <2>. QED  BY <2>1, <2>2
<1>4. CASE GetblkBusy(p) \/ VinvalBusy(p) \/ BreadaStart(p) \/ AheadStart(p) \/ VflushStart(p)
           \/ VinvalScan(p)
  <2>1. \E l \in Labels \ In : pc' = [pc EXCEPT ![p] = l]
    BY <1>4 DEF GetblkBusy, WaitFor, VinvalBusy, BreadaStart, AheadStart, VflushStart, VinvalScan,
                Goto, Sleep, Labels
  <2>. QED  BY <1>0, <2>1, GoesOn
<1>5. CASE GetnewbufSleep(p)
  <2>1. wchan'[p] = FreeChan
    BY <1>5 DEF GetnewbufSleep, Sleep, CacheInv, ControlInv, TypeOK
  <2>. QED  BY <2>1 DEF NeverShort
<1>6. CASE BiowaitSleep(p) \/ VflushSleep(p)
  <2>1. /\ pc[p] \in {"biowait", "vflush_wait"} /\ pc' = [pc EXCEPT ![p] = pc[p]] /\ UNCHANGED stack
    BY <1>6 DEF BiowaitSleep, VflushSleep, At, Sleep, locals
  <2>2. pc'[p] # "getnewbuf" /\ ~Listed(stack'[p], "getnewbuf")
    BY <1>0, <2>1
  <2>. QED  BY <2>2, Elsewhere
<1>7. CASE GetblkHit(p) \/ BiowaitDone(p) \/ Release(p) \/ GetnewbufClean(p)
  <2>1. Return(p) /\ pc[p] \notin {"user", "setage"}
    BY <1>7 DEF GetblkHit, TakeFound, BiowaitDone, Release, GetnewbufClean, CleanNew, TakeNew, At
  <2>. QED  BY <2>1, ReturnsElsewhere
<1>8. CASE Bread(p)
  <2>1. pc[p] = "bread" /\ (Return(p) \/ (pc' = [pc EXCEPT ![p] = "biowait"] /\ UNCHANGED stack))
    BY <1>8 DEF Bread, At, Goto
  <2>2. pc' = [pc EXCEPT ![p] = "biowait"] /\ UNCHANGED stack => Unfound(p)'
    BY <1>0, <2>1, Elsewhere
  <2>. QED  BY <2>1, <2>2, ReturnsElsewhere
<1>9. CASE Breada(p) \/ BreadaAhead(p) \/ BreadaEnd(p)
  <2>1. /\ pc[p] # "setage"
        /\ \/ \E l \in Labels \ In : pc' = [pc EXCEPT ![p] = l]
           \/ pc' = [pc EXCEPT ![p] = "biowait"] /\ UNCHANGED stack
    BY <1>9 DEF Breada, BreadaAhead, BreadaEnd, At, Goto, Call, Labels
  <2>2. pc' = [pc EXCEPT ![p] = "biowait"] /\ UNCHANGED stack => Unfound(p)'
    BY <1>0, <2>1, Elsewhere
  <2>. QED  BY <1>0, <2>1, <2>2, GoesOn
<1>10. CASE VflushSkip(p)
  BY <1>0, <1>10, Elsewhere DEF VflushSkip, At
<1>11. CASE VflushScanned(p) \/ VflushDone(p) \/ VinvalList(p)
  <2>1. /\ pc[p] \notin {"user", "setage"}
        /\ Return(p) \/ \E l \in Labels \ In : pc' = [pc EXCEPT ![p] = l]
    BY <1>11 DEF VflushScanned, VflushDone, VinvalList, At, Goto, Labels
  <2>. QED  BY <1>0, <2>1, GoesOn, ReturnsElsewhere
<1>12. CASE GetblkStray(p) \/ VinvalSave(p)
  <2>1. /\ pc[p] \notin {"getnewbuf", "setage"}
        /\ Panic \/ \E fl : \E next \in Nexts : next # "getnewbuf" /\ AfterStrategy(p, fl, next)
    BY <1>12 DEF GetblkStray, WriteStray, VinvalSave, At, Nexts
  <2>. QED  BY <1>0, <1>1, <2>1, WritesElsewhere
<1>13. CASE VflushWrite(p)
  <2>1. /\ pc[p] \notin {"getnewbuf", "setage"}
        /\ Panic \/ \E fl : \E next \in Nexts : next # "getnewbuf" /\ AfterStrategy(p, fl, next)
    BY <1>13 DEF VflushWrite, At, Nexts
  <2>. QED  BY <1>0, <1>1, <2>1, WritesElsewhere
<1>14. CASE VinvalDrop(p)
  <2>1. /\ pc[p] = "vinval_take"
        /\ Panic \/ \E l \in Labels \ In : pc' = [pc EXCEPT ![p] = l]
    BY <1>14 DEF VinvalDrop, Invalidate, At, Goto, Labels
  <2>. QED  BY <1>0, <1>1, <2>1, GoesOn
<1>15. CASE UserBrelse(p) \/ UserIndirect(p)
  <2>1. pc[p] = "user" /\ UNCHANGED pc
    BY <1>15 DEF UserBrelse, UserIndirect, MayWrite, Holding, At
  <2>. QED  BY <2>1, GoesOn
<1>16. CASE UserBwrite(p) \/ UserBdwrite(p)
  <2>1. pc[p] = "user" /\ "user" \in Nexts
    BY <1>16 DEF UserBwrite, UserBdwrite, MayWrite, Holding, At, Nexts
  <2>2. Panic \/ UNCHANGED pc \/ \E fl : AfterStrategy(p, fl, "user")
    BY <1>16 DEF UserBwrite, UserBdwrite
  <2>. QED  BY <1>0, <1>1, <2>1, <2>2, GoesOn, WritesElsewhere
<1>17. CASE GetnewbufDirty(p)
  <2> DEFINE fl == b_flags[NewBuf] \cup {"BUSY", "ASYNC"}
  <2>1. /\ pc[p] = "getnewbuf" /\ AfterStrategy(p, fl, "getnewbuf") /\ Has(NewBuf, "DELWRI")
        /\ UNCHANGED want
    BY <1>17 DEF GetnewbufDirty, At
  <2>2. "ASYNC" \in fl /\ "DELWRI" \in fl
    BY <2>1 DEF Has
  <2>3. pc' = [pc EXCEPT ![p] = "setage"] /\ cpu' = p
    BY <2>1, <2>2 DEF AfterStrategy, Call, Goto
  <2>4. want[p].op # "geteblk" => ~incore(want[p].vp, want[p].blk)'
    BY <2>1, SeekerAsks, StillUnfound DEF OnceInv, Unfound, Seeking
  <2>. QED  BY <1>0, <2>1, <2>3, <2>4 DEF Unfound
<1>18. CASE SetAge(p)
  <2>1. pc[p] = "setage" /\ Return(p) /\ UNCHANGED want
    BY <1>18 DEF SetAge, At
  <2>2. pc'[p] = Head(stack[p]) /\ Head(stack[p]) \in Nexts /\ stack[p] \in Seq(Labels)
    BY <2>1, ReturnLocal, AtLabel, Pops DEF CacheInv
  <2>3. CASE Head(stack[p]) = "getnewbuf"
    <3>1. cpu' = p
      BY <2>1, <2>3 DEF Return
    <3>2. stack[p] # <<>>
      <4>1. WriteStack(stack[p], want[p])
        BY <2>1, AtLabel DEF CacheInv, FrameAt, PlainStack, OneDeep, InGetblk
      <4>2. \A a \in Nexts, t \in Seq(Labels) : <<a>> \o t # <<>>
        <5>1. Nexts \subseteq Labels
          BY DEF Nexts, Labels
        <5>. QED  BY <5>1, PushPop
      <4>. QED  BY <4>1, <4>2, Zenon DEF WriteStack
    <3>3. 1 \in DOMAIN stack[p] /\ stack[p][1] = "getnewbuf"
      BY <2>2, <2>3, <3>2
    <3>4. Seeking(p)
      BY <3>3 DEF Seeking, Listed
    <3>5. want[p].op # "geteblk" => ~incore(want[p].vp, want[p].blk)'
      BY <2>1, <3>4, SeekerAsks, StillUnfound DEF OnceInv, Unfound
    <3>6. ~Listed(stack'[p], "getnewbuf")
      <4>1. "getnewbuf" \in Labels /\ FrameAt(pc'[p], stack'[p], want'[p], bp'[p])
        BY DEF Labels, CacheInv, ControlInv, Control, Frame
      <4>. QED  BY <2>2, <2>3, <4>1, PlainList
    <3>. QED  BY <2>1, <3>1, <3>5, <3>6 DEF Unfound
  <2>4. CASE Head(stack[p]) # "getnewbuf"
    BY <2>2, <2>4, GoesOn DEF Nexts
  <2>. QED  BY <2>3, <2>4
<1>. QED  BY <1>2, <1>3, <1>4, <1>5, <1>6, <1>7, <1>8, <1>9, <1>10, <1>11, <1>12, <1>13, <1>14,
             <1>15, <1>16, <1>17, <1>18 DEF Step

LEMMA OnceInit ==
  ASSUME Init PROVE OnceInv
<1>1. ~Listed(<<>>, "getnewbuf")
  BY DEF Listed
<1>. QED  BY <1>1 DEF Init, OnceInv, Single, Valid, Unfound, Seeking

LEMMA OnceNext ==
  ASSUME CacheInv, CacheInv', OnceInv, [Next]_vars, NeverShort' PROVE OnceInv'
<1>1. CASE UNCHANGED vars
  <2>1. UNCHANGED <<b_flags, b_vp, b_lblkno, cpu, pc, stack, want>>
    BY <1>1 DEF vars, bufvars, locals
  <2>. QED  BY <2>1 DEF OnceInv, Single, Valid, Unfound, Seeking, incore, Cached, Has
<1>2. ASSUME NEW b \in Bufs, Interrupt(b) PROVE OnceInv'
  BY <1>2, OnceInterrupt DEF Interrupt
<1>3. ASSUME NEW p \in Procs, Enters(p) \/ Step(p) PROVE OnceInv'
  <2>1. CASE GetnewbufClean(p) /\ want[p].op # "geteblk"
    BY <2>1, OnceNew
  <2>2. CASE ~(GetnewbufClean(p) /\ want[p].op # "geteblk")
    BY <1>3, <2>2, StepNew, StepRuns, StepSeeks, OnceStep
  <2>. QED  BY <2>1, <2>2
<1>. QED  BY <1>1, <1>2, <1>3 DEF Next, Halted

LEMMA OnceAlways == Spec /\ []NeverShort => []OnceInv
<1>1. CacheInv /\ CacheInv' /\ OnceInv /\ [Next]_vars /\ NeverShort' => OnceInv'
  BY OnceNext
<1>. QED  BY <1>1, OnceInit, CacheAlways, PTL DEF Spec

(* As long as getnewbuf() finds a buffer and need not sleep, no block ever *)
(* has two buffers, with or without disk errors and for blocks of any      *)
(* size: between getblk()'s search and its bgetvp() the process may start  *)
(* any number of delayed writes, and be interrupted, but nobody else gets  *)
(* to associate the block.                                                 *)
THEOREM NoDuplicateBuffers == Spec /\ []NeverShort => []OneBufferPerBlock
<1>1. OnceInv => OneBufferPerBlock
  <2> SUFFICES ASSUME OnceInv, NEW v \in Vnodes, NEW k \in Blks
               PROVE  Cardinality(Cached(v, k)) <= 1
    BY DEF OneBufferPerBlock
  <2>1. v # None
    BY BufCacheAssumption DEF BufCacheAssumption
  <2>2. \A b, c \in Cached(v, k) : b = c
    BY <2>1 DEF Cached, OnceInv, Single, Valid, Has
  <2>3. CASE Cached(v, k) = {}
    BY <2>3, FS_EmptySet
  <2>4. CASE Cached(v, k) # {}
    <3>1. PICK b \in Cached(v, k) : TRUE
      BY <2>4
    <3>2. Cached(v, k) = {b}
      BY <2>2, <3>1
    <3>3. Cardinality(Cached(v, k)) = 1
      BY <3>2, FS_Singleton
    <3>. QED  BY <3>3
  <2>. QED  BY <2>3, <2>4
<1>. QED  BY <1>1, OnceAlways, PTL

-----------------------------------------------------------------------------
(* Contents.                                                               *)

(* No buffer of another size is found: what a block is asked for with is   *)
(* the size it has in the cache.                                           *)
Fitting ==
  \A p \in Procs : pc[p] = "found" /\ ~Has(bp[p], "BUSY") => b_bcount[bp[p]] = want[p].size

(* An invalid buffer has no vnode; what is being written, and what has     *)
(* contents, is what was last written to the block.                        *)
Sound(b) ==
  /\ Has(b, "INVAL") => b_vp[b] = None
  /\ b \in io /\ ~Has(b, "READ") => b_fresh[b]
  /\ b_vp[b] # None => b_lblkno[b] \in Blks /\ (Has(b, "DONE") => b_fresh[b])

(* b will bring what was last written to block k to the disk. *)
Carries(b, k) == /\ <<b_vp[b], b_lblkno[b]>> = k /\ b_fresh[b]
                 /\ Has(b, "DELWRI") \/ (b \in io /\ ~Has(b, "READ"))

Safe(k) == d_fresh[k] \/ \E b \in Bufs : Carries(b, k)

Coherent == (\A b \in Bufs : Sound(b)) /\ \A k \in Blocks : Safe(k)

-----------------------------------------------------------------------------
(* The kinds of steps.                                                     *)

(* What the contents of c depend on stays. *)
Kept(c) == /\ b_vp'[c] = b_vp[c] /\ b_lblkno'[c] = b_lblkno[c] /\ b_fresh'[c] = b_fresh[c]
           /\ c \in io' <=> c \in io
           /\ \A f \in {"INVAL", "READ", "DONE", "DELWRI"} : f \in b_flags'[c] <=> f \in b_flags[c]

LEMMA KeptSound ==
  ASSUME NEW c \in Bufs, Kept(c)
  PROVE  (Sound(c) => Sound(c)') /\ \A k : Carries(c, k) => Carries(c, k)'
<1>1. \A f \in {"INVAL", "READ", "DONE", "DELWRI"} : Has(c, f)' <=> Has(c, f)
  BY DEF Kept, Has
<1>2. Sound(c) => Sound(c)'
  BY <1>1 DEF Kept, Sound
<1>3. \A k : Carries(c, k) => Carries(c, k)'
  BY <1>1 DEF Kept, Carries
<1>. QED  BY <1>2, <1>3

(* Nothing happens to the contents of any buffer. *)
LEMMA StillCoherent ==
  ASSUME Coherent, \A c \in Bufs : Kept(c), UNCHANGED d_fresh PROVE Coherent'
<1>1. \A c \in Bufs : Sound(c)'
  BY KeptSound DEF Coherent
<1>2. ASSUME NEW k \in Blocks PROVE Safe(k)'
  BY KeptSound DEF Coherent, Safe
<1>. QED  BY <1>1, <1>2 DEF Coherent

(* Something happens to b. *)
LEMMA OneCoherent ==
  ASSUME Coherent, NEW b \in Bufs, \A c \in Bufs \ {b} : Kept(c), Sound(b)',
         \A k \in Blocks : d_fresh[k] \/ Carries(b, k) => d_fresh'[k] \/ Carries(b, k)'
  PROVE  Coherent'
<1>1. \A c \in Bufs : Sound(c)'
  BY KeptSound DEF Coherent
<1>2. ASSUME NEW k \in Blocks PROVE Safe(k)'
  <2>1. CASE d_fresh[k] \/ Carries(b, k)
    BY <2>1 DEF Safe
  <2>2. CASE \E c \in Bufs \ {b} : Carries(c, k)
    BY <2>2, KeptSound DEF Safe
  <2>. QED  BY <2>1, <2>2 DEF Coherent, Safe
<1>. QED  BY <1>1, <1>2 DEF Coherent

(* A buffer is handed to the driver for reading, or has its contents. *)
LEMMA ReadCoherent ==
  ASSUME CacheInv, Coherent, NEW b \in Bufs, b \notin io, NEW extra \in SUBSET {"ASYNC"},
         StartRead(b, extra), UNCHANGED <<b_vp, b_lblkno, b_fresh, d_fresh>>
  PROVE  Coherent'
<1>1. CASE b_flags[b] \cap {"DONE", "DELWRI"} # {}
  <2>1. UNCHANGED <<b_flags, io>>
    BY <1>1 DEF StartRead
  <2>. QED  BY <2>1, StillCoherent DEF Kept
<1>2. CASE b_flags[b] \cap {"DONE", "DELWRI"} = {}
  <2>1. b_flags' = [b_flags EXCEPT ![b] = @ \cup {"READ"} \cup extra] /\ io' = io \cup {b}
    BY <1>2 DEF StartRead
  <2>2. /\ b_flags'[b] = b_flags[b] \cup {"READ"} \cup extra
        /\ \A c \in Bufs \ {b} : b_flags'[c] = b_flags[c]
    BY <2>1 DEF CacheInv, ControlInv, TypeOK
  <2>3. \A c \in Bufs \ {b} : Kept(c)
    BY <2>1, <2>2 DEF Kept
  <2>4. Sound(b)
    BY DEF Coherent
  <2>5. Sound(b)'
    BY <1>2, <2>1, <2>2, <2>4 DEF Sound, Has
  <2>6. \A k : ~Carries(b, k)
    BY <1>2 DEF Carries, Has
  <2>. QED  BY <2>3, <2>5, <2>6, OneCoherent
<1>. QED  BY <1>1, <1>2

(* A buffer is released as it is. *)
LEMMA FreeCoherent ==
  ASSUME CacheInv, BlockInv, Coherent, NEW b \in Bufs, b \notin io, NEW free, NEW l, NEW fl, NEW C,
         Free(free, l, b, fl, C), b_flags[b] \subseteq fl, fl \subseteq b_flags[b] \cup {"BUSY"},
         UNCHANGED <<io, b_fresh, d_fresh>>
  PROVE  Coherent'
<1>1. "ERROR" \notin fl /\ Sound(b)
  BY DEF BlockInv, Intact, Has, Coherent
<1> DEFINE bad == fl \cap {"ERROR", "INVAL"} # {}
<1>2. bad <=> Has(b, "INVAL")
  BY <1>1 DEF Has
<1>3. /\ b_vp'[b] = IF bad THEN None ELSE b_vp[b]
      /\ \A f \in {"INVAL", "READ", "DONE"} : f \in b_flags'[b] <=> f \in fl
      /\ "DELWRI" \in b_flags'[b] <=> "DELWRI" \in fl /\ ~bad
      /\ \A c \in Bufs \ {b} : b_vp'[c] = b_vp[c] /\ b_flags'[c] = b_flags[c]
      /\ UNCHANGED b_lblkno
  <2>1. /\ b_flags'[b] = (fl \cup (IF "ERROR" \in fl THEN {"INVAL"} ELSE {})) \
                    ({"WANTED", "BUSY", "ASYNC", "AGE"} \cup (IF bad THEN {"DELWRI"} ELSE {}))
        /\ b_vp'[b] = IF bad THEN None ELSE b_vp[b]
    BY DEF Free, CacheInv, ControlInv, TypeOK
  <2>2. \A c \in Bufs \ {b} : b_vp'[c] = b_vp[c] /\ b_flags'[c] = b_flags[c]
    BY DEF Free, CacheInv, ControlInv, TypeOK
  <2>3. UNCHANGED b_lblkno
    BY DEF Free
  <2>. QED  BY <1>1, <2>1, <2>2, <2>3
<1>4. \A f \in {"INVAL", "READ", "DONE", "DELWRI"} : f \in fl <=> Has(b, f)
  BY DEF Has
<1> HIDE DEF bad
<1>5. \A c \in Bufs \ {b} : Kept(c)
  BY <1>3 DEF Kept
<1>6. Sound(b)'
  BY <1>1, <1>2, <1>3, <1>4 DEF Sound, Has
<1>7. ASSUME NEW k \in Blocks, Carries(b, k) PROVE Carries(b, k)'
  <2>1. b_vp[b] # None
    BY <1>7, BufCacheAssumption DEF Carries, Blocks, BufCacheAssumption
  <2>2. ~bad
    BY <1>1, <1>2, <2>1 DEF Sound
  <2>. QED  BY <1>3, <1>4, <1>7, <2>2 DEF Carries, Has
<1>. QED  BY <1>5, <1>6, <1>7, OneCoherent

(* What a process writes into a block changes no other buffer. *)
LEMMA ModifyAlone ==
  ASSUME CacheInv, OnceInv, Coherent, NEW b \in Bufs, b_vp[b] # None, Modify(b)
  PROVE  /\ b_fresh'[b] = TRUE /\ \A c \in Bufs \ {b} : b_fresh'[c] = b_fresh[c]
         /\ \A k \in Blocks : k # <<b_vp[b], b_lblkno[b]>> => d_fresh'[k] = d_fresh[k]
<1>1. b_fresh'[b] = TRUE
  BY DEF Modify
<1>2. ASSUME NEW c \in Bufs \ {b} PROVE b_fresh'[c] = b_fresh[c]
  <2>1. b_vp[c] # None => Valid(c)
    BY DEF Coherent, Sound, Valid
  <2>2. Valid(b)
    BY DEF Coherent, Sound, Valid
  <2>3. <<b_vp[c], b_lblkno[c]>> # <<b_vp[b], b_lblkno[b]>>
    BY <2>1, <2>2 DEF OnceInv, Single
  <2>4. b_fresh'[c] = (b_fresh[c] /\ <<b_vp[c], b_lblkno[c]>> # <<b_vp[b], b_lblkno[b]>>)
    BY DEF Modify
  <2>5. b_fresh[c] \in BOOLEAN
    BY DEF CacheInv, ControlInv, TypeOK
  <2>. QED  BY <2>3, <2>4, <2>5
<1>3. \A k \in Blocks : k # <<b_vp[b], b_lblkno[b]>> => d_fresh'[k] = d_fresh[k]
  BY DEF Modify, CacheInv, ControlInv, TypeOK
<1>. QED  BY <1>1, <1>2, <1>3

(* A buffer is handed to the driver for writing. *)
LEMMA WriteCoherent ==
  ASSUME CacheInv, Coherent, NEW b \in Bufs, NEW fl, bwrite(b, fl), b_vp[b] # None,
         "INVAL" \notin fl, b_fresh'[b], \A c \in Bufs \ {b} : b_fresh'[c] = b_fresh[c],
         \A k \in Blocks : k # <<b_vp[b], b_lblkno[b]>> => d_fresh'[k] = d_fresh[k]
  PROVE  Coherent'
<1>1. /\ b_flags'[b] = fl \ {"READ", "DONE", "ERROR", "DELWRI"}
      /\ \A c \in Bufs \ {b} : b_flags'[c] = b_flags[c]
      /\ UNCHANGED <<b_vp, b_lblkno>> /\ io' = io \cup {b}
  BY DEF bwrite, StartWrite, CacheInv, ControlInv, TypeOK
<1>2. \A c \in Bufs \ {b} : Kept(c)
  BY <1>1 DEF Kept
<1>3. Sound(b)'
  BY <1>1 DEF Coherent, Sound, Has
<1>4. Carries(b, <<b_vp[b], b_lblkno[b]>>)'
  BY <1>1 DEF Carries, Has
<1>5. \A k \in Blocks : d_fresh[k] \/ Carries(b, k) => d_fresh'[k] \/ Carries(b, k)'
  <2> SUFFICES ASSUME NEW k \in Blocks, d_fresh[k] \/ Carries(b, k)
               PROVE  d_fresh'[k] \/ Carries(b, k)'
    OBVIOUS
  <2>1. CASE k = <<b_vp[b], b_lblkno[b]>>
    BY <1>1, <1>4, <2>1
  <2>2. CASE k # <<b_vp[b], b_lblkno[b]>>
    BY <2>2 DEF Carries
  <2>. QED  BY <2>1, <2>2
<1>. QED  BY <1>2, <1>3, <1>5, OneCoherent

(* A buffer is released with its write delayed. *)
LEMMA DelayCoherent ==
  ASSUME CacheInv, Coherent, NEW b \in Bufs, NEW free, NEW l, NEW fl, NEW C,
         Free(free, l, b, fl, C), b_vp[b] # None, b \notin io, UNCHANGED io,
         fl \cap {"ERROR", "INVAL"} = {}, "DELWRI" \in fl,
         b_fresh'[b], \A c \in Bufs \ {b} : b_fresh'[c] = b_fresh[c],
         \A k \in Blocks : k # <<b_vp[b], b_lblkno[b]>> => d_fresh'[k] = d_fresh[k]
  PROVE  Coherent'
<1>1. /\ "INVAL" \notin b_flags'[b] /\ "DELWRI" \in b_flags'[b] /\ b_vp'[b] = b_vp[b]
      /\ \A c \in Bufs \ {b} : b_flags'[c] = b_flags[c] /\ b_vp'[c] = b_vp[c]
      /\ UNCHANGED b_lblkno
  <2>1. /\ b_flags'[b] = (fl \cup (IF "ERROR" \in fl THEN {"INVAL"} ELSE {})) \
                    ({"WANTED", "BUSY", "ASYNC", "AGE"} \cup {})
        /\ b_vp'[b] = b_vp[b]
    BY DEF Free, CacheInv, ControlInv, TypeOK
  <2>2. \A c \in Bufs \ {b} : b_vp'[c] = b_vp[c] /\ b_flags'[c] = b_flags[c]
    BY DEF Free, CacheInv, ControlInv, TypeOK
  <2>. QED  BY <2>1, <2>2 DEF Free
<1>2. \A c \in Bufs \ {b} : Kept(c)
  BY <1>1 DEF Kept
<1>3. Sound(b)'
  BY <1>1 DEF Coherent, Sound, Has
<1>4. Carries(b, <<b_vp[b], b_lblkno[b]>>)'
  BY <1>1 DEF Carries, Has
<1>5. \A k \in Blocks : d_fresh[k] \/ Carries(b, k) => d_fresh'[k] \/ Carries(b, k)'
  <2> SUFFICES ASSUME NEW k \in Blocks, d_fresh[k] \/ Carries(b, k)
               PROVE  d_fresh'[k] \/ Carries(b, k)'
    OBVIOUS
  <2>1. CASE k = <<b_vp[b], b_lblkno[b]>>
    BY <1>1, <1>4, <2>1
  <2>2. CASE k # <<b_vp[b], b_lblkno[b]>>
    BY <2>2 DEF Carries
  <2>. QED  BY <2>1, <2>2
<1>. QED  BY <1>2, <1>3, <1>5, OneCoherent

(* getnewbuf() takes a clean buffer from its block, for a new one or for   *)
(* geteblk().                                                              *)
LEMMA NewCoherent ==
  ASSUME CacheInv, BlockInv, Coherent, NEW p \in Procs, GetnewbufClean(p),
         want[p].op # "geteblk" => want[p].blk \in Blks
  PROVE  Coherent'
<1>1. PICK b \in Bufs : b = NewBuf /\ ~Has(b, "BUSY") /\ ~Has(b, "DELWRI") /\ b \notin io
  BY NewBufNotBusy DEF GetnewbufClean, CleanNew, CacheInv, OwnInv, BufOK
<1>2. pc[p] = "getnewbuf" /\ (want[p].op = "geteblk" <=> want[p].vp = None)
  BY AtLabel, Pops DEF GetnewbufClean, CleanNew, At, CacheInv, Asked
<1>3. PICK fl, l, k :
        /\ TakeNew(p, b, fl, l, k) /\ fl \in {{"BUSY"}, {"BUSY", "INVAL"}}
        /\ want[p].op # "geteblk" => fl = {"BUSY"} /\ k = want[p].blk
  BY <1>1 DEF GetnewbufClean
<1>4. /\ b_flags' = [b_flags EXCEPT ![b] = fl] /\ b_vp' = [b_vp EXCEPT ![b] = want[p].vp]
      /\ b_lblkno' = [b_lblkno EXCEPT ![b] = k] /\ b_fresh' = [b_fresh EXCEPT ![b] = FALSE]
      /\ UNCHANGED <<io, d_fresh>>
  BY <1>3 DEF TakeNew
<1>5. /\ b_flags'[b] = fl /\ b_vp'[b] = want[p].vp /\ b_lblkno'[b] = k
      /\ \A c \in Bufs \ {b} : Kept(c)
  BY <1>4 DEF Kept, CacheInv, ControlInv, TypeOK
<1>6. Sound(b)'
  BY <1>1, <1>2, <1>3, <1>4, <1>5 DEF Sound, Has
<1>7. \A k2 : ~Carries(b, k2)
  BY <1>1 DEF Carries
<1>. QED  BY <1>4, <1>5, <1>6, <1>7, OneCoherent

(* vinvalbuf() drops a buffer, or hands an indirect block back to its      *)
(* device.                                                                 *)
LEMMA DropCoherent ==
  ASSUME CacheInv, BlockInv, Coherent, NEW p \in Procs, VinvalDrop(p),
         want[p].op \in {"vinvalsave", "vinvaltrunc"}
  PROVE  Coherent'
<1>1. pc[p] = "vinval_take" /\ ~Has(bp[p], "BUSY") /\ Invalidate(p)
  BY DEF VinvalDrop, Invalidate, At
<1>2. PICK b \in Bufs : b = bp[p] /\ b_list[b] # None
  BY <1>1, AtLabel DEF BlockInv, Walk, PointerAt, Pointing, CacheInv, ControlInv, TypeOK
<1> DEFINE fl == (b_flags[b] \cup {"BUSY"}) \cup
                 (IF b_vp[b] = want[p].vp THEN {"INVAL"} ELSE {})
           kb == <<b_vp[b], b_lblkno[b]>>
<1>3. b_vp[b] # None /\ b \notin io
  BY <1>1, <1>2 DEF CacheInv, ControlInv, ListsAgree, OwnInv, BufOK
<1>4. /\ \E free, l, C : Free(free, l, b, fl, C)
      /\ UNCHANGED <<io, b_fresh>>
      /\ d_fresh' = IF Has(b, "DELWRI") /\ "INVAL" \in fl /\ want[p].op = "vinvaltrunc"
                    THEN [d_fresh EXCEPT ![kb] = TRUE] ELSE d_fresh
  BY <1>1, <1>2, <1>3 DEF Invalidate, brelseFrom
<1>5. Has(b, "DELWRI") => want[p].op = "vinvaltrunc"
  BY <1>2 DEF VinvalDrop
<1>6. Sound(b) /\ "INVAL" \notin b_flags[b]
  BY <1>3 DEF Coherent, Sound, Has
<1>7. CASE b_vp[b] # want[p].vp
  <2>1. fl = b_flags[b] \cup {"BUSY"} /\ "INVAL" \notin fl
    BY <1>6, <1>7
  <2>2. UNCHANGED d_fresh
    BY <1>4, <2>1
  <2>. QED  BY <1>3, <1>4, <2>1, <2>2, FreeCoherent
<1>8. CASE b_vp[b] = want[p].vp
  <2>1. "INVAL" \in fl
    BY <1>8
  <2>2. PICK free, l, C : Free(free, l, b, fl, C)
    BY <1>4
  <2>3. fl \cap {"ERROR", "INVAL"} # {}
    BY <2>1
  <2> HIDE DEF fl
  <2>4. b_vp'[b] = None /\ \A c \in Bufs \ {b} : b_vp'[c] = b_vp[c] /\ b_flags'[c] = b_flags[c]
    BY <2>2, <2>3 DEF Free, CacheInv, ControlInv, TypeOK
  <2>5. \A c \in Bufs \ {b} : Kept(c)
    BY <1>4, <2>2, <2>4 DEF Kept, Free
  <2>6. Sound(b)'
    BY <1>3, <1>4, <2>4 DEF Sound
  <2>7. ASSUME NEW k \in Blocks, d_fresh[k] \/ Carries(b, k) PROVE d_fresh'[k]
    <3>1. d_fresh \in [Blocks -> BOOLEAN]
      BY DEF CacheInv, ControlInv, TypeOK
    <3>2. CASE Has(b, "DELWRI")
      <4>1. d_fresh' = [d_fresh EXCEPT ![kb] = TRUE]
        BY <1>4, <1>5, <2>1, <3>2
      <4>2. k = kb \/ d_fresh[k]
        BY <2>7 DEF Carries
      <4>. QED  BY <3>1, <4>1, <4>2
    <3>3. CASE ~Has(b, "DELWRI")
      <4>1. ~Carries(b, k)
        BY <1>3, <3>3 DEF Carries
      <4>. QED  BY <1>4, <2>7, <3>3, <4>1
    <3>. QED  BY <3>2, <3>3
  <2>. QED  BY <2>5, <2>6, <2>7, OneCoherent
<1>. QED  BY <1>7, <1>8

(* The disk has read or written a block. *)
LEMMA BiodoneCoherent ==
  ASSUME CacheInv, BlockInv, OnceInv, Coherent, NEW b \in Bufs, Biodone(b, FALSE)
  PROVE  Coherent'
<1> DEFINE fl == b_flags[b] \cup {"DONE"} \cup (IF FALSE THEN {"ERROR"} ELSE {})
           kb == <<b_vp[b], b_lblkno[b]>>
<1>1. /\ b \in io /\ io' = io \ {b} /\ ~Has(b, "DONE")
      /\ \/ "ASYNC" \in b_flags[b] /\ \E C : Free(bfreelist, b_list[b], b, fl, C)
         \/ /\ b_flags' = [b_flags EXCEPT ![b] = fl \ {"WANTED"}]
            /\ UNCHANGED <<b_vp, b_lblkno>>
      /\ UNCHANGED panicked
  BY BiodoneInOrder
<1>2. ~Panic
  BY <1>1 DEF Panic, BlockInv
<1>3. IF ~Has(b, "READ")
      THEN d_fresh' = [d_fresh EXCEPT ![kb] = b_fresh[b]] /\ UNCHANGED b_fresh
      ELSE b_fresh' = [b_fresh EXCEPT ![b] = ~FALSE /\ d_fresh[kb]] /\ UNCHANGED d_fresh
  <2>1. "READ" \notin fl <=> ~Has(b, "READ")
    BY DEF Has
  <2>2. IF "READ" \notin fl
        THEN /\ d_fresh' = IF FALSE THEN d_fresh ELSE [d_fresh EXCEPT ![kb] = b_fresh[b]]
             /\ UNCHANGED b_fresh
        ELSE b_fresh' = [b_fresh EXCEPT ![b] = ~FALSE /\ d_fresh[kb]] /\ UNCHANGED d_fresh
    BY <1>2, Zenon DEF Biodone
  <2>. QED  BY <2>1, <2>2
<1>4. Sound(b) /\ Intact(b) /\ ~Has(b, "DELWRI")
  BY <1>1 DEF Coherent, BlockInv, CacheInv, OwnInv, BufOK
<1>5. fl = b_flags[b] \cup {"DONE"}
  OBVIOUS
<1> HIDE DEF fl
<1>6. /\ UNCHANGED <<b_vp, b_lblkno>> /\ \A c \in Bufs \ {b} : b_flags'[c] = b_flags[c]
      /\ \A f \in {"INVAL", "READ", "DELWRI"} : f \in b_flags'[b] <=> f \in b_flags[b]
  <2>1. ASSUME "ASYNC" \in b_flags[b], NEW C, Free(bfreelist, b_list[b], b, fl, C)
        PROVE  /\ UNCHANGED <<b_vp, b_lblkno>> /\ \A c \in Bufs \ {b} : b_flags'[c] = b_flags[c]
               /\ \A f \in {"INVAL", "READ", "DELWRI"} : f \in b_flags'[b] <=> f \in b_flags[b]
    <3>1. "INVAL" \notin fl /\ "ERROR" \notin fl /\ fl \cap {"ERROR", "INVAL"} = {}
      BY <1>4, <1>5, <2>1 DEF Intact, Has
    <3>2. /\ b_flags' = [b_flags EXCEPT ![b] = (fl \cup {}) \ ({"WANTED", "BUSY", "ASYNC", "AGE"} \cup {})]
          /\ b_vp' = [b_vp EXCEPT ![b] = @] /\ UNCHANGED b_lblkno
      BY <2>1, <3>1 DEF Free
    <3>3. b_flags'[b] = (fl \cup {}) \ ({"WANTED", "BUSY", "ASYNC", "AGE"} \cup {})
      BY <3>2 DEF CacheInv, ControlInv, TypeOK
    <3>4. UNCHANGED b_vp /\ \A c \in Bufs \ {b} : b_flags'[c] = b_flags[c]
      BY <3>2 DEF CacheInv, ControlInv, TypeOK
    <3>. QED  BY <1>5, <3>2, <3>3, <3>4
  <2>2. ASSUME b_flags' = [b_flags EXCEPT ![b] = fl \ {"WANTED"}]
        PROVE  /\ \A c \in Bufs \ {b} : b_flags'[c] = b_flags[c]
               /\ \A f \in {"INVAL", "READ", "DELWRI"} : f \in b_flags'[b] <=> f \in b_flags[b]
    <3>1. b_flags'[b] = fl \ {"WANTED"}
      BY <2>2 DEF CacheInv, ControlInv, TypeOK
    <3>. QED  BY <1>5, <2>2, <3>1 DEF CacheInv, ControlInv, TypeOK
  <2>. QED  BY <1>1, <2>1, <2>2
<1>7. b_fresh \in [Bufs -> BOOLEAN] /\ d_fresh \in [Blocks -> BOOLEAN]
  BY DEF CacheInv, ControlInv, TypeOK
<1>8. \A c \in Bufs \ {b} : Kept(c)
  BY <1>1, <1>3, <1>6, <1>7 DEF Kept
<1>9. CASE ~Has(b, "READ")
  <2>1. b_fresh[b] /\ b_fresh'[b] /\ d_fresh' = [d_fresh EXCEPT ![kb] = b_fresh[b]]
    BY <1>1, <1>3, <1>4, <1>9 DEF Sound
  <2>2. Sound(b)'
    BY <1>1, <1>4, <1>6, <2>1 DEF Sound, Has
  <2>3. ASSUME NEW k \in Blocks, d_fresh[k] \/ Carries(b, k) PROVE d_fresh'[k]
    <3>1. d_fresh[k] \/ k = kb
      BY <2>3 DEF Carries
    <3>. QED  BY <1>7, <2>1, <3>1
  <2>. QED  BY <1>8, <2>2, <2>3, OneCoherent
<1>10. CASE Has(b, "READ")
  <2>1. UNCHANGED d_fresh /\ b_fresh' = [b_fresh EXCEPT ![b] = ~FALSE /\ d_fresh[kb]]
    BY <1>3, <1>10
  <2>2. ASSUME b_vp[b] # None PROVE b_fresh'[b]
    <3>1. kb \in Blocks
      BY <1>4, <2>2 DEF Sound, Blocks, CacheInv, ControlInv, TypeOK
    <3>2. ASSUME NEW c \in Bufs, Carries(c, kb) PROVE FALSE
      <4>1. b_vp[c] = b_vp[b] /\ b_lblkno[c] = b_lblkno[b]
        BY <3>2 DEF Carries
      <4>2. Valid(c) /\ Valid(b)
        BY <2>2, <4>1 DEF Coherent, Sound, Valid
      <4>3. c = b
        BY <4>1, <4>2 DEF OnceInv, Single
      <4>. QED  BY <1>4, <1>10, <3>2, <4>3 DEF Carries
    <3>3. d_fresh[kb]
      BY <3>1, <3>2 DEF Coherent, Safe
    <3>. QED  BY <1>7, <2>1, <3>3
  <2>3. Sound(b)'
    BY <1>1, <1>4, <1>6, <1>10, <2>2 DEF Sound, Has
  <2>4. \A k \in Blocks : ~Carries(b, k)
    BY <1>4, <1>10 DEF Carries
  <2>. QED  BY <1>8, <2>1, <2>3, <2>4, OneCoherent
<1>. QED  BY <1>9, <1>10

-----------------------------------------------------------------------------
(* What a process is doing.                                                *)

(* What a process asks for suits the place it is at. *)
Suits(w, l) ==
  /\ l \in {"vinval", "vinval_scan", "vinval_take"} => w.op \in {"vinvalsave", "vinvaltrunc"}
  /\ l \in InGetblk => w.op = "geteblk" \/ w.blk \in Blks
  /\ l \in {"breada", "breada_io", "breada_ra", "ra_io", "breada_end"} =>
       w.blk \in Blks /\ w.ra \in Blks

(* One that reads a block comes back from getblk() to bread() or breada(), *)
(* and leaves them only with the block's contents.                         *)
ReadOK(p) ==
  want[p] # None /\ want[p].op \in {"bread", "baddr", "breada"} =>
    /\ pc[p] = "user" /\ bp[p] # None => Has(bp[p], "DONE")
    /\ \A l \in InGetblk : On(p, l) => \E c \in Callers : Listed(stack[p], c)

Job(p) == (\A l : On(p, l) => Suits(want[p], l)) /\ ReadOK(p)

JobInv == \A p \in Procs : Job(p)

(* p asks for what it asked for, at places it was at or that suit it. *)
LEMMA JobGoes ==
  ASSUME NEW p \in Procs, Job(p), want'[p] = want[p],
         pc'[p] = "user" /\ bp'[p] # None => Has(bp[p], "DONE")',
         \A l : On(p, l)' => \/ On(p, l)
                             \/ /\ Suits(want[p], l)
                                /\ l \in InGetblk => \/ \E m \in InGetblk : On(p, m)
                                                     \/ \E c \in Callers : Listed(stack'[p], c),
         \A c \in Callers : Listed(stack[p], c) => Listed(stack'[p], c)
  PROVE  Job(p)'
<1>1. \A l : On(p, l)' => Suits(want[p], l)'
  BY DEF Job, Suits
<1>2. ReadOK(p)'
  BY DEF Job, ReadOK
<1>. QED  BY <1>1, <1>2 DEF Job

(* p goes on, where it was or at l, with its stack as it was. *)
LEMMA JobGoto ==
  ASSUME CacheInv, NEW p \in Procs, Job(p), want'[p] = want[p], stack'[p] = stack[p], NEW l,
         pc'[p] = l, l # "user", Suits(want[p], l), l \in InGetblk => \E m \in InGetblk : On(p, m)
  PROVE  Job(p)'
<1>1. \A m : On(p, m)' => On(p, m) \/ m = l
  BY DEF On
<1>. QED  BY <1>1, JobGoes

(* p starts a write. *)
LEMMA JobWrite ==
  ASSUME CacheInv, NEW p \in Procs, Job(p), want'[p] = want[p], NEW fl, NEW next \in Nexts,
         next # "user", On(p, next) \/ (Suits(want[p], next) /\ next \notin InGetblk),
         AfterStrategy(p, fl, next)
  PROVE  Job(p)'
<1>1. \A l : On(p, l)' => On(p, l) \/ l \in {"biowait", "release", "setage", next}
  BY WritePlaces DEF On
<1>2. \A l \in {"biowait", "release", "setage"} : Suits(want[p], l) /\ l \notin InGetblk
  BY DEF Suits, InGetblk
<1>3. pc'[p] # "user"
  BY DEF AfterStrategy, Goto, Call, CacheInv, ControlInv, TypeOK
<1>4. \A c \in Callers : Listed(stack[p], c) => Listed(stack'[p], c)
  BY WritePlaces
<1>. QED  BY <1>1, <1>2, <1>3, <1>4, JobGoes

(* p returns, but not from getblk(). *)
LEMMA JobReturn ==
  ASSUME CacheInv, NEW p \in Procs, Job(p), want'[p] = want[p], Return(p),
         pc[p] \in {"bread", "biowait", "setage", "release"},
         pc'[p] = "user" /\ bp'[p] # None => Has(bp[p], "DONE")'
  PROVE  Job(p)'
<1>1. \A l : On(p, l)' => On(p, l)
  BY ReturnPlaces DEF On
<1>2. pc'[p] \notin Callers
  <2>1. Head(stack[p]) \in Nexts \cup {"user", "release"}
    BY AtLabel, Pops DEF CacheInv, OneDeep
  <2>. QED  BY <2>1, ReturnLocal DEF Nexts, Callers
<1>3. \A c \in Callers : Listed(stack[p], c) => Listed(stack'[p], c)
  BY <1>2, Popped
<1>. QED  BY <1>1, <1>3, JobGoes

(* p returns from getblk(). *)
LEMMA JobGotten ==
  ASSUME CacheInv, NEW p \in Procs, Job(p), want'[p] = want[p], Return(p), pc[p] \in InGetblk
  PROVE  Job(p)'
<1>1. \A l : On(p, l)' => On(p, l)
  BY ReturnPlaces DEF On, InGetblk
<1>2. /\ pc'[p] = Head(stack[p]) /\ stack'[p] = Tail(stack[p]) /\ pc'[p] \in Callers \cup {"user"}
      /\ PlainStack(pc'[p], stack'[p])
  BY AtLabel, Pops, ReturnFrame DEF CacheInv, InGetblk
<1>3. stack'[p] = <<>> \/ stack'[p] = <<"user">>
  BY <1>2 DEF PlainStack, Callers, InGetblk, OneDeep
<1>4. \A l \in InGetblk : ~On(p, l)'
  <2>1. \A l \in InGetblk : ~Listed(<<>>, l) /\ ~Listed(<<"user">>, l)
    BY DEF Listed, InGetblk
  <2>. QED  BY <1>2, <1>3, <2>1 DEF On, InGetblk, Callers
<1>5. ASSUME pc'[p] = "user", NEW c \in Callers, Listed(stack[p], c) PROVE FALSE
  <2>1. pc'[p] = c \/ Listed(stack'[p], c)
    BY <1>5, Popped DEF InGetblk
  <2>2. stack'[p] = <<>>
    BY <1>2, <1>5 DEF PlainStack, OneDeep, InGetblk
  <2>. QED  BY <1>5, <2>1, <2>2 DEF Callers, Listed
<1>6. ReadOK(p)'
  BY <1>4, <1>5 DEF Job, ReadOK, On
<1>. QED  BY <1>1, <1>6 DEF Job, Suits

(* p has nothing to ask for. *)
LEMMA JobDone ==
  ASSUME NEW p \in Procs, want'[p] = None,
         \A l : On(p, l)' => l \in {"user", "biowait", "release", "setage"}
  PROVE  Job(p)'
<1>1. \A l : On(p, l)' => Suits(want[p], l)'
  BY DEF Suits, InGetblk
<1>. QED  BY <1>1 DEF Job, ReadOK

(* p enters the cache. *)
LEMMA JobEnters ==
  ASSUME CacheInv, NEW p \in Procs, Enters(p) PROVE Job(p)'
<1>1. ASSUME NEW op, NEW v, NEW k, NEW ra, NEW z, NEW label, NEW callers,
             Enter(p, op, v, k, ra, z, label, callers)
      PROVE  /\ pc'[p] = label /\ stack'[p] = callers
             /\ want'[p].op = op /\ want'[p].blk = k /\ want'[p].ra = ra
  BY <1>1 DEF Enter, Goto, Request1, CacheInv, ControlInv, TypeOK
<1>2. \A l : Listed(<<"user">>, l) <=> l = "user"
  BY DEF Listed
<1>3. ASSUME NEW l PROVE Listed(<<"bread", "user">>, l) <=> l \in {"bread", "user"}
  <2> DEFINE s == <<"bread", "user">>
  <2>1. DOMAIN s = 1..2 /\ s[1] = "bread" /\ s[2] = "user"
    OBVIOUS
  <2> HIDE DEF s
  <2>2. Listed(s, l) <=> l \in {"bread", "user"}
    BY <2>1 DEF Listed
  <2>. QED  BY <2>2 DEF s
<1>4. CASE CallBread(p) \/ CallBaddr(p)
  <2>1. PICK op \in {"bread", "baddr"}, k \in Blks : \E v, z :
          Enter(p, op, v, k, None, z, "getblk", <<"bread", "user">>)
    BY <1>4 DEF CallBread, CallBaddr
  <2>2. /\ pc'[p] = "getblk" /\ stack'[p] = <<"bread", "user">> /\ want'[p].blk = k
    BY <1>1, <2>1
  <2>3. \A l : On(p, l)' => l \in {"getblk", "bread", "user"}
    BY <1>3, <2>2 DEF On
  <2>4. Listed(stack'[p], "bread") /\ "bread" \in Callers
    BY <1>3, <2>2 DEF Callers
  <2>. QED  BY <2>2, <2>3, <2>4 DEF Job, ReadOK, Suits, InGetblk
<1>5. CASE CallBreada(p)
  <2>1. PICK k \in Blks, ra \in Blks : \E v, z :
          Enter(p, "breada", v, k, ra, z, "breada", <<"user">>)
    BY <1>5 DEF CallBreada
  <2>2. pc'[p] = "breada" /\ stack'[p] = <<"user">> /\ want'[p].blk = k /\ want'[p].ra = ra
    BY <1>1, <2>1
  <2>3. \A l : On(p, l)' => l \in {"breada", "user"}
    BY <1>2, <2>2 DEF On
  <2>. QED  BY <2>2, <2>3 DEF Job, ReadOK, Suits, InGetblk
<1>6. CASE CallGetblk(p) \/ CallGeteblk(p)
  <2>1. /\ pc'[p] \in {"getblk", "getnewbuf"} /\ stack'[p] = <<"user">>
        /\ want'[p].op = "geteblk" \/ (want'[p].op = "getblk" /\ want'[p].blk \in Blks)
    <3>1. CASE CallGetblk(p)
      <4>1. PICK k \in Blks : \E v, z : Enter(p, "getblk", v, k, None, z, "getblk", <<"user">>)
        BY <3>1 DEF CallGetblk
      <4>. QED  BY <1>1, <4>1
    <3>2. CASE CallGeteblk(p)
      <4>1. \E z : Enter(p, "geteblk", None, None, None, z, "getnewbuf", <<"user">>)
        BY <3>2 DEF CallGeteblk
      <4>. QED  BY <1>1, <4>1
    <3>. QED  BY <1>6, <3>1, <3>2
  <2>2. \A l : On(p, l)' => l \in {"getblk", "getnewbuf", "user"}
    BY <1>2, <2>1 DEF On
  <2>. QED  BY <2>1, <2>2 DEF Job, ReadOK, Suits, InGetblk
<1>7. CASE CallVflushbuf(p)
  <2>1. PICK op \in {"vflushbuf", "vflushsync"} : \E v :
          Enter(p, op, v, None, None, None, "vflush", <<"user">>)
    BY <1>7 DEF CallVflushbuf
  <2>2. pc'[p] = "vflush" /\ stack'[p] = <<"user">> /\ want'[p].op = op
    BY <1>1, <2>1
  <2>3. \A l : On(p, l)' => l \in {"vflush", "user"}
    BY <1>2, <2>2 DEF On
  <2>. QED  BY <2>2, <2>3 DEF Job, ReadOK, Suits, InGetblk
<1>8. CASE CallVinvalbuf(p)
  <2>1. PICK op \in {"vinvalsave", "vinvaltrunc"} : \E v :
          Enter(p, op, v, None, None, None, "vinval", <<"user">>)
    BY <1>8 DEF CallVinvalbuf
  <2>2. pc'[p] = "vinval" /\ stack'[p] = <<"user">> /\ want'[p].op = op
    BY <1>1, <2>1
  <2>3. \A l : On(p, l)' => l \in {"vinval", "user"}
    BY <1>2, <2>2 DEF On
  <2>. QED  BY <2>2, <2>3 DEF Job, ReadOK, Suits, InGetblk
<1>. QED  BY <1>4, <1>5, <1>6, <1>7, <1>8 DEF Enters

(* breada() exchanges its two blocks. *)
LEMMA JobSwap ==
  ASSUME CacheInv, NEW p \in Procs, Job(p), BreadaAhead(p) \/ BreadaEnd(p) PROVE Job(p)'
<1>1. Swap(p) /\ pc[p] \in {"breada_ra", "breada_end"}
  BY DEF BreadaAhead, BreadaEnd, At
<1>2. want'[p].blk \in Blks /\ want'[p].ra \in Blks
  BY <1>1, Swapped DEF Job, On, Suits
<1>3. stack[p] = <<"user">> /\ <<"user">> \in Seq(Labels) /\ Callers \subseteq Labels
  BY <1>1, AtLabel DEF CacheInv, FrameAt, PlainStack, OneDeep, InGetblk, Callers, Labels
<1>4. \A l : Listed(<<"user">>, l) <=> l = "user"
  BY DEF Listed
<1>5. CASE pc'[p] \in {"breada_end", "biowait"} /\ UNCHANGED stack
  <2>1. \A l : On(p, l)' => l \in {"breada_end", "biowait", "user"}
    BY <1>3, <1>4, <1>5 DEF On
  <2>. QED  BY <1>2, <1>5, <2>1 DEF Job, ReadOK, Suits, InGetblk
<1>6. ASSUME NEW c \in Callers \ {"breada_io"}, pc'[p] = "getblk", stack'[p] = <<c>> \o <<"user">>
      PROVE  Job(p)'
  <2>1. \A l : Listed(<<c>> \o <<"user">>, l) <=> l \in {c, "user"}
    BY <1>3, <1>4, PushPlaces
  <2>2. \A l : On(p, l)' => l \in {"getblk", c, "user"}
    BY <1>6, <2>1 DEF On
  <2>3. Listed(stack'[p], c)
    BY <1>6, <2>1
  <2>. QED  BY <1>2, <1>6, <2>2, <2>3 DEF Job, ReadOK, Suits, InGetblk, Callers
<1>7. \/ pc'[p] \in {"breada_end", "biowait"} /\ UNCHANGED stack
      \/ \E c \in {"bread", "ra_io"} : pc'[p] = "getblk" /\ stack'[p] = <<c>> \o <<"user">>
  BY <1>3 DEF BreadaAhead, BreadaEnd, Goto, Call, CacheInv, ControlInv, TypeOK
<1>. QED  BY <1>5, <1>6, <1>7 DEF Callers

(* Every other step of p. *)
LEMMA JobStep ==
  ASSUME CacheInv, BlockInv', NEW p \in Procs, Job(p), Step(p) PROVE Job(p)'
<1>0. /\ pc \in [Procs -> Labels] /\ stack \in [Procs -> Seq(Labels)] /\ bp \in [Procs -> Bufs \cup {None}]
      /\ want \in [Procs -> Request \cup {None}] /\ ~Panic
  BY DEF CacheInv, ControlInv, TypeOK, BlockInv, Panic
<1>1. CASE GetblkSearch(p) \/ GetblkBusy(p) \/ GetnewbufSleep(p)
  <2>1. /\ pc[p] \in InGetblk /\ UNCHANGED <<stack, want>>
        /\ \E l \in InGetblk : pc' = [pc EXCEPT ![p] = l]
    BY <1>1 DEF GetblkSearch, GetblkBusy, WaitFor, GetnewbufSleep, At, Goto, Sleep, InGetblk, locals
  <2>2. \A l \in InGetblk : Suits(want[p], l) /\ l # "user"
    BY <2>1 DEF Job, On, Suits, InGetblk
  <2>3. pc'[p] \in InGetblk /\ On(p, pc[p])
    BY <1>0, <2>1 DEF On
  <2>. QED  BY <2>1, <2>2, <2>3, JobGoto
<1>2. CASE GetblkHit(p) \/ GetnewbufClean(p)
  <2>1. pc[p] \in InGetblk /\ Return(p) /\ UNCHANGED want
    BY <1>2 DEF GetblkHit, TakeFound, GetnewbufClean, CleanNew, TakeNew, At, InGetblk
  <2>. QED  BY <2>1, JobGotten
<1>3. CASE GetblkStray(p)
  <2>1. /\ pc[p] = "found" /\ UNCHANGED want
        /\ \E fl : AfterStrategy(p, fl, "getblk")
    BY <1>0, <1>3 DEF GetblkStray, WriteStray, At
  <2>2. \A l : On(p, l)' => On(p, l) \/ l \in {"biowait", "release", "setage", "getblk"}
    BY <2>1, WritePlaces DEF On, Nexts
  <2>3. Suits(want[p], "getblk")
    BY <2>1 DEF Job, On, Suits, InGetblk
  <2>4. \A l \in {"biowait", "release", "setage"} : Suits(want[p], l) /\ l \notin InGetblk
    BY DEF Suits, InGetblk
  <2>5. pc'[p] # "user"
    BY <1>0, <2>1 DEF AfterStrategy, Goto, Call
  <2>6. \A c \in Callers : Listed(stack[p], c) => Listed(stack'[p], c)
    BY <2>1, WritePlaces DEF Nexts
  <2>7. On(p, "found") /\ "found" \in InGetblk
    BY <2>1 DEF On, InGetblk
  <2>. QED  BY <2>1, <2>2, <2>3, <2>4, <2>5, <2>6, <2>7, JobGoes
<1>4. CASE GetnewbufDirty(p)
  <2>1. UNCHANGED want /\ On(p, "getnewbuf") /\ \E fl : AfterStrategy(p, fl, "getnewbuf")
    BY <1>4 DEF GetnewbufDirty, At, On
  <2>. QED  BY <2>1, JobWrite DEF Nexts
<1>5. CASE VinvalSave(p)
  <2>1. pc[p] = "vinval_take" /\ UNCHANGED want /\ \E fl : AfterStrategy(p, fl, "vinval")
    BY <1>5 DEF VinvalSave, At
  <2>2. Suits(want[p], "vinval") /\ "vinval" \notin InGetblk
    BY <2>1 DEF Job, On, Suits, InGetblk
  <2>. QED  BY <2>1, <2>2, JobWrite DEF Nexts
<1>6. CASE VflushWrite(p)
  <2>1. UNCHANGED want /\ \E fl : \E next \in {"vflush_scan", "vflush"} : AfterStrategy(p, fl, next)
    BY <1>0, <1>6 DEF VflushWrite
  <2>2. \A l \in {"vflush_scan", "vflush"} : Suits(want[p], l) /\ l \notin InGetblk
    BY DEF Suits, InGetblk
  <2>. QED  BY <2>1, <2>2, JobWrite DEF Nexts
<1>7. CASE SetAge(p) \/ Release(p)
  <2>1. /\ pc[p] \in {"setage", "release"} /\ Return(p) /\ UNCHANGED want
        /\ bp' = [bp EXCEPT ![p] = None]
    BY <1>7 DEF SetAge, Release, At
  <2>. QED  BY <1>0, <2>1, JobReturn
<1>8. CASE BiowaitDone(p)
  <2>1. /\ pc[p] = "biowait" /\ Return(p) /\ Has(bp[p], "DONE") /\ UNCHANGED <<want, bp, b_flags>>
    BY <1>8 DEF BiowaitDone, At, bufvars
  <2>2. Has(bp[p], "DONE")'
    BY <2>1 DEF Has
  <2>. QED  BY <2>1, <2>2, JobReturn
<1>9. CASE Bread(p)
  <2>1. /\ pc[p] = "bread" /\ StartRead(bp[p], {}) /\ UNCHANGED <<want, bp>>
        /\ IF bp[p] \in io' THEN pc' = [pc EXCEPT ![p] = "biowait"] /\ UNCHANGED stack ELSE Return(p)
    BY <1>9 DEF Bread, At, Goto
  <2>2. CASE bp[p] \in io'
    BY <1>0, <2>1, <2>2, JobGoto DEF Suits, InGetblk
  <2>3. CASE bp[p] \notin io'
    <3>1. b_flags[bp[p]] \cap {"DONE", "DELWRI"} # {} /\ UNCHANGED b_flags
      BY <2>1, <2>3 DEF StartRead
    <3>2. bp[p] \in Bufs
      BY <2>1, AtLabel DEF PointerAt, Pointing, CacheInv, ControlInv, TypeOK
    <3>3. Has(bp[p], "DONE")'
      BY <2>1, <3>1, <3>2 DEF CacheInv, OwnInv, BufOK, Has
    <3>. QED  BY <2>1, <2>3, <3>3, JobReturn
  <2>. QED  BY <2>2, <2>3
<1>10. CASE Breada(p)
  <2>1. /\ pc[p] = "breada" /\ UNCHANGED want
        /\ \/ pc'[p] = "breada_ra" /\ UNCHANGED stack
           \/ pc'[p] = "getblk" /\ stack'[p] = <<"breada_io">> \o stack[p]
    BY <1>0, <1>10 DEF Breada, At, Goto, Call
  <2>2. \A l \in {"breada_ra", "breada_io", "getblk"} : Suits(want[p], l)
    BY <2>1 DEF Job, On, Suits, InGetblk
  <2>3. CASE pc'[p] = "breada_ra" /\ UNCHANGED stack
    BY <2>1, <2>2, <2>3, JobGoto DEF InGetblk
  <2>4. CASE pc'[p] = "getblk" /\ stack'[p] = <<"breada_io">> \o stack[p]
    <3>1. \A l : Listed(stack'[p], l) <=> Listed(stack[p], l) \/ l = "breada_io"
      BY <1>0, <2>4, PushPlaces DEF Labels
    <3>2. \A l : On(p, l)' => On(p, l) \/ l \in {"breada_io", "getblk"}
      BY <2>4, <3>1 DEF On
    <3>3. "breada_io" \in Callers /\ Listed(stack'[p], "breada_io")
      BY <3>1 DEF Callers
    <3>. QED  BY <2>1, <2>2, <2>4, <3>1, <3>2, <3>3, JobGoes
  <2>. QED  BY <2>1, <2>3, <2>4
<1>11. CASE BreadaStart(p) \/ AheadStart(p)
  <2>1. /\ pc[p] \in {"breada_io", "ra_io"} /\ UNCHANGED <<want, stack>>
        /\ \E l \in {"breada_ra", "breada_end"} : pc' = [pc EXCEPT ![p] = l]
    BY <1>11 DEF BreadaStart, AheadStart, At, Goto
  <2>2. \A l \in {"breada_ra", "breada_end"} : Suits(want[p], l) /\ l \notin InGetblk
    BY <2>1 DEF Job, On, Suits, InGetblk
  <2>. QED  BY <1>0, <2>1, <2>2, JobGoto
<1>12. CASE BreadaAhead(p) \/ BreadaEnd(p)
  BY <1>12, JobSwap
<1>13. CASE BiowaitSleep(p) \/ VflushSleep(p) \/ VflushStart(p) \/ VflushSkip(p)
  <2>1. /\ UNCHANGED <<want, stack>>
        /\ \E l \in {"biowait", "vflush_wait", "vflush_scan"} : pc'[p] = l
    BY <1>0, <1>13 DEF BiowaitSleep, VflushSleep, VflushStart, VflushSkip, At, Goto, Sleep, locals
  <2>2. \A l \in {"biowait", "vflush_wait", "vflush_scan"} : Suits(want[p], l) /\ l \notin InGetblk
    BY DEF Suits, InGetblk
  <2>. QED  BY <2>1, <2>2, JobGoto
<1>14. CASE VflushScanned(p) \/ VflushDone(p) \/ VinvalList(p)
  <2>1. /\ pc[p] \in OneDeep
        /\ \/ Return(p) /\ want' = [want EXCEPT ![p] = None]
           \/ /\ UNCHANGED <<stack, want>>
              /\ \E l \in {"vflush_wait", "vflush"} : pc' = [pc EXCEPT ![p] = l]
           \/ /\ UNCHANGED <<stack, want>> /\ pc[p] = "vinval"
              /\ pc' = [pc EXCEPT ![p] = "vinval_scan"]
    BY <1>14 DEF VflushScanned, VflushDone, VinvalList, At, Goto, OneDeep
  <2>2. \A l \in {"vflush_wait", "vflush"} : Suits(want[p], l) /\ l \notin InGetblk
    BY DEF Suits, InGetblk
  <2>3. pc[p] = "vinval" => Suits(want[p], "vinval_scan") /\ "vinval_scan" \notin InGetblk
    BY DEF Job, On, Suits, InGetblk
  <2>4. CASE Return(p) /\ want' = [want EXCEPT ![p] = None]
    <3>1. pc'[p] = "user" /\ stack'[p] = <<>> /\ want'[p] = None
      BY <1>0, <2>1, <2>4, ReturnsToUser DEF CacheInv
    <3>2. \A l : ~Listed(<<>>, l)
      BY DEF Listed
    <3>. QED  BY <3>1, <3>2, JobDone DEF On
  <2>5. CASE /\ UNCHANGED <<stack, want>>
             /\ \E l \in {"vflush_wait", "vflush"} : pc' = [pc EXCEPT ![p] = l]
    BY <1>0, <2>2, <2>5, JobGoto
  <2>6. CASE /\ UNCHANGED <<stack, want>> /\ pc[p] = "vinval"
             /\ pc' = [pc EXCEPT ![p] = "vinval_scan"]
    BY <1>0, <2>3, <2>6, JobGoto
  <2>. QED  BY <2>1, <2>4, <2>5, <2>6
<1>15. CASE VinvalScan(p) \/ VinvalBusy(p) \/ VinvalDrop(p)
  <2>1. /\ pc[p] \in {"vinval_scan", "vinval_take"} /\ UNCHANGED <<stack, want>>
        /\ \E l \in {"vinval", "vinval_scan", "vinval_take"} : pc' = [pc EXCEPT ![p] = l]
    BY <1>0, <1>15 DEF VinvalScan, VinvalBusy, VinvalDrop, Invalidate, At, Goto, Sleep
  <2>2. \A l \in {"vinval", "vinval_scan", "vinval_take"} : Suits(want[p], l) /\ l \notin InGetblk
    BY <2>1 DEF Job, On, Suits, InGetblk
  <2>. QED  BY <1>0, <2>1, <2>2, JobGoto
<1>16. CASE UserBrelse(p) \/ UserBwrite(p) \/ UserBdwrite(p) \/ UserIndirect(p)
  <2>1. /\ want' = [want EXCEPT ![p] = None] /\ Holding(p)
        /\ UNCHANGED <<pc, stack>> \/ \E fl : AfterStrategy(p, fl, "user")
    BY <1>0, <1>16 DEF UserBrelse, UserBwrite, UserBdwrite, UserIndirect, MayWrite, Forget
  <2>2. pc[p] = "user" /\ stack[p] = <<>>
    BY <2>1, UserHolds DEF CacheInv
  <2>3. \A l : ~Listed(<<>>, l)
    BY DEF Listed
  <2>4. \A l : On(p, l)' => l \in {"user", "biowait", "release", "setage"}
    BY <2>1, <2>2, <2>3, WritePlaces DEF On, Nexts
  <2>. QED  BY <1>0, <2>1, <2>4, JobDone
<1>. QED  BY <1>1, <1>2, <1>3, <1>4, <1>5, <1>6, <1>7, <1>8, <1>9, <1>10, <1>11, <1>12, <1>13,
             <1>14, <1>15, <1>16 DEF Step

-----------------------------------------------------------------------------
(* A step of p moves no other process, and takes B_DONE only from buffers  *)
(* that nobody else has.                                                   *)
LEMMA StepPointers ==
  ASSUME CacheInv, NEW p \in Procs, Enters(p) \/ Step(p) PROVE \A q \in Procs \ {p} : bp'[q] = bp[q]
<1>1. ASSUME UNCHANGED bp \/ \E x : bp' = [bp EXCEPT ![p] = x]
      PROVE  \A q \in Procs \ {p} : bp'[q] = bp[q]
  BY <1>1 DEF CacheInv, ControlInv, TypeOK
<1>2. CASE Enters(p)
  <2>1. UNCHANGED bp
    BY <1>2 DEF Enters, CallBread, CallBaddr, CallBreada, CallGetblk, CallGeteblk, CallVflushbuf,
                CallVinvalbuf, Enter
  <2>. QED  BY <1>1, <2>1
<1>3. CASE \/ GetblkSearch(p) \/ GetblkBusy(p) \/ GetblkHit(p) \/ GetnewbufSleep(p)
           \/ GetnewbufDirty(p) \/ GetnewbufClean(p) \/ SetAge(p) \/ Bread(p) \/ Breada(p)
           \/ BreadaStart(p) \/ BreadaAhead(p) \/ AheadStart(p) \/ BreadaEnd(p) \/ BiowaitDone(p)
           \/ BiowaitSleep(p) \/ Release(p)
  <2>1. UNCHANGED bp \/ \E x : bp' = [bp EXCEPT ![p] = x]
    BY <1>3 DEF GetblkSearch, GetblkBusy, WaitFor, GetblkHit, TakeFound, GetnewbufSleep,
                GetnewbufDirty, GetnewbufClean, TakeNew, SetAge, Bread, Breada, BreadaStart,
                BreadaAhead, AheadStart, BreadaEnd, BiowaitDone, BiowaitSleep, Release, locals
  <2>. QED  BY <1>1, <2>1
<1>4. CASE \/ VflushStart(p) \/ VflushSkip(p) \/ VflushScanned(p) \/ VflushSleep(p) \/ VflushDone(p)
           \/ VinvalList(p) \/ VinvalScan(p) \/ VinvalBusy(p) \/ VinvalSave(p)
  <2>1. UNCHANGED bp \/ \E x : bp' = [bp EXCEPT ![p] = x]
    BY <1>4 DEF VflushStart, VflushSkip, VflushScanned, VflushSleep, VflushDone, VinvalList,
                VinvalScan, VinvalBusy, VinvalSave, locals
  <2>. QED  BY <1>1, <2>1
<1>5. CASE \/ GetblkStray(p) \/ VflushWrite(p) \/ VinvalDrop(p) \/ UserBrelse(p) \/ UserBwrite(p)
           \/ UserBdwrite(p) \/ UserIndirect(p)
  <2>1. UNCHANGED bp \/ \E x : bp' = [bp EXCEPT ![p] = x]
    BY <1>5 DEF GetblkStray, WriteStray, VflushWrite, VinvalDrop, Invalidate, UserBrelse,
                UserBwrite, UserBdwrite, UserIndirect, Forget, Panic, locals
  <2>. QED  BY <1>1, <2>1
<1>. QED  BY <1>2, <1>3, <1>4, <1>5 DEF Step

(* brelse() leaves B_DONE where it is. *)
LEMMA FreeKeepsDone ==
  ASSUME CacheInv, NEW b \in Bufs, NEW free, NEW l, NEW fl, NEW C, Free(free, l, b, fl, C),
         b_flags[b] \subseteq fl, NEW c \in Bufs, Has(c, "DONE")
  PROVE  Has(c, "DONE")'
<1>1. CASE c = b
  <2>1. "DONE" \in fl
    BY <1>1 DEF Has
  <2>2. "DONE" \in b_flags'[b]
    BY <2>1 DEF Free, CacheInv, ControlInv, TypeOK
  <2>. QED  BY <1>1, <2>2 DEF Has
<1>2. CASE c # b
  BY <1>2 DEF Free, Has, CacheInv, ControlInv, TypeOK
<1>. QED  BY <1>1, <1>2

(* B_DONE of c stays, or c is p's. *)
DoneKept(p, c) == Has(c, "DONE") => Has(c, "DONE")' \/ ~Has(c, "BUSY") \/ (Holding(p) /\ c = bp[p])

LEMMA StepDone ==
  ASSUME CacheInv, BlockInv', NEW p \in Procs, Enters(p) \/ Step(p), NEW c \in Bufs
  PROVE  DoneKept(p, c)
<1>0. b_flags \in [Bufs -> SUBSET Flags] /\ ~Panic
  BY DEF CacheInv, ControlInv, TypeOK, BlockInv, Panic
<1>1. ASSUME UNCHANGED b_flags PROVE DoneKept(p, c)
  BY <1>1 DEF DoneKept, Has
<1>2. ASSUME NEW b, NEW f, b_flags' = [b_flags EXCEPT ![b] = @ \cup f] PROVE DoneKept(p, c)
  BY <1>0, <1>2 DEF DoneKept, Has
<1>3. ASSUME NEW b \in Bufs, NEW f, b_flags' = [b_flags EXCEPT ![b] = f],
             ~Has(b, "BUSY") \/ (Holding(p) /\ b = bp[p])
      PROVE  DoneKept(p, c)
  BY <1>0, <1>3 DEF DoneKept, Has
<1>4. CASE Enters(p)
  <2>1. UNCHANGED b_flags
    BY <1>4 DEF Enters, CallBread, CallBaddr, CallBreada, CallGetblk, CallGeteblk, CallVflushbuf,
                CallVinvalbuf, Enter, bufvars
  <2>. QED  BY <1>1, <2>1
<1>5. CASE \/ GetblkSearch(p) \/ Breada(p) \/ BreadaAhead(p) \/ BreadaEnd(p) \/ BiowaitDone(p)
           \/ BiowaitSleep(p) \/ VflushStart(p) \/ VflushSkip(p) \/ VflushScanned(p)
           \/ VflushSleep(p) \/ VflushDone(p) \/ VinvalList(p) \/ VinvalScan(p)
           \/ GetnewbufSleep(p)
  <2>1. UNCHANGED b_flags
    BY <1>5 DEF GetblkSearch, Breada, BreadaAhead, BreadaEnd, BiowaitDone, BiowaitSleep,
                VflushStart, VflushSkip, VflushScanned, VflushSleep, VflushDone, VinvalList,
                VinvalScan, GetnewbufSleep, bufvars
  <2>. QED  BY <1>1, <2>1
<1>6. CASE GetblkBusy(p) \/ VinvalBusy(p) \/ GetblkHit(p) \/ SetAge(p)
  <2>1. \E b, f : b_flags' = [b_flags EXCEPT ![b] = @ \cup f]
    BY <1>6 DEF GetblkBusy, WaitFor, VinvalBusy, GetblkHit, TakeFound, SetAge
  <2>. QED  BY <1>2, <2>1
<1>7. CASE Bread(p) \/ BreadaStart(p) \/ AheadStart(p)
  <2>1. CASE \E extra : StartRead(bp[p], extra)
    <3>1. UNCHANGED b_flags \/ \E f : b_flags' = [b_flags EXCEPT ![bp[p]] = @ \cup {"READ"} \cup f]
      BY <2>1 DEF StartRead
    <3>2. UNCHANGED b_flags \/ \E f : b_flags' = [b_flags EXCEPT ![bp[p]] = b_flags[bp[p]] \cup ({"READ"} \cup f)]
      BY <3>1
    <3>. QED  BY <1>1, <1>2, <3>2
  <2>2. CASE pc[p] = "ra_io" /\ brelse(bp[p], b_flags[bp[p]], {})
    <3>1. bp[p] \in Bufs
      BY <2>2, AtLabel DEF PointerAt, Pointing, CacheInv, ControlInv, TypeOK
    <3>. QED  BY <2>2, <3>1, FreeKeepsDone DEF brelse, brelseFrom, DoneKept
  <2>. QED  BY <1>7, <2>1, <2>2 DEF Bread, BreadaStart, AheadStart, At
<1>8. CASE GetnewbufClean(p)
  <2>1. NewBuf \in Bufs /\ ~Has(NewBuf, "BUSY")
    BY <1>8, NewBufNotBusy DEF GetnewbufClean, CleanNew
  <2>2. \E f : b_flags' = [b_flags EXCEPT ![NewBuf] = f]
    BY <1>8 DEF GetnewbufClean, TakeNew
  <2>. QED  BY <1>3, <2>1, <2>2
<1>9. CASE GetblkStray(p) \/ VinvalSave(p) \/ GetnewbufDirty(p) \/ VflushWrite(p)
  <2>1. \E b, fl : bwrite(b, fl) /\ ~Has(b, "BUSY")
          /\ ((b = bp[p] /\ pc[p] \in Pointing) \/ (b = NewBuf /\ ~NoneFree) \/ b \in todo[p])
    <3>1. CASE GetblkStray(p) \/ VinvalSave(p)
      BY <1>0, <3>1 DEF GetblkStray, WriteStray, VinvalSave, At, Pointing
    <3>2. CASE GetnewbufDirty(p)
      BY <3>2, NewBufNotBusy DEF GetnewbufDirty
    <3>3. CASE VflushWrite(p)
      BY <1>0, <3>3 DEF VflushWrite
    <3>. QED  BY <1>9, <3>1, <3>2, <3>3
  <2>2. /\ pc[p] \in Pointing => bp[p] \in Bufs
        /\ ~NoneFree => NewBuf \in Bufs
        /\ todo[p] \subseteq Bufs
    BY AtLabel, NewBufNotBusy DEF PointerAt, CacheInv, ControlInv, TypeOK
  <2>. QED  BY <1>3, <2>1, <2>2 DEF bwrite, StartWrite
<1>10. CASE Release(p) \/ VinvalDrop(p)
  <2>1. bp[p] \in Bufs
    <3>1. pc[p] \in Pointing
      BY <1>10 DEF Release, VinvalDrop, At, Pointing
    <3>. QED  BY <3>1, AtLabel DEF PointerAt, CacheInv, ControlInv, TypeOK
  <2>2. \E free, l, fl, C : Free(free, l, bp[p], fl, C) /\ b_flags[bp[p]] \subseteq fl
    <3>1. CASE Release(p)
      BY <3>1 DEF Release, brelse, brelseFrom
    <3>2. CASE VinvalDrop(p)
      <4> DEFINE fl == (b_flags[bp[p]] \cup {"BUSY"}) \cup
                       (IF b_vp[bp[p]] = want[p].vp THEN {"INVAL"} ELSE {})
      <4>1. \E free, l, C : Free(free, l, bp[p], fl, C)
        BY <1>0, <3>2 DEF VinvalDrop, Invalidate, brelseFrom
      <4>2. b_flags[bp[p]] \subseteq fl
        OBVIOUS
      <4>. QED  BY <4>1, <4>2
    <3>. QED  BY <1>10, <3>1, <3>2
  <2>. QED  BY <2>1, <2>2, FreeKeepsDone DEF DoneKept
<1>11. CASE UserBrelse(p) \/ UserBwrite(p) \/ UserBdwrite(p) \/ UserIndirect(p)
  <2>1. Holding(p) /\ bp[p] \in Bufs
    BY <1>11, UserMine DEF UserBrelse, UserBwrite, UserBdwrite, UserIndirect, MayWrite
  <2>2. \E f : b_flags' = [b_flags EXCEPT ![bp[p]] = f]
    BY <1>0, <1>11 DEF UserBrelse, UserBwrite, UserBdwrite, UserIndirect, bwrite, StartWrite, brelse,
                brelseFrom, Free
  <2>. QED  BY <1>3, <2>1, <2>2
<1>. QED  BY <1>4, <1>5, <1>6, <1>7, <1>8, <1>9, <1>10, <1>11 DEF Step

(* What p does is not the others' job. *)
LEMMA JobOthers ==
  ASSUME CacheInv, BlockInv', NEW p \in Procs, Enters(p) \/ Step(p), NEW q \in Procs \ {p}, Job(q)
  PROVE  Job(q)'
<1>1. pc'[q] = pc[q] /\ stack'[q] = stack[q] /\ want'[q] = want[q] /\ bp'[q] = bp[q]
  BY StepRuns, StepPointers DEF Others
<1>2. \A l : On(q, l)' <=> On(q, l)
  BY <1>1 DEF On
<1>3. ASSUME pc[q] = "user", bp[q] # None, Has(bp[q], "DONE") PROVE Has(bp[q], "DONE")'
  <2>1. bp[q] \in Bufs
    BY <1>3 DEF CacheInv, ControlInv, TypeOK
  <2>2. Owns(q, bp[q]) /\ Has(bp[q], "BUSY")
    BY <1>3, <2>1 DEF Owns, Holders, CacheInv, OwnInv, ProcOK
  <2>3. ~(Holding(p) /\ bp[q] = bp[p])
    BY <2>1, <2>2 DEF Holding, At, CacheInv, OwnInv, Exclusive, Owns, Holders
  <2>4. Has(bp[q], "DONE")' \/ ~Has(bp[q], "BUSY") \/ (Holding(p) /\ bp[q] = bp[p])
    <3>1. b_flags'[bp[q]] = b_flags'[bp'[q]]
      BY <1>1
    <3>. QED  BY <1>3, <2>1, <3>1, StepDone DEF DoneKept, Has
  <2>. QED  BY <2>2, <2>3, <2>4
<1>4. ReadOK(q)'
  BY <1>1, <1>2, <1>3 DEF Job, ReadOK
<1>. QED  BY <1>1, <1>2, <1>4 DEF Job, Suits

(* biodone() gives contents and takes none. *)
LEMMA JobInterrupt ==
  ASSUME CacheInv, JobInv, NEW b \in Bufs, NEW failed \in BOOLEAN, Biodone(b, failed) PROVE JobInv'
<1> DEFINE fl == b_flags[b] \cup {"DONE"} \cup (IF failed THEN {"ERROR"} ELSE {})
<1>1. /\ \/ \E C : Free(bfreelist, b_list[b], b, fl, C)
         \/ b_flags' = [b_flags EXCEPT ![b] = fl \ {"WANTED"}]
      /\ UNCHANGED <<pc, stack, want, bp>>
  BY BiodoneInOrder
<1>2. b_flags[b] \subseteq fl
  OBVIOUS
<1> HIDE DEF fl
<1>3. \A c \in Bufs : Has(c, "DONE") => Has(c, "DONE")'
  <2>1. CASE b_flags' = [b_flags EXCEPT ![b] = fl \ {"WANTED"}]
    BY <1>2, <2>1 DEF Has, CacheInv, ControlInv, TypeOK
  <2>. QED  BY <1>1, <1>2, <2>1, FreeKeepsDone
<1>4. ASSUME NEW p \in Procs PROVE Job(p)'
  <2>1. \A l : On(p, l)' <=> On(p, l)
    BY <1>1 DEF On
  <2>2. bp[p] # None /\ Has(bp[p], "DONE") => Has(bp[p], "DONE")'
    BY <1>1, <1>3 DEF Has, CacheInv, ControlInv, TypeOK
  <2>3. Job(p)
    BY DEF JobInv
  <2>4. ReadOK(p)'
    BY <1>1, <2>1, <2>2, <2>3 DEF Job, ReadOK
  <2>. QED  BY <1>1, <2>1, <2>3, <2>4 DEF Job, Suits
<1>. QED  BY <1>4 DEF JobInv

-----------------------------------------------------------------------------
(* Contents, step by step.                                                 *)

(* The write of a delayed block is started. *)
LEMMA DirtyCoherent ==
  ASSUME CacheInv, Coherent, NEW b \in Bufs, Has(b, "DELWRI"), NEW fl, bwrite(b, fl),
         fl \subseteq b_flags[b] \cup {"BUSY", "ASYNC"}, UNCHANGED datavars
  PROVE  Coherent'
<1>1. b_vp[b] # None /\ Has(b, "DONE") /\ Sound(b)
  BY DEF CacheInv, ControlInv, DirtyHome, OwnInv, BufOK, Coherent
<1>2. b_fresh[b] /\ "INVAL" \notin fl
  BY <1>1 DEF Sound, Has
<1>. QED  BY <1>1, <1>2, WriteCoherent DEF datavars

(* A process writes a block, at once or later. *)
LEMMA UserCoherent ==
  ASSUME CacheInv, BlockInv, BlockInv', OnceInv, Coherent, NEW p \in Procs,
         UserBwrite(p) \/ UserBdwrite(p) \/ UserIndirect(p)
  PROVE  Coherent'
<1>0. ~Panic
  BY DEF BlockInv, Panic
<1>1. MayWrite(p)
  BY DEF UserBwrite, UserBdwrite, UserIndirect
<1>2. PICK b \in Bufs : b = bp[p]
  BY <1>1, MayWriteBlock
<1>3. /\ b_vp[b] # None /\ "INVAL" \notin b_flags[b] /\ "ERROR" \notin b_flags[b] /\ b \notin io
      /\ Mine(p, b)
  BY <1>1, <1>2, MayWriteBlock DEF Mine, BlockInv, Intact, Has
<1>4. Modify(b)
  BY <1>0, <1>2, <1>3 DEF UserBwrite, UserBdwrite, UserIndirect
<1>5. /\ b_fresh'[b] /\ \A c \in Bufs \ {b} : b_fresh'[c] = b_fresh[c]
      /\ \A k \in Blocks : k # <<b_vp[b], b_lblkno[b]>> => d_fresh'[k] = d_fresh[k]
  BY <1>3, <1>4, ModifyAlone
<1>6. \/ \E fl : bwrite(b, fl) /\ fl \subseteq b_flags[b] \cup {"ASYNC", "DELWRI"}
      \/ /\ UNCHANGED io
         /\ \E l, C : Free(bfreelist, l, b, b_flags[b] \cup {"DELWRI", "DONE"}, C)
  <2>1. CASE UserBwrite(p)
    <3>1. PICK how \in {{}, {"ASYNC"}} : bwrite(b, b_flags[b] \cup how)
      BY <1>0, <1>2, <1>3, <2>1 DEF UserBwrite
    <3>2. b_flags[b] \cup how \subseteq b_flags[b] \cup {"ASYNC", "DELWRI"}
      OBVIOUS
    <3>. QED  BY <3>1, <3>2
  <2>2. CASE UserBdwrite(p)
    <3> DEFINE fl == b_flags[b] \cup {"DELWRI"}
    <3>1. \/ bwrite(b, fl \cup {"ASYNC"})
          \/ UNCHANGED io /\ \E l, C : Free(bfreelist, l, b, fl \cup {"DONE"}, C)
      BY <1>0, <1>2, <1>3, <2>2 DEF UserBdwrite, brelseFrom
    <3>2. /\ fl \cup {"ASYNC"} \subseteq b_flags[b] \cup {"ASYNC", "DELWRI"}
          /\ fl \cup {"DONE"} = b_flags[b] \cup {"DELWRI", "DONE"}
      OBVIOUS
    <3>. QED  BY <3>1, <3>2
  <2>3. CASE UserIndirect(p)
    BY <1>2, <2>3 DEF UserIndirect, brelseFrom
  <2>. QED  BY <2>1, <2>2, <2>3
<1>7. ASSUME NEW fl, bwrite(b, fl), fl \subseteq b_flags[b] \cup {"ASYNC", "DELWRI"}
      PROVE  Coherent'
  <2>1. "INVAL" \notin fl
    BY <1>3, <1>7
  <2>. QED  BY <1>3, <1>5, <1>7, <2>1, WriteCoherent
<1>8. ASSUME UNCHANGED io, NEW l, NEW C, Free(bfreelist, l, b, b_flags[b] \cup {"DELWRI", "DONE"}, C)
      PROVE  Coherent'
  <2> DEFINE fl == b_flags[b] \cup {"DELWRI", "DONE"}
  <2>1. fl \cap {"ERROR", "INVAL"} = {} /\ "DELWRI" \in fl
    BY <1>3
  <2> HIDE DEF fl
  <2>. QED  BY <1>3, <1>5, <1>8, <2>1, DelayCoherent DEF fl
<1>. QED  BY <1>6, <1>7, <1>8

(* Every step of a process. *)
LEMMA CoherentStep ==
  ASSUME CacheInv, BlockInv, BlockInv', OnceInv, JobInv, Coherent, Fitting, NEW p \in Procs,
         Enters(p) \/ Step(p)
  PROVE  Coherent'
<1>0. ~Panic /\ Job(p)
  BY DEF BlockInv, Panic, JobInv
<1>1. ASSUME UNCHANGED <<b_flags, b_vp, b_lblkno, io, b_fresh, d_fresh>> PROVE Coherent'
  BY <1>1, StillCoherent DEF Kept
<1>2. CASE Enters(p)
  <2>1. UNCHANGED <<b_flags, b_vp, b_lblkno, io, b_fresh, d_fresh>>
    BY <1>2 DEF Enters, CallBread, CallBaddr, CallBreada, CallGetblk, CallGeteblk, CallVflushbuf,
                CallVinvalbuf, Enter, bufvars, datavars
  <2>. QED  BY <1>1, <2>1
<1>3. CASE \/ GetblkSearch(p) \/ Breada(p) \/ BreadaAhead(p) \/ BreadaEnd(p) \/ BiowaitDone(p)
           \/ BiowaitSleep(p) \/ VflushStart(p) \/ VflushSkip(p) \/ VflushScanned(p)
           \/ VflushSleep(p) \/ VflushDone(p) \/ VinvalList(p) \/ VinvalScan(p)
           \/ GetnewbufSleep(p)
  <2>1. UNCHANGED <<b_flags, b_vp, b_lblkno, io, b_fresh, d_fresh>>
    BY <1>3 DEF GetblkSearch, Breada, BreadaAhead, BreadaEnd, BiowaitDone, BiowaitSleep,
                VflushStart, VflushSkip, VflushScanned, VflushSleep, VflushDone, VinvalList,
                VinvalScan, GetnewbufSleep, bufvars, datavars
  <2>. QED  BY <1>1, <2>1
<1>4. CASE GetblkBusy(p) \/ VinvalBusy(p) \/ GetblkHit(p) \/ SetAge(p)
  <2>1. /\ \E f \in {"WANTED", "BUSY", "AGE"} : b_flags' = [b_flags EXCEPT ![bp[p]] = @ \cup {f}]
        /\ UNCHANGED <<b_vp, b_lblkno, io, b_fresh, d_fresh>>
    BY <1>4 DEF GetblkBusy, WaitFor, VinvalBusy, GetblkHit, TakeFound, SetAge, datavars
  <2>2. \A c \in Bufs : Kept(c)
    BY <2>1 DEF Kept, CacheInv, ControlInv, TypeOK
  <2>. QED  BY <2>1, <2>2, StillCoherent
<1>5. CASE Bread(p) \/ BreadaStart(p) \/ AheadStart(p) \/ Release(p) \/ UserBrelse(p)
  <2>1. /\ pc[p] \in Holders \ {"biowait"} /\ bp[p] # None
        /\ UNCHANGED <<b_fresh, d_fresh>>
    BY <1>5, AtLabel DEF Bread, BreadaStart, AheadStart, Release, UserBrelse, Holding, At, Holders,
                CacheInv, PointerAt, Pointing, datavars
  <2>2. PICK b \in Bufs : b = bp[p] /\ b \notin io
    BY <2>1 DEF CacheInv, ControlInv, TypeOK, OwnInv, ProcOK
  <2>3. \/ UNCHANGED <<b_vp, b_lblkno>> /\ \E extra \in SUBSET {"ASYNC"} : StartRead(b, extra)
        \/ UNCHANGED io /\ brelse(b, b_flags[b], {})
    <3>1. {} \in SUBSET {"ASYNC"} /\ {"ASYNC"} \in SUBSET {"ASYNC"}
      OBVIOUS
    <3>2. CASE Bread(p) \/ BreadaStart(p)
      BY <2>2, <3>1, <3>2 DEF Bread, BreadaStart
    <3>3. CASE AheadStart(p)
      BY <2>2, <3>1, <3>3 DEF AheadStart
    <3>4. CASE Release(p) \/ UserBrelse(p)
      BY <2>2, <3>4 DEF Release, UserBrelse
    <3>. QED  BY <1>5, <3>2, <3>3, <3>4
  <2>4. CASE UNCHANGED io /\ brelse(b, b_flags[b], {})
    <3>1. PICK C : Free(bfreelist, b_list[b], b, b_flags[b], C)
      BY <2>4 DEF brelse, brelseFrom
    <3>. QED  BY <2>1, <2>2, <2>4, <3>1, FreeCoherent
  <2>. QED  BY <2>1, <2>2, <2>3, <2>4, ReadCoherent
<1>6. CASE GetblkStray(p)
  BY <1>6 DEF GetblkStray, WriteStray, Fitting, At
<1>7. CASE GetnewbufDirty(p)
  <2>1. NewBuf \in Bufs
    BY <1>7, NewBufNotBusy DEF GetnewbufDirty
  <2>2. /\ Has(NewBuf, "DELWRI") /\ bwrite(NewBuf, b_flags[NewBuf] \cup {"BUSY", "ASYNC"})
        /\ UNCHANGED datavars
    BY <1>7 DEF GetnewbufDirty
  <2>. QED  BY <2>1, <2>2, DirtyCoherent
<1>8. CASE VinvalSave(p)
  <2>1. PICK b \in Bufs : b = bp[p]
    BY <1>8, AtLabel DEF VinvalSave, At, PointerAt, Pointing, CacheInv, ControlInv, TypeOK
  <2>2. Has(b, "DELWRI") /\ bwrite(b, b_flags[b] \cup {"BUSY"}) /\ UNCHANGED datavars
    BY <1>8, <2>1 DEF VinvalSave
  <2>. QED  BY <2>2, DirtyCoherent
<1>9. CASE VflushWrite(p)
  <2>1. PICK b \in todo[p] : /\ Has(b, "DELWRI") /\ UNCHANGED datavars
                             /\ \E a \in {{}, {"ASYNC"}} : bwrite(b, b_flags[b] \cup {"BUSY"} \cup a)
    BY <1>0, <1>9 DEF VflushWrite
  <2>2. b \in Bufs
    BY DEF CacheInv, ControlInv, TypeOK
  <2>3. PICK a \in {{}, {"ASYNC"}} : bwrite(b, b_flags[b] \cup {"BUSY"} \cup a)
    BY <2>1
  <2>4. b_flags[b] \cup {"BUSY"} \cup a \subseteq b_flags[b] \cup {"BUSY", "ASYNC"}
    OBVIOUS
  <2>. QED  BY <2>1, <2>2, <2>3, <2>4, DirtyCoherent
<1>10. CASE GetnewbufClean(p)
  <2>1. want[p].op # "geteblk" => want[p].blk \in Blks
    BY <1>0, <1>10 DEF GetnewbufClean, CleanNew, At, Job, On, Suits, InGetblk
  <2>. QED  BY <1>10, <2>1, NewCoherent
<1>11. CASE VinvalDrop(p)
  <2>1. want[p].op \in {"vinvalsave", "vinvaltrunc"}
    BY <1>0, <1>11 DEF VinvalDrop, At, Job, On, Suits
  <2>. QED  BY <1>11, <2>1, DropCoherent
<1>. QED  BY <1>2, <1>3, <1>4, <1>5, <1>6, <1>7, <1>8, <1>9, <1>10, <1>11, UserCoherent DEF Step

-----------------------------------------------------------------------------
(* What holds of the contents, on a disk without errors, while getnewbuf() *)
(* does not sleep and no buffer of another size is found.                  *)
DataInv == OnceInv /\ JobInv /\ Coherent

LEMMA DataInit ==
  ASSUME Init PROVE DataInv
<1>1. \A l : ~Listed(<<>>, l)
  BY DEF Listed
<1>2. JobInv
  BY <1>1 DEF Init, JobInv, Job, ReadOK, On, Suits, InGetblk
<1>3. Coherent
  BY DEF Init, Coherent, Sound, Safe
<1>. QED  BY <1>2, <1>3, OnceInit DEF DataInv

LEMMA DataNext ==
  ASSUME ~MayFail, CacheInv, CacheInv', BlockInv, BlockInv', DataInv, [Next]_vars, NeverShort', Fitting
  PROVE  DataInv'
<1>1. OnceInv'
  BY OnceNext DEF DataInv
<1>2. CASE UNCHANGED vars
  <2>1. UNCHANGED <<b_flags, b_vp, b_lblkno, io, b_fresh, d_fresh, pc, stack, want, bp>>
    BY <1>2 DEF vars, bufvars, datavars, locals
  <2>2. JobInv'
    BY <2>1 DEF DataInv, JobInv, Job, ReadOK, On, Suits, Has
  <2>3. Coherent'
    BY <2>1, StillCoherent DEF DataInv, Kept
  <2>. QED  BY <1>1, <2>2, <2>3 DEF DataInv
<1>3. ASSUME NEW b \in Bufs, Interrupt(b) PROVE DataInv'
  <2>1. Biodone(b, FALSE)
    BY <1>3 DEF Interrupt
  <2>. QED  BY <1>1, <2>1, JobInterrupt, BiodoneCoherent DEF DataInv
<1>4. ASSUME NEW p \in Procs, Enters(p) \/ Step(p) PROVE DataInv'
  <2>1. Job(p)'
    BY <1>4, JobEnters, JobStep DEF DataInv, JobInv
  <2>2. JobInv'
    BY <1>4, <2>1, JobOthers DEF DataInv, JobInv
  <2>3. Coherent'
    BY <1>4, CoherentStep DEF DataInv
  <2>. QED  BY <1>1, <2>2, <2>3 DEF DataInv
<1>. QED  BY <1>2, <1>3, <1>4 DEF Next, Halted

LEMMA DataAlways ==
  ASSUME ~MayFail PROVE Spec /\ []NeverShort /\ []Fitting => []DataInv
<1>1. CacheInv /\ CacheInv' /\ BlockInv /\ BlockInv' /\ DataInv /\ [Next]_vars /\ NeverShort'
        /\ Fitting => DataInv'
  BY DataNext
<1>. QED  BY <1>1, DataInit, CacheAlways, BlockAlways, PTL DEF Spec

(* On a disk without errors, as long as getnewbuf() does not sleep and     *)
(* getblk() finds no buffer of another size, no write is lost: while the   *)
(* disk does not have what was last written to a block, a buffer of the    *)
(* block has it and is delayed or being written, through bdwrite(),        *)
(* getnewbuf()'s and vflushbuf()'s writes, vinvalbuf() and every           *)
(* interrupt in between.                                                   *)
THEOREM WritesReachTheDisk ==
  ASSUME ~MayFail PROVE Spec /\ []NeverShort /\ []Fitting => []NoLostWrite
<1>1. DataInv => NoLostWrite
  BY DEF DataInv, Coherent, Safe, Carries, NoLostWrite
<1>. QED  BY <1>1, DataAlways, PTL

(* In the same circumstances bread() and breada() return a buffer that     *)
(* holds what was last written to the block, by whomever and whether or    *)
(* not that is on the disk yet, and that nobody else has: a read that      *)
(* found no contents in the cache cannot have overtaken the write that     *)
(* took them out.                                                          *)
THEOREM ReadsReturnLastWrite ==
  ASSUME ~MayFail PROVE Spec /\ []NeverShort /\ []Fitting => []ReadsAreCurrent
<1>1. CacheInv /\ BlockInv /\ DataInv => ReadsAreCurrent
  <2> SUFFICES ASSUME CacheInv, BlockInv, DataInv, NEW p \in Procs, pc[p] = "user", bp[p] # None,
                      want[p].op \in {"bread", "baddr", "breada"}
               PROVE  /\ b_fresh[bp[p]]
                      /\ \A q \in Procs \ {p} :
                           bp[p] \notin {hold[q]} /\ (pc[q] = "user" => bp[q] # bp[p])
    BY DEF ReadsAreCurrent
  <2>1. bp[p] \in Bufs /\ want[p] \in Asked
    BY AtLabel DEF CacheInv, ControlInv, TypeOK, FrameAt
  <2>2. bp[p] \in Cached(want[p].vp, want[p].blk)
    BY DEF BlockInv, Block, Given
  <2>3. b_vp[bp[p]] # None
    BY <2>1, <2>2 DEF Cached, Asked
  <2>4. Has(bp[p], "DONE")
    <3>1. want[p] # None
      BY <2>1, BufCacheAssumption DEF Asked, BufCacheAssumption
    <3>. QED  BY <3>1 DEF DataInv, JobInv, Job, ReadOK
  <2>5. b_fresh[bp[p]]
    BY <2>1, <2>3, <2>4 DEF DataInv, Coherent, Sound
  <2>6. \A q \in Procs \ {p} : bp[p] # hold[q] /\ (pc[q] = "user" => bp[q] # bp[p])
    BY <2>1 DEF CacheInv, OwnInv, Exclusive, Owns, Holders
  <2>. QED  BY <2>5, <2>6
<1>. QED  BY <1>1, DataAlways, CacheAlways, BlockAlways, PTL
=============================================================================
