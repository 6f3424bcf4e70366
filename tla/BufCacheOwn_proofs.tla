-------------------------- MODULE BufCacheOwn_proofs --------------------------
(***************************************************************************)
(* Theorems about who has which buffer of the cache, and what follows: the *)
(* free lists, the sleepers and the count of writes in progress.           *)
(***************************************************************************)
EXTENDS BufCache_proofs

(* The labels at which a process has bp to itself, and what it has. *)
Holders == {"user", "bread", "breada_io", "ra_io", "biowait", "release"}

Owns(p, b) == b = hold[p] \/ (b = bp[p] /\ pc[p] \in Holders)

(* What is under I/O is busy and not done, what will be released by the    *)
(* interrupt is under I/O, and what is dirty is valid.                     *)
BufOK(b) ==
  /\ b \in io => Has(b, "BUSY") /\ ~Has(b, "DONE")
  /\ Has(b, "ASYNC") => b \in io
  /\ Has(b, "DELWRI") => Has(b, "DONE")

(* A process owns only busy buffers that the interrupt will not release;   *)
(* bp and hold are two; it waits only for what is under I/O or done.       *)
ProcOK(p) ==
  /\ \A b \in Bufs : Owns(p, b) => Has(b, "BUSY") /\ ~Has(b, "ASYNC")
  /\ pc[p] \in Holders /\ bp[p] # None => bp[p] # hold[p]
  /\ pc[p] \in Holders \ {"biowait"} => bp[p] \notin io
  /\ pc[p] = "biowait" => bp[p] \in io \/ Has(bp[p], "DONE")
  /\ hold[p] # None => hold[p] \in io \/ Has(hold[p], "DONE")

Exclusive == \A p, q \in Procs, b \in Bufs : Owns(p, b) /\ Owns(q, b) => p = q

OwnInv == (\A b \in Bufs : BufOK(b)) /\ (\A p \in Procs : ProcOK(p)) /\ Exclusive

(* A buffer that p may use, and nobody else. *)
Mine(p, b) == /\ \A q \in Procs \ {p} : ~Owns(q, b)
              /\ hold[p] # b /\ b \notin io /\ ~Has(b, "ASYNC")

(* The free lists hold the buffers of S, each once. *)
Fits(free, S) ==
  /\ free \in [Queues -> Seq(Bufs)] /\ \A q \in Queues : Once(free[q])
  /\ \A q, r \in Queues, b \in Bufs : Listed(free[q], b) /\ Listed(free[r], b) => q = r
  /\ \A b \in Bufs : b \in S <=> \E q \in Queues : Listed(free[q], b)

NotBusy == {b \in Bufs : ~Has(b, "BUSY")}

(* NoLostWakeup of one process; one that waits for I/O waits for its own   *)
(* buffer.                                                                 *)
AsleepOK(p) ==
  /\ wchan[p] \in Bufs =>
       Has(wchan[p], "BUSY") /\ (IF pc[p] = "biowait" THEN wchan[p] \in io /\ wchan[p] = bp[p]
                                                     ELSE Has(wchan[p], "WANTED"))
  /\ wchan[p] = FreeChan => freewanted /\ NoneFree
  /\ wchan[p] \in Vnodes => vbwait[wchan[p]] /\ v_numoutput[wchan[p]] > 0

Writing(v) == {b \in io : b_vp[b] = v /\ ~Has(b, "READ")}

CacheInv ==
  /\ ControlInv /\ OwnInv /\ Fits(bfreelist, NotBusy) /\ OutputCounted
  /\ \A p \in Procs : AsleepOK(p)

-----------------------------------------------------------------------------
(* Free lists.                                                             *)

LEMMA FitsMeans ==
  ASSUME TypeOK PROVE Fits(bfreelist, NotBusy) <=> BusyIffNotFree
<1>1. \A b : OnFreeList(b) <=> \E q \in Queues : Listed(bfreelist[q], b)
  BY DEF OnFreeList, Listed
<1>2. ASSUME Fits(bfreelist, NotBusy) PROVE BusyIffNotFree
  <2>1. \A b \in Bufs : Has(b, "BUSY") <=> ~OnFreeList(b)
    BY <1>1, <1>2 DEF Fits, NotBusy
  <2>2. ASSUME NEW q \in Queues, NEW r \in Queues, NEW i \in DOMAIN bfreelist[q],
               NEW j \in DOMAIN bfreelist[r], bfreelist[q][i] = bfreelist[r][j]
        PROVE  q = r /\ i = j
    <3>1. bfreelist[q][i] \in Bufs
      BY DEF TypeOK
    <3>2. Listed(bfreelist[q], bfreelist[q][i]) /\ Listed(bfreelist[r], bfreelist[q][i])
      BY <2>2 DEF Listed
    <3>3. q = r
      BY <1>2, <3>1, <3>2 DEF Fits
    <3>. QED  BY <1>2, <2>2, <3>3 DEF Fits, Once
  <2>. QED  BY <2>1, <2>2 DEF BusyIffNotFree
<1>3. ASSUME BusyIffNotFree PROVE Fits(bfreelist, NotBusy)
  <2>1. \A b \in Bufs : b \in NotBusy <=> \E q \in Queues : Listed(bfreelist[q], b)
    BY <1>1, <1>3 DEF BusyIffNotFree, NotBusy
  <2>2. \A q \in Queues : Once(bfreelist[q])
    BY <1>3 DEF BusyIffNotFree, Once
  <2>3. \A q, r \in Queues, b \in Bufs : Listed(bfreelist[q], b) /\ Listed(bfreelist[r], b) => q = r
    BY <1>3 DEF BusyIffNotFree, Listed
  <2>. QED  BY <2>1, <2>2, <2>3 DEF Fits, TypeOK
<1>. QED  BY <1>2, <1>3

LEMMA TakeFits ==
  ASSUME NEW S, Fits(bfreelist, S), NEW b \in Bufs
  PROVE  Fits(FreeWithout(b), S \ {b})
<1> DEFINE free == FreeWithout(b)
<1>1. ASSUME NEW q \in Queues
      PROVE  /\ free[q] \in Seq(Bufs) /\ Once(free[q])
             /\ \A c : Listed(free[q], c) <=> Listed(bfreelist[q], c) /\ c # b
  <2>1. bfreelist[q] \in Seq(Bufs) /\ Once(bfreelist[q]) /\ free[q] = Without(bfreelist[q], b)
    BY DEF Fits, FreeWithout
  <2>. QED  BY <2>1, WithoutSeq, WithoutOnce
<1>2. free \in [Queues -> Seq(Bufs)]
  BY <1>1 DEF FreeWithout
<1> HIDE DEF free
<1>3. Fits(free, S \ {b})
  BY <1>1, <1>2 DEF Fits
<1>. QED  BY <1>3 DEF free

LEMMA PutFits ==
  ASSUME NEW S, NEW free, Fits(free, S), NEW b \in Bufs, b \notin S, NEW q \in Queues, NEW t,
         t = Append(free[q], b) \/ t = <<b>> \o free[q], NEW T, T = S \cup {b}
  PROVE  Fits([free EXCEPT ![q] = t], T)
<1>1. free[q] \in Seq(Bufs) /\ Once(free[q]) /\ ~Listed(free[q], b)
  BY DEF Fits
<1>2. /\ t \in Seq(Bufs) /\ Once(t)
      /\ \A c : Listed(t, c) <=> Listed(free[q], c) \/ c = b
  BY <1>1, Added
<1> DEFINE new == [free EXCEPT ![q] = t]
<1>3. /\ new \in [Queues -> Seq(Bufs)] /\ new[q] = t
      /\ \A r \in Queues \ {q} : new[r] = free[r]
  BY <1>2 DEF Fits
<1> HIDE DEF new
<1>4. \A r \in Queues : \A c : Listed(new[r], c) <=> Listed(free[r], c) \/ (r = q /\ c = b)
  BY <1>2, <1>3
<1>5. \A r \in Queues : Once(new[r])
  BY <1>2, <1>3 DEF Fits
<1>6. \A r, s \in Queues, c \in Bufs : Listed(new[r], c) /\ Listed(new[s], c) => r = s
  BY <1>4 DEF Fits
<1>7. \A c \in Bufs : c \in T <=> \E r \in Queues : Listed(new[r], c)
  BY <1>4 DEF Fits
<1>8. Fits(new, T)
  BY <1>3, <1>5, <1>6, <1>7 DEF Fits
<1>. QED  BY <1>8 DEF new

-----------------------------------------------------------------------------
(* A step of p that changes one buffer, b.                                 *)

(* Only b changes. *)
Only(b) == \A c \in Bufs \ {b} : b_flags'[c] = b_flags[c] /\ (c \in io' <=> c \in io)

LEMMA OwnStep ==
  ASSUME ControlInv, ControlInv', OwnInv, NEW p \in Procs, NEW b \in Bufs, Local(p), Only(b),
         \A q \in Procs \ {p} : ~Owns(q, b),
         \A c \in Bufs : Owns(p, c)' => Owns(p, c) \/ c = b,
         BufOK(b)', ProcOK(p)'
  PROVE  OwnInv'
<1>1. \A c \in Bufs : BufOK(c)'
  BY DEF OwnInv, BufOK, Has, Only
<1>2. ASSUME NEW q \in Procs \ {p} PROVE ProcOK(q)'
  <2>1. /\ pc'[q] = pc[q] /\ bp'[q] = bp[q] /\ hold'[q] = hold[q] /\ ProcOK(q) /\ ~Owns(q, b)
    BY DEF Local, OwnInv
  <2>2. \A c \in Bufs : Owns(q, c)' <=> Owns(q, c)
    BY <2>1 DEF Owns
  <2>3. bp[q] \in Bufs \cup {None} /\ hold[q] \in Bufs \cup {None} /\ io \subseteq Bufs /\ io' \subseteq Bufs
    BY DEF ControlInv, TypeOK
  <2>4. /\ pc[q] \in Holders /\ bp[q] # None => Owns(q, bp[q]) /\ bp[q] # b
        /\ hold[q] # None => Owns(q, hold[q]) /\ hold[q] # b
    BY <2>1, <2>3 DEF Owns
  <2>5. pc[q] = "biowait" => bp[q] # None
    BY AtLabel DEF PointerAt, Pointing
  <2>6. \A c \in Bufs : Owns(q, c)' => Has(c, "BUSY")' /\ ~Has(c, "ASYNC")'
    BY <2>1, <2>2 DEF ProcOK, Has, Only
  <2>7. pc'[q] \in Holders \ {"biowait"} => bp'[q] \notin io'
    BY <2>1, <2>3, <2>4, BufCacheAssumption DEF ProcOK, Only, BufCacheAssumption
  <2>8. pc'[q] = "biowait" => bp'[q] \in io' \/ Has(bp[q], "DONE")'
    <3>1. "biowait" \in Holders
      BY DEF Holders
    <3>. QED  BY <2>1, <2>3, <2>4, <2>5, <3>1 DEF ProcOK, Only, Has
  <2>9. hold'[q] # None => hold'[q] \in io' \/ Has(hold[q], "DONE")'
    BY <2>1, <2>3, <2>4 DEF ProcOK, Only, Has
  <2>10. pc'[q] \in Holders /\ bp'[q] # None => bp'[q] # hold'[q]
    BY <2>1 DEF ProcOK
  <2>. QED  BY <2>1, <2>6, <2>7, <2>8, <2>9, <2>10 DEF ProcOK, Has
<1>3. Exclusive'
  <2>1. \A q \in Procs \ {p}, c \in Bufs : Owns(q, c)' <=> Owns(q, c)
    BY DEF Owns, Local
  <2>. QED  BY <2>1 DEF Exclusive, OwnInv
<1>. QED  BY <1>1, <1>2, <1>3 DEF OwnInv

(* What is not busy is anybody's; what p has at hand is p's. *)
LEMMA FreeIsMine ==
  ASSUME OwnInv, NEW p \in Procs, NEW b \in Bufs, ~Has(b, "BUSY")
  PROVE  Mine(p, b)
  BY DEF OwnInv, ProcOK, BufOK, Mine, Owns

LEMMA HeldIsMine ==
  ASSUME OwnInv, NEW p \in Procs, bp[p] \in Bufs, bp[p] # None, pc[p] \in Holders \ {"biowait"}
  PROVE  Mine(p, bp[p]) /\ Has(bp[p], "BUSY")
  BY DEF OwnInv, ProcOK, Exclusive, Mine, Owns

(* What the others sleep on. *)
LEMMA SleepOK ==
  ASSUME ControlInv, NEW q \in Procs, AsleepOK(q), pc'[q] = pc[q], bp'[q] = bp[q],
         wchan'[q] # None => wchan'[q] = wchan[q],
         wchan'[q] \in Bufs => /\ Has(wchan[q], "BUSY") => Has(wchan[q], "BUSY")'
                               /\ Has(wchan[q], "WANTED") => Has(wchan[q], "WANTED")'
                               /\ wchan[q] \in io => wchan[q] \in io',
         wchan'[q] = FreeChan /\ freewanted /\ NoneFree => freewanted' /\ NoneFree',
         wchan'[q] \in Vnodes /\ vbwait[wchan[q]] /\ v_numoutput[wchan[q]] > 0 =>
           vbwait'[wchan[q]] /\ v_numoutput'[wchan[q]] > 0
  PROVE  AsleepOK(q)'
<1>1. None \notin Bufs \cup Vnodes \cup {FreeChan}
  BY BufCacheAssumption DEF BufCacheAssumption
<1>2. wchan'[q] \in Bufs =>
        /\ Has(wchan[q], "BUSY")' /\ wchan'[q] = wchan[q]
        /\ pc'[q] = "biowait" => wchan[q] \in io' /\ wchan[q] = bp'[q]
        /\ pc'[q] # "biowait" => Has(wchan[q], "WANTED")'
  BY <1>1 DEF AsleepOK
<1>3. wchan'[q] = FreeChan => freewanted' /\ NoneFree'
  BY <1>1 DEF AsleepOK
<1>4. wchan'[q] \in Vnodes => vbwait'[wchan'[q]] /\ v_numoutput'[wchan'[q]] > 0
  BY <1>1 DEF AsleepOK
<1>. QED  BY <1>2, <1>3, <1>4 DEF AsleepOK, Has

-----------------------------------------------------------------------------
(* The kinds of steps.  A step of a process p is one of the following.     *)

(* p is awake, and nobody else moves, falls asleep or loses its buffers. *)
Alone(p) == /\ wchan[p] = None /\ Local(p)
            /\ \A q \in Procs \ {p} : wchan'[q] # None => wchan'[q] = wchan[q]

(* p moves or falls asleep; a buffer is at most marked WANTED or AGE. *)
Moves(p) ==
  /\ Alone(p) /\ UNCHANGED <<b_vp, bfreelist, io, v_numoutput>>
  /\ \A c \in Bufs : /\ b_flags[c] \subseteq b_flags'[c]
                     /\ b_flags'[c] \subseteq b_flags[c] \cup {"WANTED", "AGE"}
  /\ freewanted => freewanted'
  /\ \A v \in Vnodes : vbwait[v] => vbwait'[v]
  /\ (\A c \in Bufs : Owns(p, c)' => Owns(p, c)) /\ ProcOK(p)' /\ AsleepOK(p)'

(* p takes the free buffer b. *)
Takes(p, b) ==
  /\ Alone(p) /\ ~Has(b, "BUSY") /\ bfreelist' = FreeWithout(b)
  /\ \A c \in Bufs \ {b} : b_flags'[c] = b_flags[c] /\ b_vp'[c] = b_vp[c]
  /\ "BUSY" \in b_flags'[b] /\ "ASYNC" \notin b_flags'[b]
  /\ "DELWRI" \in b_flags'[b] => "DONE" \in b_flags'[b]
  /\ UNCHANGED <<io, v_numoutput, vbwait, freewanted, wchan, hold>>
  /\ bp'[p] = b /\ pc'[p] \in Callers \cup {"user"}

(* p starts reading b, for itself or (ahead) for whoever comes. *)
Reads(p, b, ahead) ==
  /\ Alone(p) /\ Mine(p, b) /\ Has(b, "BUSY") /\ b_flags[b] \cap {"DONE", "DELWRI"} = {}
  /\ b_flags' = [b_flags EXCEPT ![b] = @ \cup {"READ"} \cup (IF ahead THEN {"ASYNC"} ELSE {})]
  /\ io' = io \cup {b}
  /\ UNCHANGED <<b_vp, bfreelist, v_numoutput, vbwait, freewanted, wchan>>
  /\ \/ ahead /\ bp'[p] = None /\ UNCHANGED hold /\ pc'[p] = "breada_end"
     \/ ~ahead /\ bp'[p] = b /\ UNCHANGED hold /\ pc'[p] = "biowait"
     \/ ~ahead /\ bp'[p] = None /\ hold'[p] = b /\ pc'[p] = "breada_ra"

(* p starts writing b, which was free or its own. *)
Writes(p, b, fl) ==
  /\ Alone(p) /\ Mine(p, b) /\ bwrite(b, fl) /\ b_flags[b] \cup {"BUSY"} \subseteq fl
  /\ b_vp[b] # None
  /\ bfreelist' = FreeWithout(b) \/ (Has(b, "BUSY") /\ UNCHANGED bfreelist)
  /\ UNCHANGED <<wchan, hold>>
  /\ \/ "ASYNC" \notin fl /\ pc'[p] = "biowait" /\ bp'[p] = b
     \/ "ASYNC" \in fl /\ (pc'[p] \notin Holders \/ (pc'[p] = "user" /\ bp'[p] = None))

(* p releases b, which was its own, or just taken from its free list. *)
Frees(p, b, free, l, fl, C) ==
  /\ Alone(p) /\ Mine(p, b) /\ Free(free, l, b, fl, C)
  /\ WantB(b, fl) \cup WantFree \subseteq C /\ b_flags[b] \subseteq fl
  /\ "DELWRI" \in fl => "DONE" \in fl
  /\ free = FreeWithout(b) \/ (Has(b, "BUSY") /\ free = bfreelist)
  /\ UNCHANGED <<io, v_numoutput, vbwait, hold>>
  /\ bp'[p] = None /\ pc'[p] # "biowait"

LEMMA CountKept ==
  ASSUME OutputCounted, UNCHANGED v_numoutput, \A v \in Vnodes : Writing(v)' = Writing(v)
  PROVE  OutputCounted'
<1>1. \A v \in Vnodes : v_numoutput[v] = Cardinality(Writing(v))
  BY DEF OutputCounted, Writing
<1>2. \A v \in Vnodes : v_numoutput'[v] = Cardinality(Writing(v)')
  BY <1>1
<1>. QED  BY <1>2 DEF OutputCounted, Writing

LEMMA MovesOK ==
  ASSUME CacheInv, ControlInv', NEW p \in Procs, Moves(p)
  PROVE  CacheInv'
<1>1. \A c \in Bufs, f \in Flags \ {"WANTED", "AGE"} : f \in b_flags'[c] <=> f \in b_flags[c]
  BY DEF Moves
<1>2. \A c \in Bufs : /\ Has(c, "BUSY")' <=> Has(c, "BUSY")
                      /\ Has(c, "DONE")' <=> Has(c, "DONE")
                      /\ Has(c, "ASYNC")' <=> Has(c, "ASYNC")
                      /\ Has(c, "DELWRI")' <=> Has(c, "DELWRI")
                      /\ Has(c, "READ")' <=> Has(c, "READ")
  BY <1>1 DEF Has, Flags
<1>3. UNCHANGED <<io, b_vp, bfreelist, v_numoutput>> /\ Local(p)
  BY DEF Moves, Alone
<1>4. OwnInv'
  <2>1. \A c \in Bufs : BufOK(c)'
    BY <1>2, <1>3 DEF CacheInv, OwnInv, BufOK
  <2>2. ASSUME NEW q \in Procs \ {p} PROVE ProcOK(q)'
    <3>1. /\ pc'[q] = pc[q] /\ bp'[q] = bp[q] /\ hold'[q] = hold[q] /\ ProcOK(q)
      BY <1>3 DEF Local, CacheInv, OwnInv
    <3>2. \A c \in Bufs : Owns(q, c)' <=> Owns(q, c)
      BY <3>1 DEF Owns
    <3>3. bp[q] \in Bufs \cup {None} /\ hold[q] \in Bufs \cup {None}
      BY DEF CacheInv, ControlInv, TypeOK
    <3>4. pc[q] = "biowait" => bp[q] # None
      BY AtLabel DEF PointerAt, Pointing, CacheInv
    <3>5. \A c \in Bufs : Owns(q, c)' => Has(c, "BUSY")' /\ ~Has(c, "ASYNC")'
      BY <1>2, <3>1, <3>2 DEF ProcOK
    <3>6. /\ pc[q] = "biowait" => bp[q] \in io \/ "DONE" \in b_flags'[bp[q]]
          /\ hold[q] # None => hold[q] \in io \/ "DONE" \in b_flags'[hold[q]]
      BY <1>2, <3>1, <3>3, <3>4 DEF ProcOK, Has
    <3>. QED  BY <1>3, <3>1, <3>5, <3>6 DEF ProcOK, Has
  <2>3. Exclusive'
    <3>1. \A q \in Procs \ {p}, c \in Bufs : Owns(q, c)' <=> Owns(q, c)
      BY <1>3 DEF Owns, Local
    <3>2. \A c \in Bufs : Owns(p, c)' => Owns(p, c)
      BY DEF Moves
    <3>. QED  BY <3>1, <3>2 DEF Exclusive, OwnInv, CacheInv
  <2>. QED  BY <2>1, <2>2, <2>3 DEF OwnInv, Moves
<1>5. Fits(bfreelist', NotBusy')
  <2>1. NotBusy' = NotBusy
    BY <1>2 DEF NotBusy
  <2>. QED  BY <1>3, <2>1 DEF CacheInv
<1>6. OutputCounted'
  <2>1. \A v : Writing(v)' = Writing(v)
    BY <1>2, <1>3 DEF Writing, CacheInv, ControlInv, TypeOK
  <2>. QED  BY <1>3, <2>1, CountKept DEF CacheInv
<1>7. ASSUME NEW q \in Procs \ {p} PROVE AsleepOK(q)'
  <2>1. /\ pc'[q] = pc[q] /\ bp'[q] = bp[q] /\ (wchan'[q] # None => wchan'[q] = wchan[q])
    BY <1>3 DEF Local, Moves, Alone
  <2>2. \A c \in Bufs : Has(c, "WANTED") => Has(c, "WANTED")'
    BY DEF Moves, Has
  <2>3. wchan'[q] \in Bufs => wchan'[q] = wchan[q]
    BY <2>1, BufCacheAssumption DEF BufCacheAssumption
  <2>4. NoneFree => NoneFree'
    BY <1>3 DEF NoneFree
  <2>5. \A v \in Vnodes : vbwait[v] => vbwait'[v]
    BY DEF Moves
  <2>6. freewanted => freewanted'
    BY DEF Moves
  <2>7. wchan'[q] \in Vnodes => wchan'[q] = wchan[q]
    BY <2>1, BufCacheAssumption DEF BufCacheAssumption
  <2>8. wchan'[q] \in Bufs => /\ Has(wchan[q], "BUSY") => Has(wchan[q], "BUSY")'
                              /\ Has(wchan[q], "WANTED") => Has(wchan[q], "WANTED")'
                              /\ wchan[q] \in io => wchan[q] \in io'
    BY <1>2, <1>3, <2>2, <2>3 DEF Has
  <2>. QED  BY <1>3, <2>1, <2>4, <2>5, <2>6, <2>7, <2>8, SleepOK DEF CacheInv
<1>. QED  BY <1>4, <1>5, <1>6, <1>7 DEF CacheInv, Moves

LEMMA AwakeOK ==
  ASSUME NEW p \in Procs, wchan'[p] = None PROVE AsleepOK(p)'
  BY BufCacheAssumption DEF AsleepOK, BufCacheAssumption

(* The sleepers are as before, if b is no less busy, wanted and under I/O  *)
(* than before, or nobody sleeps on it.                                    *)
LEMMA SleepersOK ==
  ASSUME CacheInv, NEW p \in Procs, NEW b \in Bufs, Alone(p), wchan'[p] = None, Only(b),
         \/ \A q \in Procs : wchan'[q] # b
         \/ /\ Has(b, "BUSY") => "BUSY" \in b_flags'[b]
            /\ Has(b, "WANTED") => "WANTED" \in b_flags'[b]
            /\ b \in io => b \in io',
         \/ \A q \in Procs : wchan'[q] # FreeChan
         \/ (freewanted => freewanted') /\ (NoneFree => NoneFree'),
         UNCHANGED vbwait, \A v \in Vnodes : v_numoutput[v] > 0 => v_numoutput'[v] > 0
  PROVE  \A q \in Procs : AsleepOK(q)'
<1> SUFFICES ASSUME NEW q \in Procs \ {p} PROVE AsleepOK(q)'
  BY AwakeOK
<1>1. pc'[q] = pc[q] /\ bp'[q] = bp[q] /\ (wchan'[q] # None => wchan'[q] = wchan[q])
  BY DEF Local, Alone
<1>2. wchan'[q] \in Bufs \cup Vnodes => wchan'[q] = wchan[q]
  BY <1>1, BufCacheAssumption DEF BufCacheAssumption
<1>3. wchan'[q] \in Bufs => /\ Has(wchan[q], "BUSY") => Has(wchan[q], "BUSY")'
                            /\ Has(wchan[q], "WANTED") => Has(wchan[q], "WANTED")'
                            /\ wchan[q] \in io => wchan[q] \in io'
  <2>1. CASE wchan'[q] \in Bufs \ {b}
    <3>1. wchan'[q] = wchan[q] /\ wchan[q] \in Bufs \ {b}
      BY <1>2, <2>1
    <3>. QED  BY <3>1 DEF Only, Has
  <2>2. CASE wchan'[q] = b
    <3>1. wchan[q] = b
      BY <1>2, <2>2
    <3>. QED  BY <2>2, <3>1 DEF Has
  <2>. QED  BY <2>1, <2>2
<1>4. wchan'[q] = FreeChan /\ freewanted /\ NoneFree => freewanted' /\ NoneFree'
  OBVIOUS
<1>5. wchan'[q] \in Vnodes /\ vbwait[wchan[q]] /\ v_numoutput[wchan[q]] > 0 =>
        vbwait'[wchan[q]] /\ v_numoutput'[wchan[q]] > 0
  BY <1>2
<1>. QED  BY <1>1, <1>3, <1>4, <1>5, SleepOK DEF CacheInv

(* Nobody waits for the I/O of a buffer that p may use. *)
LEMMA MineUnwaited ==
  ASSUME CacheInv, NEW p \in Procs, NEW b \in Bufs, Mine(p, b), NEW q \in Procs, wchan[q] = b
  PROVE  pc[q] # "biowait" /\ Has(b, "BUSY") /\ Has(b, "WANTED")
  BY DEF CacheInv, AsleepOK, Mine

LEMMA EmptyWithout == ASSUME NoneFree, NEW b PROVE FreeWithout(b)["AGE"] = <<>> /\ FreeWithout(b)["LRU"] = <<>>
<1>1. \A i \in DOMAIN <<>> : FALSE
  OBVIOUS
<1>. QED  BY <1>1 DEF NoneFree, FreeWithout, Without, Queues

LEMMA TakesOK ==
  ASSUME CacheInv, ControlInv', NEW p \in Procs, NEW b \in Bufs, Takes(p, b)
  PROVE  CacheInv'
<1>1. Mine(p, b) /\ ~Has(b, "BUSY")
  BY FreeIsMine DEF Takes, CacheInv
<1>2. /\ Local(p) /\ Only(b) /\ UNCHANGED <<io, v_numoutput, vbwait, freewanted, wchan, hold>>
      /\ Alone(p) /\ wchan[p] = None /\ bp'[p] = b /\ pc'[p] \in Callers \cup {"user"}
  BY DEF Takes, Alone, Only
<1>3. pc'[p] \in Holders \ {"biowait"}
  BY <1>2 DEF Holders, Callers
<1>4. \A c \in Bufs : Owns(p, c)' <=> c = hold[p] \/ c = b
  BY <1>2, <1>3 DEF Owns
<1>5. BufOK(b)'
  BY <1>1, <1>2 DEF BufOK, Has, Takes, Mine
<1>6. ProcOK(p)'
  <2>1. /\ ProcOK(p) /\ hold[p] \in Bufs \cup {None} /\ hold[p] # b
    BY <1>1 DEF CacheInv, OwnInv, ControlInv, TypeOK, Mine
  <2>2. \A c \in Bufs : Owns(p, c)' => Has(c, "BUSY")' /\ ~Has(c, "ASYNC")'
    <3>1. hold[p] # None => Has(hold[p], "BUSY") /\ ~Has(hold[p], "ASYNC")
      BY <2>1 DEF ProcOK, Owns
    <3>2. ASSUME NEW c \in Bufs, c = hold[p] PROVE "BUSY" \in b_flags'[c] /\ "ASYNC" \notin b_flags'[c]
      BY <1>2, <2>1, <3>1, <3>2, BufCacheAssumption DEF Only, Has, BufCacheAssumption
    <3>. QED  BY <1>4, <3>2 DEF Takes, Has
  <2>3. hold[p] # None => hold[p] \in io \/ "DONE" \in b_flags'[hold[p]]
    BY <1>2, <2>1 DEF ProcOK, Only, Has
  <2>4. b \notin io'
    BY <1>1, <1>2 DEF Mine
  <2>. QED  BY <1>2, <1>3, <2>1, <2>2, <2>3, <2>4 DEF ProcOK, Has
<1>7. OwnInv'
  <2>1. \A q \in Procs \ {p} : ~Owns(q, b)
    BY <1>1 DEF Mine
  <2>2. \A c \in Bufs : Owns(p, c)' => Owns(p, c) \/ c = b
    BY <1>4 DEF Owns
  <2>. QED  BY <1>2, <1>5, <1>6, <2>1, <2>2, OwnStep DEF CacheInv
<1>8. Fits(bfreelist', NotBusy')
  <2>1. NotBusy' = NotBusy \ {b}
    BY <1>2 DEF NotBusy, Has, Takes
  <2>. QED  BY <2>1, TakeFits DEF CacheInv, Takes
<1>9. OutputCounted'
  <2>1. \A v : Writing(v)' = Writing(v)
    BY <1>1, <1>2 DEF Writing, Takes, Has, Mine, CacheInv, ControlInv, TypeOK
  <2>. QED  BY <1>2, <2>1, CountKept DEF CacheInv
<1>10. \A q \in Procs : AsleepOK(q)'
  <2>1. \A q \in Procs : wchan'[q] # b
    BY <1>1, <1>2, MineUnwaited
  <2>2. NoneFree => NoneFree'
    BY EmptyWithout DEF Takes, NoneFree
  <2>. QED  BY <1>2, <2>1, <2>2, SleepersOK
<1>. QED  BY <1>7, <1>8, <1>9, <1>10 DEF CacheInv

LEMMA ReadsOK ==
  ASSUME CacheInv, ControlInv', NEW p \in Procs, NEW b \in Bufs, NEW ahead \in BOOLEAN,
         Reads(p, b, ahead)
  PROVE  CacheInv'
<1>1. /\ Mine(p, b) /\ Has(b, "BUSY") /\ ~Has(b, "DONE") /\ ~Has(b, "DELWRI") /\ b \notin io
      /\ hold[p] # b /\ \A q \in Procs \ {p} : ~Owns(q, b)
  BY DEF Reads, Mine, Has
<1>2. /\ Local(p) /\ UNCHANGED <<b_vp, bfreelist, v_numoutput, vbwait, freewanted, wchan>>
      /\ Alone(p) /\ wchan[p] = None /\ io' = io \cup {b}
  BY DEF Reads, Alone
<1>3. /\ Only(b) /\ "READ" \in b_flags'[b] /\ b_flags[b] \subseteq b_flags'[b]
      /\ "DONE" \notin b_flags'[b] /\ "DELWRI" \notin b_flags'[b]
      /\ "ASYNC" \in b_flags'[b] <=> ahead
  BY <1>1 DEF Reads, Only, Has, Mine, CacheInv, ControlInv, TypeOK
<1>4. BufOK(b)'
  BY <1>1, <1>2, <1>3 DEF BufOK, Has
<1>5. hold[p] \in Bufs \cup {None} /\ ProcOK(p) /\ None \notin Bufs
  BY BufCacheAssumption DEF CacheInv, OwnInv, ControlInv, TypeOK, BufCacheAssumption
<1>6. hold[p] # None => /\ "BUSY" \in b_flags'[hold[p]] /\ "ASYNC" \notin b_flags'[hold[p]]
                        /\ hold[p] \in io' \/ "DONE" \in b_flags'[hold[p]]
  <2>1. hold[p] # None => /\ Has(hold[p], "BUSY") /\ ~Has(hold[p], "ASYNC")
                          /\ hold[p] \in io \/ Has(hold[p], "DONE")
    BY <1>5 DEF ProcOK, Owns
  <2>. QED  BY <1>1, <1>2, <1>3, <1>5, <2>1 DEF Only, Has
<1>7. /\ ProcOK(p)' /\ \A c \in Bufs : Owns(p, c)' => Owns(p, c) \/ c = b
  <2>1. CASE ahead /\ bp'[p] = None /\ UNCHANGED hold /\ pc'[p] = "breada_end"
    <3>1. \A c \in Bufs : Owns(p, c)' <=> c = hold[p]
      BY <1>5, <2>1 DEF Owns
    <3>. QED  BY <1>5, <1>6, <2>1, <3>1 DEF ProcOK, Has, Owns, Holders
  <2>2. CASE ~ahead /\ bp'[p] = b /\ UNCHANGED hold /\ pc'[p] = "biowait"
    <3>1. \A c \in Bufs : Owns(p, c)' <=> c = hold[p] \/ c = b
      BY <2>2 DEF Owns, Holders
    <3>2. "BUSY" \in b_flags'[b] /\ "ASYNC" \notin b_flags'[b] /\ b \in io'
      BY <1>1, <1>2, <1>3, <2>2 DEF Has
    <3>. QED  BY <1>1, <1>5, <1>6, <2>2, <3>1, <3>2 DEF ProcOK, Has, Owns, Holders
  <2>3. CASE ~ahead /\ bp'[p] = None /\ hold'[p] = b /\ pc'[p] = "breada_ra"
    <3>1. \A c \in Bufs : Owns(p, c)' <=> c = b
      BY <1>5, <2>3 DEF Owns
    <3>2. "BUSY" \in b_flags'[b] /\ "ASYNC" \notin b_flags'[b] /\ b \in io'
      BY <1>1, <1>2, <1>3, <2>3 DEF Has
    <3>. QED  BY <2>3, <3>1, <3>2 DEF ProcOK, Has, Owns, Holders
  <2>. QED  BY <2>1, <2>2, <2>3 DEF Reads
<1>8. OwnInv'
  BY <1>1, <1>2, <1>3, <1>4, <1>7, OwnStep DEF CacheInv
<1>9. Fits(bfreelist', NotBusy')
  <2>1. NotBusy' = NotBusy
    BY <1>1, <1>3 DEF NotBusy, Has, Only
  <2>. QED  BY <1>2, <2>1 DEF CacheInv
<1>10. OutputCounted'
  <2>1. \A v : Writing(v)' = Writing(v)
    BY <1>1, <1>2, <1>3 DEF Writing, Only, Has, CacheInv, ControlInv, TypeOK
  <2>. QED  BY <1>2, <2>1, CountKept DEF CacheInv
<1>11. \A q \in Procs : AsleepOK(q)'
  <2>1. NoneFree => NoneFree'
    BY <1>2 DEF NoneFree
  <2>. QED  BY <1>1, <1>2, <1>3, <2>1, SleepersOK DEF Has
<1>. QED  BY <1>8, <1>9, <1>10, <1>11 DEF CacheInv

LEMMA WritingFinite == ASSUME TypeOK, NEW v PROVE IsFiniteSet(Writing(v))
  BY FS_Subset, BufCacheAssumption DEF Writing, TypeOK, BufCacheAssumption

LEMMA WritesOK ==
  ASSUME CacheInv, ControlInv', NEW p \in Procs, NEW b \in Bufs, NEW fl, Writes(p, b, fl)
  PROVE  CacheInv'
<1>1. /\ Mine(p, b) /\ b \notin io /\ hold[p] # b /\ \A q \in Procs \ {p} : ~Owns(q, b)
  BY DEF Writes, Mine
<1>2. /\ Local(p) /\ UNCHANGED <<b_vp, vbwait, freewanted, wchan, hold>>
      /\ Alone(p) /\ wchan[p] = None /\ io' = io \cup {b}
      /\ v_numoutput' = [v_numoutput EXCEPT ![b_vp[b]] = @ + 1] /\ b_vp[b] \in Vnodes
  BY DEF Writes, Alone, bwrite, StartWrite, CacheInv, ControlInv, TypeOK
<1>3. /\ Only(b) /\ "READ" \notin b_flags'[b] /\ "BUSY" \in b_flags'[b]
      /\ Has(b, "WANTED") => "WANTED" \in b_flags'[b]
      /\ "DONE" \notin b_flags'[b] /\ "DELWRI" \notin b_flags'[b]
      /\ "ASYNC" \in b_flags'[b] <=> "ASYNC" \in fl
  <2>1. b_flags' = [b_flags EXCEPT ![b] = fl \ {"READ", "DONE", "ERROR", "DELWRI"}]
    BY DEF Writes, bwrite, StartWrite
  <2>2. /\ b_flags'[b] = fl \ {"READ", "DONE", "ERROR", "DELWRI"}
        /\ \A c \in Bufs \ {b} : b_flags'[c] = b_flags[c]
    BY <2>1 DEF CacheInv, ControlInv, TypeOK
  <2>3. Only(b)
    BY <1>2, <2>2 DEF Only
  <2>. QED  BY <2>2, <2>3 DEF Has, Writes
<1>4. BufOK(b)'
  BY <1>2, <1>3 DEF BufOK, Has
<1>5. hold[p] \in Bufs \cup {None} /\ ProcOK(p) /\ None \notin Bufs
  BY BufCacheAssumption DEF CacheInv, OwnInv, ControlInv, TypeOK, BufCacheAssumption
<1>6. hold[p] # None => /\ "BUSY" \in b_flags'[hold[p]] /\ "ASYNC" \notin b_flags'[hold[p]]
                        /\ hold[p] \in io' \/ "DONE" \in b_flags'[hold[p]]
  <2>1. hold[p] # None => /\ Has(hold[p], "BUSY") /\ ~Has(hold[p], "ASYNC")
                          /\ hold[p] \in io \/ Has(hold[p], "DONE")
    BY <1>5 DEF ProcOK, Owns
  <2>. QED  BY <1>1, <1>2, <1>3, <1>5, <2>1 DEF Only, Has
<1>7. ProcOK(p)' /\ \A c \in Bufs : Owns(p, c)' => Owns(p, c) \/ c = b
  <2>1. CASE "ASYNC" \notin fl /\ pc'[p] = "biowait" /\ bp'[p] = b
    <3>1. \A c \in Bufs : Owns(p, c)' <=> c = hold[p] \/ c = b
      BY <1>2, <2>1 DEF Owns, Holders
    <3>2. "BUSY" \in b_flags'[b] /\ "ASYNC" \notin b_flags'[b] /\ b \in io'
      BY <1>2, <1>3, <2>1
    <3>. QED  BY <1>1, <1>2, <1>5, <1>6, <2>1, <3>1, <3>2 DEF ProcOK, Has, Owns, Holders
  <2>2. CASE pc'[p] \notin Holders \/ (pc'[p] = "user" /\ bp'[p] = None)
    <3>1. \A c \in Bufs : Owns(p, c)' <=> c = hold[p]
      BY <1>2, <1>5, <2>2 DEF Owns
    <3>2. pc'[p] # "biowait" /\ None \notin io'
      BY <1>2, <1>5, <2>2 DEF Holders, CacheInv, ControlInv, TypeOK
    <3>. QED  BY <1>2, <1>5, <1>6, <2>2, <3>1, <3>2 DEF ProcOK, Has, Owns
  <2>. QED  BY <2>1, <2>2 DEF Writes
<1>8. OwnInv'
  BY <1>1, <1>2, <1>3, <1>4, <1>7, OwnStep DEF CacheInv
<1>9. Fits(bfreelist', NotBusy')
  <2>1. NotBusy' = NotBusy \ {b}
    BY <1>3 DEF NotBusy, Has, Only
  <2>2. CASE bfreelist' = FreeWithout(b)
    BY <2>1, <2>2, TakeFits DEF CacheInv
  <2>3. CASE Has(b, "BUSY") /\ UNCHANGED bfreelist
    <3>1. NotBusy \ {b} = NotBusy
      BY <2>3 DEF NotBusy
    <3>. QED  BY <2>1, <2>3, <3>1 DEF CacheInv
  <2>. QED  BY <2>2, <2>3 DEF Writes
<1>10. v_numoutput \in [Vnodes -> Int]
  BY DEF CacheInv, ControlInv, TypeOK
<1>11. OutputCounted'
  <2>1. \A v \in Vnodes \ {b_vp[b]} : Writing(v)' = Writing(v) /\ v_numoutput'[v] = v_numoutput[v]
    BY <1>1, <1>2, <1>3, <1>10 DEF Writing, Only, Has, CacheInv, ControlInv, TypeOK
  <2>2. /\ Writing(b_vp[b])' = Writing(b_vp[b]) \cup {b} /\ b \notin Writing(b_vp[b])
        /\ v_numoutput'[b_vp[b]] = v_numoutput[b_vp[b]] + 1
    <3>1. Writing(b_vp[b])' = {c \in io' : b_vp[c] = b_vp[b] /\ "READ" \notin b_flags'[c]}
      BY <1>2 DEF Writing, Has
    <3>2. \A c \in io : c \in Bufs \ {b} /\ b_flags'[c] = b_flags[c]
      BY <1>1, <1>3 DEF Only, CacheInv, ControlInv, TypeOK
    <3>. QED  BY <1>1, <1>2, <1>3, <1>10, <3>1, <3>2 DEF Writing, Has
  <2>3. Cardinality(Writing(b_vp[b]) \cup {b}) = Cardinality(Writing(b_vp[b])) + 1
    BY <2>2, WritingFinite, FS_AddElement DEF CacheInv, ControlInv
  <2>4. \A v \in Vnodes : v_numoutput[v] = Cardinality(Writing(v))
    BY DEF CacheInv, OutputCounted, Writing
  <2>5. \A v \in Vnodes : v_numoutput'[v] = Cardinality(Writing(v)')
    <3> SUFFICES ASSUME NEW v \in Vnodes PROVE v_numoutput'[v] = Cardinality(Writing(v)')
      OBVIOUS
    <3>1. CASE v = b_vp[b]
      <4>1. Writing(v)' = Writing(b_vp[b]) \cup {b}
        BY <1>2, <2>2, <3>1 DEF Writing
      <4>. QED  BY <2>2, <2>3, <2>4, <3>1, <4>1
    <3>2. CASE v # b_vp[b]
      BY <2>1, <2>4, <3>2
    <3>. QED  BY <3>1, <3>2
  <2>. QED  BY <2>5 DEF OutputCounted, Writing
<1>12. \A q \in Procs : AsleepOK(q)'
  <2>1. NoneFree => NoneFree'
    BY EmptyWithout DEF Writes, NoneFree
  <2>2. \A v \in Vnodes : v_numoutput[v] > 0 => v_numoutput'[v] > 0
    BY <1>2, <1>10
  <2>. QED  BY <1>1, <1>2, <1>3, <2>1, <2>2, SleepersOK
<1>. QED  BY <1>8, <1>9, <1>11, <1>12 DEF CacheInv

LEMMA FreesOK ==
  ASSUME CacheInv, ControlInv', NEW p \in Procs, NEW b \in Bufs, NEW free, NEW l, NEW fl, NEW C,
         Frees(p, b, free, l, fl, C)
  PROVE  CacheInv'
<1>1. /\ Mine(p, b) /\ b \notin io /\ hold[p] # b /\ \A q \in Procs \ {p} : ~Owns(q, b)
  BY DEF Frees, Mine
<1>2. /\ Local(p) /\ UNCHANGED <<io, v_numoutput, vbwait, hold>>
      /\ Alone(p) /\ wchan[p] = None /\ bp'[p] = None /\ pc'[p] # "biowait"
      /\ wchan' = [q \in Procs |-> IF wchan[q] \in C THEN None ELSE wchan[q]]
      /\ freewanted' = FALSE
  BY DEF Frees, Alone, Free, Wakeup
<1>3. /\ Only(b) /\ "BUSY" \notin b_flags'[b] /\ "ASYNC" \notin b_flags'[b]
      /\ "DELWRI" \in b_flags'[b] => "DONE" \in b_flags'[b]
      /\ \A c \in Bufs \ {b} : b_vp'[c] = b_vp[c]
  <2>1. /\ \A c \in Bufs \ {b} : b_flags'[c] = b_flags[c] /\ b_vp'[c] = b_vp[c]
    BY DEF Frees, Free, CacheInv, ControlInv, TypeOK
  <2>2. \E inv, dw : b_flags'[b] = (fl \cup inv) \ ({"WANTED", "BUSY", "ASYNC", "AGE"} \cup dw)
                     /\ inv \in {{}, {"INVAL"}} /\ dw \in {{}, {"DELWRI"}}
    BY DEF Frees, Free, CacheInv, ControlInv, TypeOK
  <2>3. "DELWRI" \in fl => "DONE" \in fl
    BY DEF Frees
  <2>. QED  BY <1>2, <2>1, <2>2, <2>3 DEF Only
<1>4. BufOK(b)'
  BY <1>1, <1>2, <1>3 DEF BufOK, Has
<1>5. hold[p] \in Bufs \cup {None} /\ ProcOK(p) /\ None \notin Bufs
  BY BufCacheAssumption DEF CacheInv, OwnInv, ControlInv, TypeOK, BufCacheAssumption
<1>6. hold[p] # None => /\ "BUSY" \in b_flags'[hold[p]] /\ "ASYNC" \notin b_flags'[hold[p]]
                        /\ hold[p] \in io' \/ "DONE" \in b_flags'[hold[p]]
  <2>1. hold[p] # None => /\ Has(hold[p], "BUSY") /\ ~Has(hold[p], "ASYNC")
                          /\ hold[p] \in io \/ Has(hold[p], "DONE")
    BY <1>5 DEF ProcOK, Owns
  <2>. QED  BY <1>1, <1>2, <1>3, <1>5, <2>1 DEF Only, Has
<1>7. ProcOK(p)' /\ \A c \in Bufs : Owns(p, c)' => Owns(p, c) \/ c = b
  <2>1. \A c \in Bufs : Owns(p, c)' <=> c = hold[p]
    BY <1>2, <1>5 DEF Owns
  <2>2. None \notin io'
    BY <1>2, <1>5 DEF CacheInv, ControlInv, TypeOK
  <2>. QED  BY <1>2, <1>5, <1>6, <2>1, <2>2 DEF ProcOK, Has, Owns
<1>8. OwnInv'
  BY <1>1, <1>2, <1>3, <1>4, <1>7, OwnStep DEF CacheInv
<1>9. Fits(bfreelist', NotBusy')
  <2>1. NotBusy' = (NotBusy \ {b}) \cup {b}
    BY <1>3 DEF NotBusy, Has, Only
  <2>2. Fits(free, NotBusy \ {b})
    <3>1. CASE free = FreeWithout(b)
      BY <3>1, TakeFits DEF CacheInv
    <3>2. CASE Has(b, "BUSY") /\ free = bfreelist
      <4>1. NotBusy \ {b} = NotBusy
        BY <3>2 DEF NotBusy
      <4>. QED  BY <3>2, <4>1 DEF CacheInv
    <3>. QED  BY <3>1, <3>2 DEF Frees
  <2>3. PICK q \in Queues : \/ bfreelist' = [free EXCEPT ![q] = Append(free[q], b)]
                            \/ bfreelist' = [free EXCEPT ![q] = <<b>> \o free[q]]
    BY DEF Frees, Free, Queues
  <2>4. b \notin NotBusy \ {b}
    OBVIOUS
  <2>5. \A t : t = Append(free[q], b) \/ t = <<b>> \o free[q] => Fits([free EXCEPT ![q] = t], NotBusy')
    BY <2>1, <2>2, <2>4, PutFits
  <2>. QED  BY <2>3, <2>5
<1>10. OutputCounted'
  <2>1. \A v : Writing(v)' = Writing(v)
    BY <1>1, <1>2, <1>3 DEF Writing, Only, Has, CacheInv, ControlInv, TypeOK
  <2>. QED  BY <1>2, <2>1, CountKept DEF CacheInv
<1>11. \A q \in Procs : AsleepOK(q)'
  <2>1. ASSUME NEW q \in Procs, wchan'[q] = b PROVE FALSE
    <3>1. wchan[q] = b /\ b \notin C
      BY <1>2, <1>5, <2>1
    <3>2. Has(b, "WANTED")
      BY <1>1, <3>1, MineUnwaited
    <3>3. "WANTED" \in fl /\ WantB(b, fl) \subseteq C
      BY <3>2 DEF Frees, Has
    <3>. QED  BY <3>1, <3>3 DEF WantB
  <2>2. ASSUME NEW q \in Procs, wchan'[q] = FreeChan PROVE FALSE
    <3>1. wchan[q] = FreeChan /\ FreeChan \notin C
      BY <1>2, <2>2, BufCacheAssumption DEF BufCacheAssumption
    <3>2. freewanted
      BY <3>1 DEF CacheInv, AsleepOK
    <3>3. WantFree \subseteq C
      BY DEF Frees
    <3>. QED  BY <3>1, <3>2, <3>3 DEF WantFree
  <2>3. wchan'[p] = None
    BY <1>2
  <2>. QED  BY <1>2, <1>3, <2>1, <2>2, <2>3, SleepersOK
<1>. QED  BY <1>8, <1>9, <1>10, <1>11 DEF CacheInv

-----------------------------------------------------------------------------
(* The disk interrupt.                                                     *)

(* The write that ends was counted. *)
LEMMA CountsDown ==
  ASSUME CacheInv, NEW b \in io, ~Has(b, "READ"), b_vp[b] # None
  PROVE  /\ b_vp[b] \in Vnodes /\ v_numoutput[b_vp[b]] \in Int /\ v_numoutput[b_vp[b]] >= 1
         /\ Cardinality(Writing(b_vp[b]) \ {b}) = v_numoutput[b_vp[b]] - 1
<1>1. b_vp[b] \in Vnodes /\ b \in Writing(b_vp[b])
  BY DEF CacheInv, ControlInv, TypeOK, Writing
<1>2. v_numoutput[b_vp[b]] = Cardinality(Writing(b_vp[b])) /\ v_numoutput[b_vp[b]] \in Int
  BY <1>1 DEF CacheInv, OutputCounted, Writing, ControlInv, TypeOK
<1>3. /\ IsFiniteSet(Writing(b_vp[b]) \ {b})
      /\ Cardinality(Writing(b_vp[b]) \ {b}) = Cardinality(Writing(b_vp[b])) - 1
  BY <1>1, WritingFinite, FS_RemoveElement DEF CacheInv, ControlInv
<1>4. Cardinality(Writing(b_vp[b]) \ {b}) \in Nat
  BY <1>3, FS_CardinalityType
<1>. QED  BY <1>1, <1>2, <1>3, <1>4

(* "dup biodone" and "biodone: neg numoutput" are never reached. *)
LEMMA BiodoneInOrder ==
  ASSUME CacheInv, NEW b \in Bufs, NEW failed \in BOOLEAN, Biodone(b, failed)
  PROVE  LET fl == b_flags[b] \cup {"DONE"} \cup (IF failed THEN {"ERROR"} ELSE {})
             v  == b_vp[b]
             wr == "READ" \notin b_flags[b] /\ v # None
             idle == wr /\ vbwait[v] /\ v_numoutput[v] - 1 <= 0
             chans == IF idle THEN {v} ELSE {}
         IN /\ b \in io /\ io' = io \ {b} /\ ~Has(b, "DONE")
            /\ IF wr THEN v_numoutput' = [v_numoutput EXCEPT ![v] = v_numoutput[v] - 1]
                     ELSE UNCHANGED v_numoutput
            /\ vbwait' = IF idle THEN [vbwait EXCEPT ![v] = FALSE] ELSE vbwait
            /\ IF "ASYNC" \in b_flags[b]
               THEN Free(bfreelist, b_list[b], b, fl, chans \cup WantB(b, fl) \cup WantFree)
               ELSE /\ b_flags' = [b_flags EXCEPT ![b] = fl \ {"WANTED"}]
                    /\ Wakeup(chans \cup {b})
                    /\ UNCHANGED <<b_vp, b_lblkno, b_bcount, b_list, bfreelist, freewanted>>
            /\ UNCHANGED <<cpu, pc, stack, want, err, bp, hold, todo, panicked>>
<1> DEFINE fl == b_flags[b] \cup {"DONE"} \cup (IF failed THEN {"ERROR"} ELSE {})
           v  == b_vp[b]
           wr == "READ" \notin fl
           out == IF wr /\ v # None THEN v_numoutput[v] - 1 ELSE 0
           idle == wr /\ v # None /\ vbwait[v] /\ out <= 0
           chans == IF idle THEN {v} ELSE {}
<1>1. b \in io /\ ~Has(b, "DONE")
  BY DEF Biodone, CacheInv, OwnInv, BufOK
<1>2. wr <=> "READ" \notin b_flags[b]
  OBVIOUS
<1>3. ~(idle /\ out < 0)
  <2> SUFFICES ASSUME idle PROVE ~(out < 0)
    OBVIOUS
  <2>1. ~Has(b, "READ") /\ v # None
    BY <1>2 DEF Has
  <2>2. v_numoutput[v] \in Int /\ v_numoutput[v] >= 1
    BY <1>1, <2>1, CountsDown
  <2>3. out = v_numoutput[v] - 1
    OBVIOUS
  <2>. QED  BY <2>2, <2>3
<1>4. ~(Has(b, "DONE") \/ (idle /\ out < 0))
  BY <1>1, <1>3
<1>5. /\ io' = io \ {b}
      /\ v_numoutput' = IF wr /\ v # None THEN [v_numoutput EXCEPT ![v] = out] ELSE v_numoutput
      /\ vbwait' = IF idle THEN [vbwait EXCEPT ![v] = FALSE] ELSE vbwait
      /\ IF "ASYNC" \in fl
         THEN Free(bfreelist, b_list[b], b, fl, chans \cup WantB(b, fl) \cup WantFree)
         ELSE /\ b_flags' = [b_flags EXCEPT ![b] = fl \ {"WANTED"}]
              /\ Wakeup(chans \cup {b})
              /\ UNCHANGED <<b_vp, b_lblkno, b_bcount, b_list, bfreelist, freewanted>>
      /\ UNCHANGED <<cpu, pc, stack, want, err, bp, hold, todo, panicked>>
  BY <1>4 DEF Biodone, brelse, brelseFrom, locals
<1>6. "ASYNC" \in fl <=> "ASYNC" \in b_flags[b]
  OBVIOUS
<1>. QED  BY <1>1, <1>2, <1>5, <1>6

LEMMA BiodoneOK ==
  ASSUME CacheInv, ControlInv', NEW b \in Bufs, NEW failed \in BOOLEAN, Biodone(b, failed)
  PROVE  CacheInv'
<1> DEFINE fl == b_flags[b] \cup {"DONE"} \cup (IF failed THEN {"ERROR"} ELSE {})
           v  == b_vp[b]
           wr == "READ" \notin b_flags[b] /\ v # None
           idle == wr /\ vbwait[v] /\ v_numoutput[v] - 1 <= 0
           chans == IF idle THEN {v} ELSE {}
           async == "ASYNC" \in b_flags[b]
           C == IF async THEN chans \cup WantB(b, fl) \cup WantFree ELSE chans \cup {b}
<1>1. /\ b \in io /\ io' = io \ {b} /\ ~Has(b, "DONE") /\ Has(b, "BUSY")
      /\ IF wr THEN v_numoutput' = [v_numoutput EXCEPT ![v] = v_numoutput[v] - 1]
               ELSE UNCHANGED v_numoutput
      /\ vbwait' = IF idle THEN [vbwait EXCEPT ![v] = FALSE] ELSE vbwait
      /\ UNCHANGED <<pc, stack, want, err, bp, hold, todo, panicked>>
  BY BiodoneInOrder DEF CacheInv, OwnInv, BufOK
<1>2. IF async THEN Free(bfreelist, b_list[b], b, fl, C)
      ELSE /\ b_flags' = [b_flags EXCEPT ![b] = fl \ {"WANTED"}]
           /\ UNCHANGED <<b_vp, b_lblkno, b_bcount, b_list, bfreelist, freewanted>>
  BY BiodoneInOrder
<1>3. wchan' = [q \in Procs |-> IF wchan[q] \in C THEN None ELSE wchan[q]]
  <2>1. CASE async
    BY <1>2, <2>1 DEF Free, Wakeup
  <2>2. CASE ~async
    BY <2>2, BiodoneInOrder DEF Wakeup
  <2>. QED  BY <2>1, <2>2
<1>4. "DONE" \in fl /\ b_flags[b] \subseteq fl /\ fl \subseteq b_flags[b] \cup {"DONE", "ERROR"}
  OBVIOUS
<1>5. \A c \in Bufs \ {b} : b_flags'[c] = b_flags[c] /\ b_vp'[c] = b_vp[c]
  BY <1>2 DEF Free, CacheInv, ControlInv, TypeOK
<1>6. async => "BUSY" \notin b_flags'[b] /\ "ASYNC" \notin b_flags'[b] /\ "DONE" \in b_flags'[b]
  <2> SUFFICES ASSUME async
               PROVE  "BUSY" \notin b_flags'[b] /\ "ASYNC" \notin b_flags'[b] /\ "DONE" \in b_flags'[b]
    OBVIOUS
  <2> HIDE DEF fl, C
  <2>1. PICK inv \in {{}, {"INVAL"}}, dw \in {{}, {"DELWRI"}} :
          b_flags'[b] = (fl \cup inv) \ ({"WANTED", "BUSY", "ASYNC", "AGE"} \cup dw)
    BY <1>2 DEF Free, CacheInv, ControlInv, TypeOK
  <2>. QED  BY <1>4, <2>1
<1>7. ~async => "BUSY" \in b_flags'[b] /\ "ASYNC" \notin b_flags'[b] /\ "DONE" \in b_flags'[b]
  <2> HIDE DEF fl, C
  <2>1. ~async => b_flags'[b] = fl \ {"WANTED"}
    BY <1>2 DEF CacheInv, ControlInv, TypeOK
  <2>. QED  BY <1>1, <1>4, <2>1 DEF Has
<1> HIDE DEF fl, C
<1>8. OwnInv'
  <2>1. \A q \in Procs, c \in Bufs : Owns(q, c)' <=> Owns(q, c)
    BY <1>1 DEF Owns
  <2>2. \A c \in Bufs : BufOK(c)'
    <3>1. BufOK(b)'
      BY <1>1, <1>6, <1>7 DEF BufOK, Has
    <3>2. \A c \in Bufs \ {b} : BufOK(c)'
      BY <1>1, <1>5 DEF CacheInv, OwnInv, BufOK, Has
    <3>. QED  BY <3>1, <3>2
  <2>3. ASSUME NEW q \in Procs PROVE ProcOK(q)'
    <3>1. ProcOK(q) /\ bp[q] \in Bufs \cup {None} /\ hold[q] \in Bufs \cup {None}
      BY DEF CacheInv, OwnInv, ControlInv, TypeOK
    <3>2. \A c \in Bufs : Owns(q, c) => "BUSY" \in b_flags'[c] /\ "ASYNC" \notin b_flags'[c]
      BY <1>5, <1>7, <3>1 DEF ProcOK, Has
    <3>3. \A c \in Bufs : c \in io \/ Has(c, "DONE") => c \in io' \/ "DONE" \in b_flags'[c]
      BY <1>1, <1>5, <1>6, <1>7 DEF Has
    <3>4. pc[q] = "biowait" => bp[q] # None
      BY AtLabel DEF PointerAt, Pointing, CacheInv
    <3>5. pc[q] \in Holders \ {"biowait"} => bp[q] \notin io'
      BY <1>1, <3>1 DEF ProcOK
    <3>. QED  BY <1>1, <2>1, <3>1, <3>2, <3>3, <3>4, <3>5 DEF ProcOK, Has
  <2>. QED  BY <2>1, <2>2, <2>3 DEF OwnInv, CacheInv, Exclusive
<1>9. Fits(bfreelist', NotBusy')
  <2>1. CASE async
    <3>1. NotBusy' = NotBusy \cup {b} /\ b \notin NotBusy
      BY <1>1, <1>5, <1>6, <2>1 DEF NotBusy, Has
    <3>2. PICK q \in Queues : \/ bfreelist' = [bfreelist EXCEPT ![q] = Append(bfreelist[q], b)]
                              \/ bfreelist' = [bfreelist EXCEPT ![q] = <<b>> \o bfreelist[q]]
      BY <1>2, <2>1 DEF Free, Queues
    <3>3. \A t : t = Append(bfreelist[q], b) \/ t = <<b>> \o bfreelist[q]
                  => Fits([bfreelist EXCEPT ![q] = t], NotBusy')
      BY <3>1, PutFits DEF CacheInv
    <3>. QED  BY <3>2, <3>3
  <2>2. CASE ~async
    <3>1. NotBusy' = NotBusy
      BY <1>1, <1>5, <1>7, <2>2 DEF NotBusy, Has
    <3>. QED  BY <1>2, <2>2, <3>1 DEF CacheInv
  <2>. QED  BY <2>1, <2>2
<1>10. \A u : Writing(u)' = Writing(u) \ {b}
  <2>1. \A c \in io' : c \in io /\ b_flags'[c] = b_flags[c] /\ b_vp'[c] = b_vp[c]
    BY <1>1, <1>5 DEF CacheInv, ControlInv, TypeOK
  <2>. QED  BY <1>1, <2>1 DEF Writing, Has
<1>11. v_numoutput \in [Vnodes -> Int] /\ vbwait \in [Vnodes -> BOOLEAN]
  BY DEF CacheInv, ControlInv, TypeOK
<1>12. OutputCounted'
  <2>1. \A u \in Vnodes : v_numoutput[u] = Cardinality(Writing(u))
    BY DEF CacheInv, OutputCounted, Writing
  <2>2. ASSUME NEW u \in Vnodes PROVE v_numoutput'[u] = Cardinality(Writing(u)')
    <3>1. CASE wr /\ u = v
      <4>1. Cardinality(Writing(v) \ {b}) = v_numoutput[v] - 1
        BY <1>1, <3>1, CountsDown DEF Has
      <4>. QED  BY <1>1, <1>10, <1>11, <3>1, <4>1
    <3>2. CASE ~(wr /\ u = v)
      <4>1. b \notin Writing(u)
        BY <3>2, BufCacheAssumption DEF Writing, Has, BufCacheAssumption
      <4>2. Writing(u)' = Writing(u)
        BY <1>10, <4>1
      <4>. QED  BY <1>1, <1>11, <2>1, <3>2, <4>2
    <3>. QED  BY <3>1, <3>2
  <2>. QED  BY <2>2 DEF OutputCounted, Writing
<1>13. ASSUME NEW q \in Procs PROVE AsleepOK(q)'
  <2> SUFFICES ASSUME wchan'[q] # None PROVE AsleepOK(q)'
    BY AwakeOK
  <2>1. pc'[q] = pc[q] /\ bp'[q] = bp[q] /\ wchan[q] \notin C /\ wchan'[q] = wchan[q]
    BY <1>1, <1>3
  <2>2. AsleepOK(q)
    BY DEF CacheInv
  <2>3. wchan[q] # b
    <3> SUFFICES ASSUME wchan[q] = b PROVE FALSE
      OBVIOUS
    <3>1. async
      BY <2>1 DEF C
    <3>2. CASE pc[q] = "biowait"
      <4>1. Owns(q, b)
        BY <2>2, <3>2 DEF AsleepOK, Owns, Holders
      <4>. QED  BY <3>1, <4>1 DEF CacheInv, OwnInv, ProcOK, Has
    <3>3. CASE pc[q] # "biowait"
      <4>1. "WANTED" \in fl
        BY <1>4, <2>2, <3>3 DEF AsleepOK, Has
      <4>. QED  BY <2>1, <3>1, <4>1 DEF C, WantB
    <3>. QED  BY <3>2, <3>3
  <2>4. wchan[q] = FreeChan /\ freewanted => ~async
    BY <2>1 DEF C, WantFree
  <2>5. wchan[q] = FreeChan /\ freewanted /\ NoneFree => freewanted' /\ NoneFree'
    BY <1>2, <2>4 DEF NoneFree
  <2>6. wchan'[q] \in Bufs => /\ Has(wchan[q], "BUSY") => Has(wchan[q], "BUSY")'
                              /\ Has(wchan[q], "WANTED") => Has(wchan[q], "WANTED")'
                              /\ wchan[q] \in io => wchan[q] \in io'
    BY <1>1, <1>5, <2>1, <2>3 DEF Has
  <2>7. ASSUME wchan[q] \in Vnodes, vbwait[wchan[q]], v_numoutput[wchan[q]] > 0
        PROVE  vbwait'[wchan[q]] /\ v_numoutput'[wchan[q]] > 0
    <3>1. CASE wr /\ wchan[q] = v
      <4>1. ~idle
        BY <2>1, <3>1 DEF C
      <4>. QED  BY <1>1, <1>11, <2>7, <3>1, <4>1
    <3>2. CASE ~(wr /\ wchan[q] = v)
      BY <1>1, <1>11, <2>7, <3>2
    <3>. QED  BY <3>1, <3>2
  <2>. QED  BY <2>1, <2>2, <2>5, <2>6, <2>7, SleepOK DEF CacheInv
<1>. QED  BY <1>8, <1>9, <1>12, <1>13 DEF CacheInv

-----------------------------------------------------------------------------
(* Every action is a step of one of the kinds.                             *)

(* p leaves the buffer it had, if any. *)
LEMMA MovesAway ==
  ASSUME CacheInv, ControlInv', NEW p \in Procs, Alone(p),
         UNCHANGED <<b_vp, bfreelist, io, v_numoutput, hold>>,
         \A c \in Bufs : /\ b_flags[c] \subseteq b_flags'[c]
                         /\ b_flags'[c] \subseteq b_flags[c] \cup {"WANTED", "AGE"},
         freewanted => freewanted', \A v \in Vnodes : vbwait[v] => vbwait'[v],
         pc'[p] \notin Holders \/ (bp'[p] = None /\ pc'[p] # "biowait"), AsleepOK(p)'
  PROVE  CacheInv'
<1>1. ProcOK(p) /\ hold[p] \in Bufs \cup {None} /\ None \notin Bufs \cup io /\ "biowait" \in Holders
  BY BufCacheAssumption DEF CacheInv, OwnInv, ControlInv, TypeOK, BufCacheAssumption, Holders
<1>2. \A c \in Bufs : Owns(p, c)' <=> c = hold[p]
  BY <1>1 DEF Owns
<1>3. /\ hold[p] # None => /\ "BUSY" \in b_flags'[hold[p]] /\ "ASYNC" \notin b_flags'[hold[p]]
                           /\ hold[p] \in io' \/ "DONE" \in b_flags'[hold[p]]
  <2>1. hold[p] # None => /\ "BUSY" \in b_flags[hold[p]] /\ "ASYNC" \notin b_flags[hold[p]]
                          /\ hold[p] \in io \/ "DONE" \in b_flags[hold[p]]
    BY <1>1 DEF ProcOK, Owns, Has
  <2>. QED  BY <1>1, <2>1
<1>4. ProcOK(p)'
  BY <1>1, <1>2, <1>3 DEF ProcOK, Has
<1>5. \A c \in Bufs : Owns(p, c)' => Owns(p, c)
  BY <1>2 DEF Owns
<1>. QED  BY <1>4, <1>5, MovesOK DEF Moves

(* p goes on at a label where it has no buffer. *)
LEMMA WalksOK ==
  ASSUME CacheInv, ControlInv', NEW p \in Procs, wchan[p] = None, Local(p),
         UNCHANGED <<bufvars, vnvars, io, wchan, hold>>,
         pc'[p] \notin Holders \/ (bp'[p] = None /\ pc'[p] # "biowait")
  PROVE  CacheInv'
<1>1. UNCHANGED <<b_flags, b_vp, bfreelist, freewanted, v_numoutput, vbwait>>
  BY DEF bufvars, vnvars
<1>2. Alone(p) /\ AsleepOK(p)'
  BY AwakeOK DEF Alone
<1>. QED  BY <1>1, <1>2, MovesAway

LEMMA OwnSearch ==
  ASSUME CacheInv, ControlInv', NEW p \in Procs, GetblkSearch(p) PROVE CacheInv'
<1>1. /\ wchan[p] = None /\ UNCHANGED <<bufvars, vnvars, io, wchan, hold, stack, want>>
  BY DEF GetblkSearch, At, CanRun
<1>2. PICK l \in {"found", "getnewbuf"} : pc' = [pc EXCEPT ![p] = l]
  BY DEF GetblkSearch, Goto
<1>3. UNCHANGED bp \/ \E b \in Bufs : bp' = [bp EXCEPT ![p] = b]
  BY DEF GetblkSearch, Cached
<1>4. Local(p) /\ pc'[p] = l
  BY <1>1, <1>2, <1>3 DEF Local, CacheInv, ControlInv, TypeOK
<1>. QED  BY <1>1, <1>4, WalksOK DEF Holders

LEMMA OwnBreada ==
  ASSUME CacheInv, ControlInv', NEW p \in Procs, Breada(p) \/ BreadaAhead(p) PROVE CacheInv'
<1>1. /\ wchan[p] = None /\ UNCHANGED <<bufvars, vnvars, io, wchan, hold, bp>>
      /\ pc[p] \in {"breada", "breada_ra"}
  BY DEF Breada, BreadaAhead, At, CanRun
<1>2. PICK l \in {"breada_ra", "breada_end", "getblk"} : pc' = [pc EXCEPT ![p] = l]
  BY DEF Breada, BreadaAhead, Goto, Call
<1>3. UNCHANGED want \/ \E w : want' = [want EXCEPT ![p] = w]
  <2>1. CASE Swap(p)
    <3>1. want \in [Procs -> Request \cup {None}]
      BY DEF CacheInv, ControlInv, TypeOK
    <3>2. want' = [want EXCEPT ![p] = [[want[p] EXCEPT !.blk = want[p].ra] EXCEPT !.ra = want[p].blk]]
      BY <2>1, <3>1 DEF Swap
    <3>. QED  BY <3>2
  <2>. QED  BY <2>1 DEF Breada, BreadaAhead
<1>4. UNCHANGED stack \/ \E s : stack' = [stack EXCEPT ![p] = s]
  BY DEF Breada, BreadaAhead, Call
<1>5. Local(p) /\ pc'[p] = l
  BY <1>1, <1>2, <1>3, <1>4 DEF Local, CacheInv, ControlInv, TypeOK
<1>. QED  BY <1>1, <1>5, WalksOK DEF Holders

(* Return() moves no other process. *)
LEMMA ReturnLocal ==
  ASSUME CacheInv, NEW p \in Procs, Return(p)
  PROVE  /\ \A q \in Procs \ {p} : pc'[q] = pc[q] /\ stack'[q] = stack[q]
         /\ pc'[p] = Head(stack[p])
  BY DEF Return, CacheInv, ControlInv, TypeOK

LEMMA OwnWalks ==
  ASSUME CacheInv, ControlInv', NEW p \in Procs,
         \/ VflushStart(p) \/ VflushSkip(p) \/ VflushScanned(p) \/ VflushDone(p)
         \/ VinvalList(p) \/ VinvalScan(p)
  PROVE  CacheInv'
<1>1. /\ wchan[p] = None /\ UNCHANGED <<bufvars, vnvars, io, wchan, hold>>
      /\ pc[p] \in {"vflush", "vflush_scan", "vflush_wait", "vinval", "vinval_scan"}
  BY DEF VflushStart, VflushSkip, VflushScanned, VflushDone, VinvalList, VinvalScan, At, CanRun
<1>2. bp[p] = None
  BY <1>1, AtLabel DEF PointerAt, Pointless, CacheInv
<1>3. CASE Return(p) /\ want' = [want EXCEPT ![p] = None] /\ UNCHANGED bp
  <2>1. pc'[p] = "user"
    BY <1>1, <1>3, ReturnsToUser DEF OneDeep, CacheInv
  <2>2. Local(p)
    BY <1>1, <1>3, ReturnLocal DEF Local, CacheInv, ControlInv, TypeOK
  <2>. QED  BY <1>1, <1>2, <1>3, <2>1, <2>2, WalksOK
<1>4. CASE /\ UNCHANGED <<stack, want>> /\ (UNCHANGED bp \/ \E b \in Bufs : bp' = [bp EXCEPT ![p] = b])
           /\ \E l \in OneDeep \ {"bread", "breada_io", "ra_io"} : pc' = [pc EXCEPT ![p] = l]
  <2>1. PICK l \in OneDeep \ {"bread", "breada_io", "ra_io"} : pc' = [pc EXCEPT ![p] = l]
    BY <1>4
  <2>2. Local(p) /\ pc'[p] = l
    BY <1>1, <1>4, <2>1 DEF Local, CacheInv, ControlInv, TypeOK
  <2>. QED  BY <1>1, <2>2, WalksOK DEF OneDeep, Holders
<1>5. ASSUME VflushSkip(p)
      PROVE  UNCHANGED <<stack, want, bp>> /\ pc' = [pc EXCEPT ![p] = "vflush_scan"]
  BY <1>5 DEF VflushSkip, At, CacheInv, ControlInv, TypeOK
<1>6. ASSUME VinvalScan(p)
      PROVE  /\ UNCHANGED <<stack, want>> /\ pc' = [pc EXCEPT ![p] = "vinval_take"]
             /\ \E b \in Bufs : bp' = [bp EXCEPT ![p] = b]
  <2>1. todo[p] \subseteq Bufs
    BY DEF CacheInv, ControlInv, TypeOK
  <2>. QED  BY <1>6, <2>1 DEF VinvalScan, Goto
<1>7. {"vflush", "vflush_scan", "vflush_wait", "vinval_scan", "vinval_take"}
        \subseteq OneDeep \ {"bread", "breada_io", "ra_io"}
  BY DEF OneDeep
<1>8. ASSUME VflushStart(p) \/ VflushScanned(p) \/ VflushDone(p) \/ VinvalList(p)
      PROVE  /\ UNCHANGED bp
             /\ \/ Return(p) /\ want' = [want EXCEPT ![p] = None]
                \/ /\ UNCHANGED <<stack, want>>
                   /\ \E l \in {"vflush", "vflush_scan", "vflush_wait", "vinval_scan"} :
                        pc' = [pc EXCEPT ![p] = l]
  BY <1>8 DEF VflushStart, VflushScanned, VflushDone, VinvalList, Goto
<1>. QED  BY <1>3, <1>4, <1>5, <1>6, <1>7, <1>8

LEMMA OwnEnters ==
  ASSUME CacheInv, ControlInv', NEW p \in Procs, Enters(p) PROVE CacheInv'
<1>1. /\ wchan[p] = None /\ UNCHANGED <<bufvars, vnvars, io, wchan, hold, bp>>
  BY DEF Enters, CallBread, CallBaddr, CallBreada, CallGetblk, CallGeteblk, CallVflushbuf,
     CallVinvalbuf, Enter, Idle, At, CanRun
<1>2. PICK l, s, w :
        /\ l \in {"breada", "getblk", "getnewbuf", "vflush", "vinval"}
        /\ pc' = [pc EXCEPT ![p] = l] /\ stack' = [stack EXCEPT ![p] = s]
        /\ want' = [want EXCEPT ![p] = w]
  BY DEF Enters, CallBread, CallBaddr, CallBreada, CallGetblk, CallGeteblk, CallVflushbuf,
     CallVinvalbuf, Enter, Goto
<1>3. Local(p) /\ pc'[p] = l
  BY <1>1, <1>2 DEF Local, CacheInv, ControlInv, TypeOK
<1>. QED  BY <1>1, <1>2, <1>3, WalksOK DEF Holders

LEMMA OwnBusy ==
  ASSUME CacheInv, ControlInv', NEW p \in Procs, GetblkBusy(p) \/ VinvalBusy(p) PROVE CacheInv'
<1> DEFINE b == bp[p]
<1>1. /\ pc[p] \in {"found", "vinval_take"} /\ wchan[p] = None /\ Has(b, "BUSY")
      /\ b_flags' = [b_flags EXCEPT ![b] = @ \cup {"WANTED"}]
      /\ bp' = [bp EXCEPT ![p] = None] /\ wchan' = [wchan EXCEPT ![p] = b]
      /\ UNCHANGED <<b_vp, bfreelist, freewanted, vnvars, io, stack, want, hold>>
  BY DEF GetblkBusy, WaitFor, VinvalBusy, At, CanRun, Sleep
<1>2. PICK l \in {"getblk", "vinval"} : pc' = [pc EXCEPT ![p] = l]
  BY DEF GetblkBusy, WaitFor, VinvalBusy, Sleep
<1>3. b \in Bufs
  BY <1>1, AtLabel DEF PointerAt, Pointing, CacheInv, ControlInv, TypeOK
<1> HIDE DEF b
<1>4. /\ \A q \in Procs \ {p} : wchan'[q] = wchan[q]
      /\ Local(p) /\ pc'[p] = l /\ wchan'[p] = b
  BY <1>1, <1>2 DEF Local, CacheInv, ControlInv, TypeOK
<1>5. /\ \A c \in Bufs : /\ b_flags[c] \subseteq b_flags'[c]
                         /\ b_flags'[c] \subseteq b_flags[c] \cup {"WANTED", "AGE"}
      /\ "WANTED" \in b_flags'[b] /\ "BUSY" \in b_flags'[b]
  BY <1>1, <1>3 DEF CacheInv, ControlInv, TypeOK, Has
<1>6. AsleepOK(p)'
  BY <1>3, <1>4, <1>5, BufCacheAssumption DEF AsleepOK, Has, BufCacheAssumption
<1>7. UNCHANGED <<v_numoutput, vbwait>> /\ Alone(p)
  BY <1>1, <1>4 DEF vnvars, Alone
<1>. QED  BY <1>1, <1>4, <1>5, <1>6, <1>7, MovesAway DEF Holders

LEMMA OwnNoneFree ==
  ASSUME CacheInv, ControlInv', NEW p \in Procs, GetnewbufSleep(p) PROVE CacheInv'
<1>1. /\ wchan[p] = None /\ NoneFree /\ freewanted' = TRUE
      /\ wchan' = [wchan EXCEPT ![p] = FreeChan] /\ pc' = [pc EXCEPT ![p] = "getnewbuf"]
      /\ UNCHANGED <<b_flags, b_vp, bfreelist, vnvars, io, stack, want, hold, bp>>
  BY DEF GetnewbufSleep, At, CanRun, Sleep, locals
<1>2. /\ \A q \in Procs \ {p} : wchan'[q] = wchan[q]
      /\ Local(p) /\ pc'[p] = "getnewbuf" /\ wchan'[p] = FreeChan
  BY <1>1 DEF Local, CacheInv, ControlInv, TypeOK
<1>3. AsleepOK(p)'
  BY <1>1, <1>2, BufCacheAssumption DEF AsleepOK, NoneFree, BufCacheAssumption
<1>4. UNCHANGED <<v_numoutput, vbwait>> /\ Alone(p)
  BY <1>1, <1>2 DEF vnvars, Alone
<1>. QED  BY <1>1, <1>2, <1>3, <1>4, MovesAway DEF Holders

LEMMA OwnSetAge ==
  ASSUME CacheInv, ControlInv', NEW p \in Procs, SetAge(p) PROVE CacheInv'
<1>1. /\ pc[p] = "setage" /\ Return(p) /\ wchan[p] = None
      /\ b_flags' = [b_flags EXCEPT ![bp[p]] = @ \cup {"AGE"}] /\ bp' = [bp EXCEPT ![p] = None]
      /\ UNCHANGED <<b_vp, bfreelist, freewanted, vnvars, io, wchan, want, hold>>
  BY DEF SetAge, At, CanRun
<1>2. Head(stack[p]) \in Nexts
  BY <1>1, AtLabel, Pops DEF CacheInv
<1>3. Local(p) /\ pc'[p] = Head(stack[p]) /\ bp'[p] = None
  BY <1>1, ReturnLocal DEF Local, CacheInv, ControlInv, TypeOK
<1>4. \A c \in Bufs : /\ b_flags[c] \subseteq b_flags'[c]
                      /\ b_flags'[c] \subseteq b_flags[c] \cup {"WANTED", "AGE"}
  BY <1>1 DEF CacheInv, ControlInv, TypeOK
<1>5. UNCHANGED <<v_numoutput, vbwait>> /\ Alone(p) /\ AsleepOK(p)'
  BY <1>1, <1>3, AwakeOK DEF vnvars, Alone
<1>. QED  BY <1>1, <1>2, <1>3, <1>4, <1>5, MovesAway DEF Nexts

LEMMA OwnVflushSleep ==
  ASSUME CacheInv, ControlInv', NEW p \in Procs, VflushSleep(p) PROVE CacheInv'
<1> DEFINE v == want[p].vp
<1>1. /\ pc[p] = "vflush_wait" /\ wchan[p] = None /\ v_numoutput[v] # 0
      /\ vbwait' = [vbwait EXCEPT ![v] = TRUE]
      /\ wchan' = [wchan EXCEPT ![p] = v] /\ pc' = [pc EXCEPT ![p] = "vflush_wait"]
      /\ UNCHANGED <<bufvars, v_numoutput, io, stack, want, hold, bp>>
  BY DEF VflushSleep, At, CanRun, Sleep, locals
<1>2. v \in Vnodes \cup {None}
  <2>1. want[p] \in Asked
    BY <1>1, AtLabel DEF CacheInv, FrameAt, PlainStack, OneDeep, InGetblk
  <2>. QED  BY <2>1 DEF Asked, Request
<1> HIDE DEF v
<1>3. /\ \A q \in Procs \ {p} : wchan'[q] = wchan[q]
      /\ Local(p) /\ pc'[p] = "vflush_wait" /\ wchan'[p] = v
  BY <1>1 DEF Local, CacheInv, ControlInv, TypeOK
<1>4. /\ \A u \in Vnodes : vbwait[u] => vbwait'[u]
      /\ v \in Vnodes => vbwait'[v]
  BY <1>1 DEF CacheInv, ControlInv, TypeOK
<1>5. v \in Vnodes => v_numoutput[v] > 0
  <2>1. v \in Vnodes => v_numoutput[v] = Cardinality(Writing(v))
    BY DEF CacheInv, OutputCounted, Writing
  <2>2. Cardinality(Writing(v)) \in Nat
    BY WritingFinite, FS_CardinalityType DEF CacheInv, ControlInv
  <2>. QED  BY <1>1, <2>1, <2>2
<1>6. AsleepOK(p)'
  <2>1. CASE v \in Vnodes
    <3>1. v \notin Bufs /\ v # FreeChan
      BY <2>1, BufCacheAssumption DEF BufCacheAssumption
    <3>. QED  BY <1>1, <1>3, <1>4, <1>5, <2>1, <3>1 DEF AsleepOK
  <2>2. CASE v = None
    BY <1>3, <2>2, AwakeOK
  <2>. QED  BY <1>2, <2>1, <2>2
<1>7. UNCHANGED <<b_flags, b_vp, bfreelist, freewanted>> /\ Alone(p)
  BY <1>1, <1>3 DEF bufvars, Alone
<1>. QED  BY <1>1, <1>3, <1>4, <1>6, <1>7, MovesAway DEF Holders

(* biowait(). *)
LEMMA OwnBiowait ==
  ASSUME CacheInv, ControlInv', NEW p \in Procs, BiowaitDone(p) \/ BiowaitSleep(p) PROVE CacheInv'
<1> DEFINE b == bp[p]
<1>1. /\ pc[p] = "biowait" /\ wchan[p] = None
      /\ UNCHANGED <<b_flags, b_vp, bfreelist, freewanted, v_numoutput, vbwait, io, want, bp, hold>>
  BY DEF BiowaitDone, BiowaitSleep, At, CanRun, bufvars, vnvars, locals
<1>2. b \in Bufs /\ b # None
  BY <1>1, AtLabel DEF PointerAt, Pointing, CacheInv, ControlInv, TypeOK
<1>3. /\ ProcOK(p) /\ BufOK(b) /\ Owns(p, b) /\ Has(b, "BUSY") /\ (b \in io \/ Has(b, "DONE"))
  <2>1. ProcOK(p) /\ BufOK(b) /\ Owns(p, b)
    BY <1>1, <1>2 DEF CacheInv, OwnInv, Owns, Holders
  <2>. QED  BY <1>1, <1>2, <2>1 DEF ProcOK
<1>4. CASE BiowaitDone(p)
  <2>1. Has(b, "DONE") /\ Return(p) /\ UNCHANGED wchan
    BY <1>4 DEF BiowaitDone
  <2>2. Head(stack[p]) \in {"user", "release"}
    BY <1>1, AtLabel, Pops DEF CacheInv
  <2>3. /\ Local(p) /\ pc'[p] \in {"user", "release"}
    BY <1>1, <2>1, <2>2, ReturnLocal DEF Local
  <2>4. b \notin io
    BY <1>3, <2>1 DEF BufOK
  <2>5. \A c \in Bufs : Owns(p, c)' <=> Owns(p, c)
    BY <1>1, <2>3 DEF Owns, Holders
  <2>6. ProcOK(p)'
    BY <1>1, <1>3, <2>3, <2>4, <2>5 DEF ProcOK, Has, Holders
  <2>7. AsleepOK(p)' /\ Alone(p)
    BY <1>1, <2>1, <2>3, AwakeOK DEF Alone
  <2>. QED  BY <1>1, <2>5, <2>6, <2>7, MovesOK DEF Moves
<1>5. CASE BiowaitSleep(p)
  <2>1. /\ ~Has(b, "DONE") /\ wchan' = [wchan EXCEPT ![p] = b] /\ pc' = [pc EXCEPT ![p] = "biowait"]
        /\ UNCHANGED stack
    BY <1>5 DEF BiowaitSleep, Sleep, locals
  <2>2. /\ \A q \in Procs \ {p} : wchan'[q] = wchan[q]
        /\ Local(p) /\ pc'[p] = "biowait" /\ wchan'[p] = b
    BY <1>1, <2>1 DEF Local, CacheInv, ControlInv, TypeOK
  <2>3. \A c \in Bufs : Owns(p, c)' <=> Owns(p, c)
    BY <1>1, <2>2 DEF Owns
  <2>4. ProcOK(p)'
    BY <1>1, <1>3, <2>2, <2>3 DEF ProcOK, Has
  <2>5. AsleepOK(p)' /\ Alone(p)
    BY <1>1, <1>2, <1>3, <2>1, <2>2, BufCacheAssumption DEF Alone, AsleepOK, Has, BufCacheAssumption
  <2>. QED  BY <1>1, <2>3, <2>4, <2>5, MovesOK DEF Moves
<1>. QED  BY <1>4, <1>5

LEMMA OwnBreadaEnd ==
  ASSUME CacheInv, ControlInv', NEW p \in Procs, BreadaEnd(p) PROVE CacheInv'
<1>1. /\ pc[p] = "breada_end" /\ wchan[p] = None
      /\ UNCHANGED <<b_flags, b_vp, bfreelist, freewanted, v_numoutput, vbwait, io, wchan>>
      /\ bp' = [bp EXCEPT ![p] = hold[p]] /\ hold' = [hold EXCEPT ![p] = None] /\ Swap(p)
      /\ \/ hold[p] = None /\ pc' = [pc EXCEPT ![p] = "getblk"]
         \/ hold[p] # None /\ pc' = [pc EXCEPT ![p] = "biowait"]
      /\ UNCHANGED stack \/ stack' = [stack EXCEPT ![p] = <<"bread">> \o @]
  BY DEF BreadaEnd, At, CanRun, bufvars, vnvars, Goto, Call
<1>2. \A q \in Procs \ {p} : want'[q] = want[q]
  <2>1. want \in [Procs -> Request \cup {None}]
    BY DEF CacheInv, ControlInv, TypeOK
  <2>2. want' = [want EXCEPT ![p] = [[want[p] EXCEPT !.blk = want[p].ra] EXCEPT !.ra = want[p].blk]]
    BY <1>1, <2>1 DEF Swap
  <2>. QED  BY <2>1, <2>2
<1>3. /\ Local(p) /\ bp'[p] = hold[p] /\ hold'[p] = None
      /\ hold[p] = None => pc'[p] = "getblk"
      /\ hold[p] # None => pc'[p] = "biowait"
  BY <1>1, <1>2 DEF Local, CacheInv, ControlInv, TypeOK
<1>4. ProcOK(p) /\ hold[p] \in Bufs \cup {None} /\ None \notin Bufs
  BY BufCacheAssumption DEF CacheInv, OwnInv, ControlInv, TypeOK, BufCacheAssumption
<1>5. \A c \in Bufs : Owns(p, c)' <=> c = hold[p]
  BY <1>3, <1>4 DEF Owns, Holders
<1>6. hold[p] # None => /\ Has(hold[p], "BUSY") /\ ~Has(hold[p], "ASYNC")
                        /\ hold[p] \in io \/ Has(hold[p], "DONE")
  BY <1>4 DEF ProcOK, Owns
<1>7. ProcOK(p)'
  BY <1>1, <1>3, <1>4, <1>5, <1>6 DEF ProcOK, Has, Holders
<1>8. AsleepOK(p)' /\ Alone(p)
  BY <1>1, <1>3, AwakeOK DEF Alone
<1>9. \A c \in Bufs : Owns(p, c)' => Owns(p, c)
  BY <1>5 DEF Owns
<1>. QED  BY <1>1, <1>7, <1>8, <1>9, MovesOK DEF Moves

(* getblk() and geteblk() take a free buffer. *)
LEMMA OwnHit ==
  ASSUME CacheInv, ControlInv', NEW p \in Procs, GetblkHit(p) PROVE CacheInv'
<1> DEFINE b == bp[p]
<1>1. /\ pc[p] = "found" /\ wchan[p] = None /\ ~Has(b, "BUSY") /\ Return(p)
      /\ b_flags' = [b_flags EXCEPT ![b] = @ \cup {"BUSY"}] /\ bfreelist' = FreeWithout(b)
      /\ UNCHANGED <<b_vp, freewanted, v_numoutput, vbwait, io, wchan, want, bp, hold>>
  BY DEF GetblkHit, TakeFound, At, CanRun, vnvars
<1>2. b \in Bufs
  BY <1>1, AtLabel DEF PointerAt, Pointing, CacheInv, ControlInv, TypeOK
<1>3. Head(stack[p]) \in Callers \cup {"user"}
  BY <1>1, AtLabel, Pops DEF CacheInv, InGetblk
<1>4. Local(p) /\ pc'[p] \in Callers \cup {"user"} /\ Alone(p) /\ bp'[p] = b
  BY <1>1, <1>3, ReturnLocal DEF Local, Alone
<1>5. /\ \A c \in Bufs \ {b} : b_flags'[c] = b_flags[c]
      /\ b_flags'[b] = b_flags[b] \cup {"BUSY"}
  BY <1>1, <1>2 DEF CacheInv, ControlInv, TypeOK
<1>6. Mine(p, b) /\ BufOK(b)
  BY <1>1, <1>2, FreeIsMine DEF CacheInv, OwnInv
<1>7. Takes(p, b)
  BY <1>1, <1>4, <1>5, <1>6 DEF Takes, Mine, BufOK, Has
<1>. QED  BY <1>2, <1>7, TakesOK

(* What is on a free list is not busy. *)
LEMMA NewBufNotBusy ==
  ASSUME CacheInv, ~NoneFree PROVE NewBuf \in Bufs /\ ~Has(NewBuf, "BUSY")
<1>1. NewBuf \in Bufs /\ \E q \in Queues : Listed(bfreelist[q], NewBuf)
  BY NewBufFree DEF CacheInv, ControlInv
<1>. QED  BY <1>1 DEF CacheInv, Fits, NotBusy

LEMMA OwnNew ==
  ASSUME CacheInv, ControlInv', NEW p \in Procs, GetnewbufClean(p) PROVE CacheInv'
<1> DEFINE b == NewBuf
<1>1. pc[p] = "getnewbuf" /\ wchan[p] = None /\ ~NoneFree
  BY DEF GetnewbufClean, CleanNew, At, CanRun
<1>2. b \in Bufs /\ ~Has(b, "BUSY")
  BY <1>1, NewBufNotBusy
<1>3. PICK fl, l, k : fl \in {{"BUSY"}, {"BUSY", "INVAL"}} /\ TakeNew(p, b, fl, l, k)
  BY DEF GetnewbufClean
<1> HIDE DEF b
<1>4. /\ bfreelist' = FreeWithout(b) /\ b_flags' = [b_flags EXCEPT ![b] = fl]
      /\ b_vp' = [b_vp EXCEPT ![b] = want[p].vp] /\ bp' = [bp EXCEPT ![p] = b] /\ Return(p)
      /\ UNCHANGED <<freewanted, v_numoutput, vbwait, io, wchan, want, hold>>
  BY <1>3 DEF TakeNew, bremfree, vnvars
<1>5. Head(stack[p]) \in Callers \cup {"user"}
  BY <1>1, AtLabel, Pops DEF CacheInv, InGetblk
<1>6. \A q \in Procs \ {p} : bp'[q] = bp[q]
  BY <1>4 DEF CacheInv, ControlInv, TypeOK
<1>7. Local(p) /\ pc'[p] \in Callers \cup {"user"} /\ Alone(p) /\ bp'[p] = b
  BY <1>1, <1>4, <1>5, <1>6, ReturnLocal DEF Local, Alone, CacheInv, ControlInv, TypeOK
<1>8. /\ \A c \in Bufs \ {b} : b_flags'[c] = b_flags[c] /\ b_vp'[c] = b_vp[c]
      /\ b_flags'[b] = fl
  BY <1>2, <1>4 DEF CacheInv, ControlInv, TypeOK
<1>9. Takes(p, b)
  BY <1>2, <1>3, <1>4, <1>7, <1>8 DEF Takes
<1>. QED  BY <1>2, <1>9, TakesOK

(* The reads. *)
LEMMA OwnBread ==
  ASSUME CacheInv, ControlInv', NEW p \in Procs, Bread(p) PROVE CacheInv'
<1> DEFINE b == bp[p]
<1>1. /\ pc[p] = "bread" /\ wchan[p] = None /\ StartRead(b, {})
      /\ IF b \in io' THEN Goto(p, "biowait") /\ UNCHANGED stack ELSE Return(p)
      /\ UNCHANGED <<b_vp, bfreelist, freewanted, v_numoutput, vbwait, wchan, want, bp, hold>>
  BY DEF Bread, At, CanRun, vnvars
<1>2. b \in Bufs /\ b # None
  BY <1>1, AtLabel DEF PointerAt, Pointing, CacheInv, ControlInv, TypeOK
<1>3. Mine(p, b) /\ Has(b, "BUSY")
  BY <1>1, <1>2, HeldIsMine DEF CacheInv, Holders
<1>4. CASE b_flags[b] \cap {"DONE", "DELWRI"} # {}
  <2>1. UNCHANGED <<b_flags, io>> /\ Return(p)
    BY <1>1, <1>3, <1>4 DEF StartRead, Mine
  <2>2. pc'[p] = "user"
    BY <1>1, <2>1, ReturnsToUser DEF OneDeep, CacheInv
  <2>3. Local(p) /\ Alone(p) /\ AsleepOK(p)'
    BY <1>1, <2>1, ReturnLocal, AwakeOK DEF Local, Alone
  <2>4. \A c \in Bufs : Owns(p, c)' <=> Owns(p, c)
    BY <1>1, <2>2 DEF Owns, Holders
  <2>5. ProcOK(p)'
    BY <1>1, <2>1, <2>2, <2>4 DEF CacheInv, OwnInv, ProcOK, Has, Holders
  <2>. QED  BY <1>1, <2>1, <2>3, <2>4, <2>5, MovesOK DEF Moves
<1>5. CASE b_flags[b] \cap {"DONE", "DELWRI"} = {}
  <2>1. b_flags' = [b_flags EXCEPT ![b] = @ \cup {"READ"} \cup {}] /\ io' = io \cup {b}
    BY <1>1, <1>5 DEF StartRead
  <2>2. pc' = [pc EXCEPT ![p] = "biowait"] /\ UNCHANGED stack
    BY <1>1, <2>1 DEF Goto
  <2>3. Local(p) /\ Alone(p) /\ pc'[p] = "biowait"
    BY <1>1, <2>2 DEF Local, Alone, CacheInv, ControlInv, TypeOK
  <2>4. Reads(p, b, FALSE)
    BY <1>1, <1>3, <1>5, <2>1, <2>3 DEF Reads
  <2>. QED  BY <1>2, <2>4, ReadsOK
<1>. QED  BY <1>4, <1>5

LEMMA OwnBreadaStart ==
  ASSUME CacheInv, ControlInv', NEW p \in Procs, BreadaStart(p) PROVE CacheInv'
<1> DEFINE b == bp[p]
<1>1. /\ pc[p] = "breada_io" /\ wchan[p] = None /\ StartRead(b, {})
      /\ hold' = [hold EXCEPT ![p] = b] /\ bp' = [bp EXCEPT ![p] = None]
      /\ pc' = [pc EXCEPT ![p] = "breada_ra"]
      /\ UNCHANGED <<b_vp, bfreelist, freewanted, v_numoutput, vbwait, wchan, stack, want>>
  BY DEF BreadaStart, At, CanRun, vnvars, Goto
<1>2. b \in Bufs /\ b # None
  BY <1>1, AtLabel DEF PointerAt, Pointing, CacheInv, ControlInv, TypeOK
<1>3. Mine(p, b) /\ Has(b, "BUSY") /\ BufOK(b)
  BY <1>1, <1>2, HeldIsMine DEF CacheInv, OwnInv, Holders
<1>4. Local(p) /\ Alone(p) /\ pc'[p] = "breada_ra" /\ bp'[p] = None /\ hold'[p] = b
  BY <1>1 DEF Local, Alone, CacheInv, ControlInv, TypeOK
<1>5. CASE b_flags[b] \cap {"DONE", "DELWRI"} # {}
  <2>1. UNCHANGED <<b_flags, io>> /\ Has(b, "DONE")
    BY <1>1, <1>3, <1>5 DEF StartRead, BufOK, Has
  <2>2. AsleepOK(p)'
    BY <1>1, AwakeOK
  <2>3. \A c \in Bufs : Owns(p, c)' <=> c = b
    BY <1>2, <1>4 DEF Owns, Holders
  <2>4. ProcOK(p)'
    BY <1>3, <1>4, <2>1, <2>3 DEF ProcOK, Has, Holders, Mine
  <2>5. \A c \in Bufs : Owns(p, c)' => Owns(p, c)
    BY <1>1, <2>3 DEF Owns, Holders
  <2>. QED  BY <1>1, <1>4, <2>1, <2>2, <2>4, <2>5, MovesOK DEF Moves
<1>6. CASE b_flags[b] \cap {"DONE", "DELWRI"} = {}
  <2>1. b_flags' = [b_flags EXCEPT ![b] = @ \cup {"READ"} \cup {}] /\ io' = io \cup {b}
    BY <1>1, <1>6 DEF StartRead
  <2>2. Reads(p, b, FALSE)
    BY <1>1, <1>3, <1>4, <1>6, <2>1 DEF Reads
  <2>. QED  BY <1>2, <2>2, ReadsOK
<1>. QED  BY <1>5, <1>6

LEMMA OwnAhead ==
  ASSUME CacheInv, ControlInv', NEW p \in Procs, AheadStart(p) PROVE CacheInv'
<1> DEFINE b == bp[p]
           C == {} \cup WantB(b, b_flags[b]) \cup WantFree
<1>1. /\ pc[p] = "ra_io" /\ wchan[p] = None
      /\ bp' = [bp EXCEPT ![p] = None] /\ pc' = [pc EXCEPT ![p] = "breada_end"]
      /\ UNCHANGED <<v_numoutput, vbwait, stack, want, hold>>
  BY DEF AheadStart, At, CanRun, vnvars, Goto
<1>2. b \in Bufs /\ b # None
  BY <1>1, AtLabel DEF PointerAt, Pointing, CacheInv, ControlInv, TypeOK
<1>3. Mine(p, b) /\ Has(b, "BUSY") /\ BufOK(b)
  BY <1>1, <1>2, HeldIsMine DEF CacheInv, OwnInv, Holders
<1>4. Local(p) /\ pc'[p] = "breada_end" /\ bp'[p] = None
  BY <1>1 DEF Local, CacheInv, ControlInv, TypeOK
<1>5. CASE b_flags[b] \cap {"DONE", "DELWRI"} # {}
  <2>1. Free(bfreelist, b_list[b], b, b_flags[b], C) /\ UNCHANGED io
    BY <1>5 DEF AheadStart, brelse, brelseFrom
  <2>2. Alone(p)
    BY <1>1, <1>4, <2>1 DEF Alone, Free, Wakeup
  <2>3. "DELWRI" \in b_flags[b] => "DONE" \in b_flags[b]
    BY <1>3 DEF BufOK, Has
  <2>4. WantB(b, b_flags[b]) \cup WantFree \subseteq C
    OBVIOUS
  <2> HIDE DEF C
  <2>5. Frees(p, b, bfreelist, b_list[b], b_flags[b], C)
    BY <1>1, <1>3, <1>4, <2>1, <2>2, <2>3, <2>4 DEF Frees
  <2>. QED  BY <1>2, <2>5, FreesOK
<1>6. CASE b_flags[b] \cap {"DONE", "DELWRI"} = {}
  <2>1. /\ StartRead(b, {"ASYNC"}) /\ UNCHANGED <<b_vp, bfreelist, freewanted, wchan>>
    BY <1>6 DEF AheadStart
  <2>2. b_flags' = [b_flags EXCEPT ![b] = @ \cup {"READ"} \cup {"ASYNC"}] /\ io' = io \cup {b}
    BY <1>6, <2>1 DEF StartRead
  <2>3. Alone(p)
    BY <1>1, <1>4, <2>1 DEF Alone
  <2>4. Reads(p, b, TRUE)
    BY <1>1, <1>3, <1>4, <1>6, <2>1, <2>2, <2>3 DEF Reads
  <2>. QED  BY <1>2, <2>4, ReadsOK
<1>. QED  BY <1>5, <1>6

LEMMA OwnPanic ==
  ASSUME CacheInv, ControlInv', Panic PROVE CacheInv'
<1>1. UNCHANGED <<b_flags, b_vp, bfreelist, freewanted, v_numoutput, vbwait, io, pc, wchan, bp,
                  hold>>
  BY DEF Panic, bufvars, vnvars, locals
<1>2. OwnInv'
  BY <1>1 DEF CacheInv, OwnInv, BufOK, ProcOK, Exclusive, Owns, Has
<1>3. Fits(bfreelist', NotBusy')
  BY <1>1 DEF CacheInv, NotBusy, Has
<1>4. OutputCounted'
  BY <1>1, CountKept DEF CacheInv, Writing, Has
<1>5. \A p \in Procs : AsleepOK(p)'
  BY <1>1 DEF CacheInv, AsleepOK, Has, NoneFree
<1>. QED  BY <1>2, <1>3, <1>4, <1>5 DEF CacheInv

(* The writes. *)
LEMMA OwnWrite ==
  ASSUME CacheInv, ControlInv', NEW p \in Procs, NEW b \in Bufs, NEW fl,
         NEW next \in Nexts, wchan[p] = None, Mine(p, b), bwrite(b, fl),
         AfterStrategy(p, fl, next), b_flags[b] \cup {"BUSY"} \subseteq fl, b_vp[b] # None,
         bfreelist' = FreeWithout(b) \/ (Has(b, "BUSY") /\ UNCHANGED bfreelist),
         \A q \in Procs \ {p} : want'[q] = want[q] /\ bp'[q] = bp[q],
         UNCHANGED <<wchan, hold>>, "ASYNC" \notin fl => bp'[p] = b,
         next = "user" /\ "ASYNC" \in fl /\ "DELWRI" \notin fl => bp'[p] = None
  PROVE  CacheInv'
<1>1. \/ /\ "ASYNC" \notin fl /\ pc' = [pc EXCEPT ![p] = "biowait"]
         /\ stack' = [stack EXCEPT ![p] = <<"release", next>> \o @]
      \/ /\ "ASYNC" \in fl /\ "DELWRI" \in fl /\ pc' = [pc EXCEPT ![p] = "setage"]
         /\ stack' = [stack EXCEPT ![p] = <<next>> \o @]
      \/ /\ "ASYNC" \in fl /\ "DELWRI" \notin fl /\ pc' = [pc EXCEPT ![p] = next]
         /\ UNCHANGED stack
  BY DEF AfterStrategy, Goto, Call
<1>2. \/ "ASYNC" \notin fl /\ pc'[p] = "biowait"
      \/ "ASYNC" \in fl /\ pc'[p] = "setage"
      \/ "ASYNC" \in fl /\ "DELWRI" \notin fl /\ pc'[p] = next
  BY <1>1 DEF CacheInv, ControlInv, TypeOK
<1>3. \A q \in Procs \ {p} : pc'[q] = pc[q] /\ stack'[q] = stack[q]
  <2>1. (\E l : pc' = [pc EXCEPT ![p] = l]) /\ (UNCHANGED stack \/ \E s : stack' = [stack EXCEPT ![p] = s])
    BY <1>1
  <2>. QED  BY <2>1 DEF CacheInv, ControlInv, TypeOK
<1>4. Local(p) /\ Alone(p)
  BY <1>3 DEF Local, Alone
<1>5. \/ "ASYNC" \notin fl /\ pc'[p] = "biowait" /\ bp'[p] = b
      \/ "ASYNC" \in fl /\ (pc'[p] \notin Holders \/ (pc'[p] = "user" /\ bp'[p] = None))
  BY <1>2 DEF Holders, Nexts
<1>6. Writes(p, b, fl)
  BY <1>4, <1>5 DEF Writes
<1>. QED  BY <1>6, WritesOK

LEMMA OwnStray ==
  ASSUME CacheInv, ControlInv', NEW p \in Procs, GetblkStray(p) PROVE CacheInv'
<1> DEFINE b == bp[p]
           fl == b_flags[b] \cup {"BUSY", "INVAL"}
<1>1. pc[p] = "found" /\ wchan[p] = None /\ ~Has(b, "BUSY")
  BY DEF GetblkStray, WriteStray, At, CanRun
<1>2. b \in Bufs
  BY <1>1, AtLabel DEF PointerAt, Pointing, CacheInv, ControlInv, TypeOK
<1>3. CASE b_vp[b] # None
  <2>1. /\ bfreelist' = FreeWithout(b) /\ bwrite(b, fl) /\ AfterStrategy(p, fl, "getblk")
        /\ UNCHANGED <<wchan, want, bp, hold>>
    BY <1>3 DEF GetblkStray, WriteStray
  <2>2. Mine(p, b)
    BY <1>1, <1>2, FreeIsMine DEF CacheInv
  <2>3. b_flags[b] \cup {"BUSY"} \subseteq fl /\ "getblk" \in Nexts
    BY DEF Nexts
  <2> HIDE DEF fl
  <2>. QED  BY <1>1, <1>2, <1>3, <2>1, <2>2, <2>3, OwnWrite
<1>. QED  BY <1>3, OwnPanic DEF GetblkStray, WriteStray

LEMMA OwnDirty ==
  ASSUME CacheInv, ControlInv', NEW p \in Procs, GetnewbufDirty(p) PROVE CacheInv'
<1> DEFINE b == NewBuf
           fl == b_flags[b] \cup {"BUSY", "ASYNC"}
<1>1. /\ wchan[p] = None /\ ~NoneFree /\ "DELWRI" \in b_flags[b]
      /\ bfreelist' = FreeWithout(b) /\ bwrite(b, fl) /\ AfterStrategy(p, fl, "getnewbuf")
      /\ bp' = [bp EXCEPT ![p] = b] /\ UNCHANGED <<wchan, want, hold>>
  BY DEF GetnewbufDirty, At, CanRun, Has, bremfree
<1>2. b \in Bufs /\ ~Has(b, "BUSY")
  BY <1>1, NewBufNotBusy
<1> HIDE DEF b
<1>3. Mine(p, b) /\ b_vp[b] # None
  BY <1>1, <1>2, FreeIsMine DEF CacheInv, ControlInv, DirtyHome, Has
<1>4. b_flags[b] \cup {"BUSY"} \subseteq fl /\ "ASYNC" \in fl /\ "getnewbuf" \in Nexts
  BY DEF Nexts
<1>5. \A q \in Procs \ {p} : bp'[q] = bp[q]
  BY <1>1 DEF CacheInv, ControlInv, TypeOK
<1> HIDE DEF fl
<1>. QED  BY <1>1, <1>2, <1>3, <1>4, <1>5, OwnWrite

LEMMA OwnVinvalSave ==
  ASSUME CacheInv, ControlInv', NEW p \in Procs, VinvalSave(p) PROVE CacheInv'
<1> DEFINE b == bp[p]
           fl == b_flags[b] \cup {"BUSY"}
<1>1. /\ pc[p] = "vinval_take" /\ wchan[p] = None /\ ~Has(b, "BUSY") /\ "DELWRI" \in b_flags[b]
      /\ bfreelist' = FreeWithout(b) /\ bwrite(b, fl) /\ AfterStrategy(p, fl, "vinval")
      /\ UNCHANGED <<wchan, want, bp, hold>>
  BY DEF VinvalSave, At, CanRun, Has, bremfree
<1>2. b \in Bufs
  BY <1>1, AtLabel DEF PointerAt, Pointing, CacheInv, ControlInv, TypeOK
<1>3. Mine(p, b) /\ b_vp[b] # None
  BY <1>1, <1>2, FreeIsMine DEF CacheInv, ControlInv, DirtyHome, Has
<1>4. "vinval" \in Nexts
  BY DEF Nexts
<1>. QED  BY <1>1, <1>2, <1>3, <1>4, OwnWrite

LEMMA OwnVflushWrite ==
  ASSUME CacheInv, ControlInv', NEW p \in Procs, VflushWrite(p) PROVE CacheInv'
<1>1. PICK b \in todo[p], how \in {{}, {"ASYNC"}}, next \in {"vflush_scan", "vflush"} :
        LET fl == b_flags[b] \cup {"BUSY"} \cup how
        IN /\ wchan[p] = None /\ ~Has(b, "BUSY")
           /\ \/ Panic
              \/ /\ b_vp[b] # None
                 /\ bfreelist' = FreeWithout(b) /\ bwrite(b, fl) /\ AfterStrategy(p, fl, next)
                 /\ bp' = [bp EXCEPT ![p] = b]
                 /\ UNCHANGED <<wchan, want, hold>>
  <2>1. PICK b \in todo[p] :
          LET async == b_vp[b] = want[p].vp \/ ~IsSync(p)
              fl == b_flags[b] \cup {"BUSY"} \cup (IF async THEN {"ASYNC"} ELSE {})
          IN /\ At(p, "vflush_scan") /\ ~Has(b, "BUSY")
             /\ IF ~Has(b, "DELWRI") \/ b_vp[b] = None
                THEN Panic
                ELSE /\ bremfree(b) /\ bwrite(b, fl)
                     /\ AfterStrategy(p, fl, IF async THEN "vflush_scan" ELSE "vflush")
                     /\ todo' = [todo EXCEPT ![p] = IF async THEN @ \ {b} ELSE {}]
                     /\ bp' = [bp EXCEPT ![p] = b]
                     /\ UNCHANGED <<datavars, wchan, want, hold, err, panicked>>
    BY DEF VflushWrite
  <2>2. wchan[p] = None /\ ~Has(b, "BUSY")
    BY <2>1 DEF At, CanRun
  <2>3. CASE b_vp[b] = want[p].vp \/ ~IsSync(p)
    <3>1. \/ Panic
          \/ /\ b_vp[b] # None
             /\ bfreelist' = FreeWithout(b) /\ bwrite(b, b_flags[b] \cup {"BUSY"} \cup {"ASYNC"})
             /\ AfterStrategy(p, b_flags[b] \cup {"BUSY"} \cup {"ASYNC"}, "vflush_scan")
             /\ bp' = [bp EXCEPT ![p] = b] /\ UNCHANGED <<wchan, want, hold>>
      BY <2>1, <2>3 DEF bremfree
    <3>. QED  BY <2>2, <3>1
  <2>4. CASE ~(b_vp[b] = want[p].vp \/ ~IsSync(p))
    <3>1. \/ Panic
          \/ /\ b_vp[b] # None
             /\ bfreelist' = FreeWithout(b) /\ bwrite(b, b_flags[b] \cup {"BUSY"} \cup {})
             /\ AfterStrategy(p, b_flags[b] \cup {"BUSY"} \cup {}, "vflush")
             /\ bp' = [bp EXCEPT ![p] = b] /\ UNCHANGED <<wchan, want, hold>>
      BY <2>1, <2>4 DEF bremfree
    <3>. QED  BY <2>2, <3>1
  <2>. QED  BY <2>3, <2>4
<1> DEFINE fl == b_flags[b] \cup {"BUSY"} \cup how
<1>2. b \in Bufs
  BY DEF CacheInv, ControlInv, TypeOK
<1>3. CASE ~Panic
  <2>1. /\ wchan[p] = None /\ ~Has(b, "BUSY") /\ b_vp[b] # None
        /\ bfreelist' = FreeWithout(b) /\ bwrite(b, fl) /\ AfterStrategy(p, fl, next)
        /\ bp' = [bp EXCEPT ![p] = b]
        /\ UNCHANGED <<wchan, want, hold>>
    BY <1>1, <1>3
  <2>2. Mine(p, b)
    BY <1>2, <2>1, FreeIsMine DEF CacheInv
  <2>3. /\ b_flags[b] \cup {"BUSY"} \subseteq fl /\ next \in Nexts /\ next # "user"
    BY DEF Nexts
  <2>4. bp'[p] = b /\ \A q \in Procs \ {p} : bp'[q] = bp[q]
    BY <2>1 DEF CacheInv, ControlInv, TypeOK
  <2> HIDE DEF fl
  <2>. QED  BY <1>2, <2>1, <2>2, <2>3, <2>4, OwnWrite
<1>. QED  BY <1>3, OwnPanic

(* What a user holds. *)
LEMMA UserMine ==
  ASSUME CacheInv, NEW p \in Procs, Holding(p)
  PROVE  /\ bp[p] \in Bufs /\ Mine(p, bp[p]) /\ Has(bp[p], "BUSY") /\ BufOK(bp[p])
         /\ wchan[p] = None /\ pc[p] = "user"
<1>1. pc[p] = "user" /\ bp[p] \in Bufs /\ bp[p] # None /\ wchan[p] = None
  BY UserHolds DEF CacheInv, Holding, At, CanRun
<1>. QED  BY <1>1, HeldIsMine DEF CacheInv, OwnInv, Holders

LEMMA OwnUserBwrite ==
  ASSUME CacheInv, ControlInv', NEW p \in Procs, UserBwrite(p) PROVE CacheInv'
<1>1. PICK how \in {{}, {"ASYNC"}} :
        LET b == bp[p]
            fl == b_flags[b] \cup how
        IN /\ MayWrite(p)
           /\ IF b_vp[b] = None
              THEN Panic
              ELSE /\ Modify(b) /\ bwrite(b, fl) /\ AfterStrategy(p, fl, "user")
                   /\ want' = [want EXCEPT ![p] = None]
                   /\ bp' = IF pc'[p] = "user" THEN [bp EXCEPT ![p] = None] ELSE bp
                   /\ UNCHANGED <<bfreelist, wchan, hold, todo, err, panicked>>
  BY DEF UserBwrite
<1> DEFINE b == bp[p]
           fl == b_flags[b] \cup how
<1>2. b \in Bufs /\ Mine(p, b) /\ Has(b, "BUSY") /\ wchan[p] = None
  BY <1>1, UserMine DEF MayWrite
<1>3. CASE b_vp[b] # None
  <2>1. /\ bwrite(b, fl) /\ AfterStrategy(p, fl, "user") /\ want' = [want EXCEPT ![p] = None]
        /\ bp' = IF pc'[p] = "user" THEN [bp EXCEPT ![p] = None] ELSE bp
        /\ UNCHANGED <<bfreelist, wchan, hold>>
    BY <1>1, <1>3
  <2>2. pc'[p] = "user" <=> "ASYNC" \in fl /\ "DELWRI" \notin fl
    BY <2>1 DEF AfterStrategy, Goto, Call, CacheInv, ControlInv, TypeOK
  <2>3. /\ \A q \in Procs \ {p} : want'[q] = want[q] /\ bp'[q] = bp[q]
        /\ bp'[p] = IF pc'[p] = "user" THEN None ELSE b
    BY <2>1 DEF CacheInv, ControlInv, TypeOK
  <2>4. b_flags[b] \cup {"BUSY"} \subseteq fl /\ "user" \in Nexts
    BY <1>2 DEF Nexts, Has
  <2> HIDE DEF fl, b
  <2>. QED  BY <1>2, <1>3, <2>1, <2>2, <2>3, <2>4, OwnWrite
<1>. QED  BY <1>1, <1>3, OwnPanic

(* The releases. *)
LEMMA OwnRelease ==
  ASSUME CacheInv, ControlInv', NEW p \in Procs, Release(p) PROVE CacheInv'
<1> DEFINE b == bp[p]
           C == {} \cup WantB(b, b_flags[b]) \cup WantFree
<1>1. /\ pc[p] = "release" /\ wchan[p] = None /\ Free(bfreelist, b_list[b], b, b_flags[b], C)
      /\ bp' = [bp EXCEPT ![p] = None] /\ Return(p)
      /\ UNCHANGED <<v_numoutput, vbwait, io, want, hold>>
  BY DEF Release, brelse, brelseFrom, At, CanRun, vnvars
<1>2. b \in Bufs /\ b # None
  BY <1>1, AtLabel DEF PointerAt, Pointing, CacheInv, ControlInv, TypeOK
<1>3. Mine(p, b) /\ Has(b, "BUSY") /\ BufOK(b)
  BY <1>1, <1>2, HeldIsMine DEF CacheInv, OwnInv, Holders
<1>4. Head(stack[p]) \in Nexts
  BY <1>1, AtLabel, Pops DEF CacheInv
<1>5. Local(p) /\ pc'[p] # "biowait" /\ bp'[p] = None
  BY <1>1, <1>4, ReturnLocal DEF Local, CacheInv, ControlInv, TypeOK, Nexts
<1>6. Alone(p)
  BY <1>1, <1>5 DEF Alone, Free, Wakeup
<1>7. "DELWRI" \in b_flags[b] => "DONE" \in b_flags[b]
  BY <1>3 DEF BufOK, Has
<1>8. WantB(b, b_flags[b]) \cup WantFree \subseteq C
  OBVIOUS
<1> HIDE DEF C, b
<1>9. Frees(p, b, bfreelist, b_list[b], b_flags[b], C)
  BY <1>1, <1>3, <1>5, <1>6, <1>7, <1>8 DEF Frees
<1>. QED  BY <1>2, <1>9, FreesOK

LEMMA OwnInvalidate ==
  ASSUME CacheInv, ControlInv', NEW p \in Procs, VinvalDrop(p) PROVE CacheInv'
<1> DEFINE b == bp[p]
           fl == (b_flags[b] \cup {"BUSY"}) \cup
                 (IF b_vp[b] = want[p].vp THEN {"INVAL"} ELSE {})
           l == NewList(b_vp[b], b_flags[b])
           C == {} \cup WantB(b, fl) \cup WantFree
           next == IF todo[p] = {} THEN "vinval" ELSE "vinval_scan"
<1>1. pc[p] = "vinval_take" /\ wchan[p] = None /\ Invalidate(p) /\ ~Has(b, "BUSY")
  BY DEF VinvalDrop, Invalidate, At, CanRun
<1>2. b \in Bufs
  BY <1>1, AtLabel DEF PointerAt, Pointing, CacheInv, ControlInv, TypeOK
<1>3. CASE b_vp[b] # None
  <2>1. /\ Free(FreeWithout(b), l, b, fl, C)
        /\ bp' = [bp EXCEPT ![p] = None] /\ pc' = [pc EXCEPT ![p] = next]
        /\ UNCHANGED <<v_numoutput, vbwait, io, stack, want, hold>>
    BY <1>1, <1>3 DEF Invalidate, brelseFrom, Goto, vnvars
  <2>2. Mine(p, b) /\ BufOK(b)
    BY <1>1, <1>2, FreeIsMine DEF CacheInv, OwnInv
  <2>3. next # "biowait"
    OBVIOUS
  <2>4. Local(p) /\ pc'[p] = next /\ bp'[p] = None
    BY <2>1 DEF Local, CacheInv, ControlInv, TypeOK
  <2>5. /\ b_flags[b] \subseteq fl /\ ("DELWRI" \in fl => "DONE" \in fl)
    BY <2>2 DEF BufOK, Has
  <2>6. WantB(b, fl) \cup WantFree \subseteq C
    OBVIOUS
  <2> HIDE DEF C, fl, l, b, next
  <2>7. Alone(p)
    BY <1>1, <2>1, <2>4 DEF Alone, Free, Wakeup
  <2>8. Frees(p, b, FreeWithout(b), l, fl, C)
    BY <2>1, <2>2, <2>3, <2>4, <2>5, <2>6, <2>7 DEF Frees
  <2>. QED  BY <1>2, <2>8, FreesOK
<1>. QED  BY <1>1, <1>3, OwnPanic DEF Invalidate

LEMMA OwnForget ==
  ASSUME CacheInv, ControlInv', NEW p \in Procs, Holding(p), Forget(p),
         UNCHANGED <<vnvars, io, cpu, pc, stack>>, NEW l, NEW fl, NEW C,
         Free(bfreelist, l, bp[p], fl, C), WantB(bp[p], fl) \cup WantFree \subseteq C,
         b_flags[bp[p]] \subseteq fl, "DELWRI" \in fl => "DONE" \in fl
  PROVE  CacheInv'
<1>1. /\ bp[p] \in Bufs /\ Mine(p, bp[p]) /\ Has(bp[p], "BUSY") /\ wchan[p] = None
      /\ pc[p] = "user"
  BY UserMine
<1>2. /\ bp' = [bp EXCEPT ![p] = None] /\ want' = [want EXCEPT ![p] = None]
      /\ UNCHANGED <<hold, v_numoutput, vbwait>>
  BY DEF Forget, vnvars
<1>3. Local(p) /\ bp'[p] = None /\ pc'[p] # "biowait"
  BY <1>1, <1>2 DEF Local, CacheInv, ControlInv, TypeOK
<1>4. Alone(p)
  BY <1>1, <1>3 DEF Alone, Free, Wakeup
<1>5. Frees(p, bp[p], bfreelist, l, fl, C)
  BY <1>1, <1>2, <1>3, <1>4 DEF Frees
<1>. QED  BY <1>1, <1>5, FreesOK

LEMMA OwnUserReleases ==
  ASSUME CacheInv, ControlInv', NEW p \in Procs, UserBrelse(p) \/ UserIndirect(p) PROVE CacheInv'
<1> DEFINE b == bp[p]
<1>1. Holding(p) /\ Forget(p) /\ UNCHANGED <<vnvars, io, cpu, pc, stack>>
  BY DEF UserBrelse, UserIndirect, MayWrite
<1>2. BufOK(b)
  BY <1>1, UserMine
<1>3. PICK fl \in {b_flags[b], b_flags[b] \cup {"DELWRI", "DONE"}} :
        \E l : Free(bfreelist, l, b, fl, {} \cup WantB(b, fl) \cup WantFree)
  BY DEF UserBrelse, UserIndirect, brelse, brelseFrom
<1>4. b_flags[b] \subseteq fl /\ ("DELWRI" \in fl => "DONE" \in fl)
  BY <1>2, <1>3 DEF BufOK, Has
<1>. QED  BY <1>1, <1>3, <1>4, OwnForget

LEMMA OwnUserBdwrite ==
  ASSUME CacheInv, ControlInv', NEW p \in Procs, UserBdwrite(p) PROVE CacheInv'
<1> DEFINE b == bp[p]
           fl == b_flags[b] \cup {"DELWRI"}
           fa == fl \cup {"ASYNC"}
           fd == fl \cup {"DONE"}
           C == {} \cup WantB(b, fd) \cup WantFree
<1>1. Holding(p)
  BY DEF UserBdwrite, MayWrite
<1>2. b \in Bufs /\ Mine(p, b) /\ Has(b, "BUSY") /\ wchan[p] = None
  BY <1>1, UserMine
<1>3. CASE b_vp[b] = None
  BY <1>3, OwnPanic DEF UserBdwrite
<1>4. CASE b_vp[b] # None /\ b_vp[b] \in tapes
  <2>1. /\ bwrite(b, fa) /\ AfterStrategy(p, fa, "user") /\ want' = [want EXCEPT ![p] = None]
        /\ UNCHANGED <<bfreelist, wchan, bp, hold>>
    BY <1>4 DEF UserBdwrite
  <2>2. \A q \in Procs \ {p} : want'[q] = want[q] /\ bp'[q] = bp[q]
    BY <2>1 DEF CacheInv, ControlInv, TypeOK
  <2>3. b_flags[b] \cup {"BUSY"} \subseteq fa /\ "user" \in Nexts /\ "ASYNC" \in fa /\ "DELWRI" \in fa
    BY <1>2 DEF Nexts, Has
  <2> HIDE DEF fa, b
  <2>. QED  BY <1>2, <1>4, <2>1, <2>2, <2>3, OwnWrite
<1>5. CASE b_vp[b] # None /\ b_vp[b] \notin tapes
  <2>1. /\ \E l : Free(bfreelist, l, b, fd, C)
        /\ Forget(p) /\ UNCHANGED <<vnvars, io, cpu, pc, stack>>
    BY <1>5 DEF UserBdwrite, brelseFrom
  <2>2. b_flags[b] \subseteq fd /\ "DONE" \in fd /\ WantB(b, fd) \cup WantFree \subseteq C
    OBVIOUS
  <2> HIDE DEF fd, C
  <2>. QED  BY <1>1, <2>1, <2>2, OwnForget
<1>. QED  BY <1>3, <1>4, <1>5

(* bufinit(). *)
LEMMA CacheInit ==
  ASSUME Init PROVE CacheInv
<1>1. ControlInv
  BY ControlInit
<1>2. OwnInv
  BY BufCacheAssumption
     DEF Init, OwnInv, BufOK, ProcOK, Exclusive, Owns, Has, Holders, BufCacheAssumption
<1>3. Fits(bfreelist, NotBusy)
  <2>1. PICK s \in [1..Cardinality(Bufs) -> Bufs] :
          /\ \A i, j \in DOMAIN s : s[i] = s[j] => i = j
          /\ bfreelist = [q \in Queues |-> IF q = "AGE" THEN s ELSE <<>>]
    BY DEF Init
  <2> DEFINE n == Cardinality(Bufs)
  <2>2. IsFiniteSet(Bufs) /\ n \in Nat
    BY BufCacheAssumption, FS_CardinalityType DEF BufCacheAssumption
  <2>3. s \in Injection(1..n, Bufs)
    BY <2>1 DEF Injection, IsInjective
  <2>4. IsFiniteSet(1..n) /\ Cardinality(1..n) = n
    BY <2>2, FS_Interval
  <2>5. \A b \in Bufs : \E i \in 1..n : s[i] = b
    <3>1. s \in Surjection(1..n, Bufs)
      BY <2>2, <2>3, <2>4, FS_Injection
    <3>. QED  BY <3>1 DEF Surjection
  <2>6. s \in Seq(Bufs) /\ DOMAIN s = 1..n /\ <<>> \in Seq(Bufs) /\ DOMAIN <<>> = {}
    BY <2>1, <2>2
  <2>7. /\ "AGE" \in Queues /\ bfreelist["AGE"] = s
        /\ \A q \in Queues : q # "AGE" => bfreelist[q] = <<>>
    BY <2>1 DEF Queues
  <2>8. /\ bfreelist \in [Queues -> Seq(Bufs)] /\ \A q \in Queues : Once(bfreelist[q])
    BY <2>1, <2>6, <2>7 DEF Once
  <2>9. \A q \in Queues, b \in Bufs : Listed(bfreelist[q], b) <=> q = "AGE"
    BY <2>5, <2>6, <2>7 DEF Listed
  <2>10. NotBusy = Bufs
    BY DEF Init, NotBusy, Has
  <2>. QED  BY <2>7, <2>8, <2>9, <2>10 DEF Fits
<1>4. OutputCounted
  <2>1. \A v \in Vnodes : {b \in io : b_vp[b] = v /\ ~Has(b, "READ")} = {}
    BY DEF Init
  <2>. QED  BY <2>1, FS_EmptySet DEF Init, OutputCounted
<1>5. \A p \in Procs : AsleepOK(p)
  BY BufCacheAssumption DEF Init, AsleepOK, BufCacheAssumption
<1>. QED  BY <1>1, <1>2, <1>3, <1>4, <1>5 DEF CacheInv

LEMMA CacheNext ==
  ASSUME CacheInv, [Next]_vars PROVE CacheInv'
<1>1. ControlInv'
  BY ControlNext DEF CacheInv
<1>2. CASE UNCHANGED vars
  <2>1. UNCHANGED <<b_flags, b_vp, bfreelist, freewanted, v_numoutput, vbwait, io, pc, wchan, bp,
                    hold>>
    BY <1>2 DEF vars, bufvars, vnvars, locals
  <2>2. OwnInv'
    BY <2>1 DEF CacheInv, OwnInv, BufOK, ProcOK, Exclusive, Owns, Has
  <2>3. Fits(bfreelist', NotBusy')
    BY <2>1 DEF CacheInv, NotBusy, Has
  <2>4. OutputCounted'
    BY <2>1, CountKept DEF CacheInv, Writing, Has
  <2>5. \A p \in Procs : AsleepOK(p)'
    BY <2>1 DEF CacheInv, AsleepOK, Has, NoneFree
  <2>. QED  BY <1>1, <2>2, <2>3, <2>4, <2>5 DEF CacheInv
<1>3. ASSUME NEW b \in Bufs, Interrupt(b) PROVE CacheInv'
  BY <1>1, <1>3, BiodoneOK DEF Interrupt
<1>4. ASSUME NEW p \in Procs, Step(p) PROVE CacheInv'
  BY <1>1, <1>4, OwnSearch, OwnBusy, OwnHit, OwnStray, OwnNoneFree, OwnDirty, OwnNew, OwnSetAge,
     OwnBread, OwnBreada, OwnBreadaStart, OwnAhead, OwnBreadaEnd, OwnBiowait, OwnRelease, OwnWalks,
     OwnVflushWrite, OwnVflushSleep, OwnVinvalSave, OwnInvalidate, OwnUserReleases, OwnUserBwrite,
     OwnUserBdwrite
     DEF Step
<1>. QED  BY <1>1, <1>2, <1>3, <1>4, OwnEnters DEF Next, Halted

LEMMA CacheAlways == Spec => []CacheInv
  BY CacheInit, CacheNext, PTL DEF Spec

-----------------------------------------------------------------------------

(* B_BUSY of a buffer and its place on the free lists never disagree,      *)
(* whether brelse() is called by a process or by the interrupt, and the    *)
(* buffer is never released twice or taken by two.                         *)
THEOREM BusyExactlyWhenNotFree == Spec => []BusyIffNotFree
<1>1. CacheInv => BusyIffNotFree
  BY FitsMeans DEF CacheInv, ControlInv
<1>. QED  BY <1>1, CacheAlways, PTL

(* v_numoutput is the number of writes of the vnode in progress: biodone() *)
(* takes away exactly what bwrite() added, errors and the B_ASYNC release  *)
(* of the buffer by the interrupt included.                                *)
THEOREM OutputAlwaysCounted == Spec => []OutputCounted
<1>1. CacheInv => OutputCounted
  BY DEF CacheInv
<1>. QED  BY <1>1, CacheAlways, PTL

(* Nobody sleeps in getblk(), getnewbuf(), biowait(), vinvalbuf() or       *)
(* vflushbuf() for something that has already happened, and B_WANTED,      *)
(* VBWAIT or the I/O under way promises the wakeup.                        *)
THEOREM WakeupsAreNotLost == Spec => []NoLostWakeup
<1>1. CacheInv => NoLostWakeup
  BY DEF CacheInv, AsleepOK, NoLostWakeup
<1>. QED  BY <1>1, CacheAlways, PTL

(* A buffer belongs to one process at most: the one getblk() gave it to,   *)
(* until it releases it or leaves it to the interrupt with B_ASYNC.        *)
THEOREM BuffersAreExclusive == Spec => []Exclusive
<1>1. CacheInv => Exclusive
  BY DEF CacheInv, OwnInv
<1>. QED  BY <1>1, CacheAlways, PTL

(* biodone() never panics: no transfer is reported done twice ("dup        *)
(* biodone"), and no count of writes goes below zero ("biodone: neg        *)
(* numoutput"), with or without disk errors.                               *)
THEOREM BiodoneNeverPanics ==
  Spec => [][\A b \in Bufs : Interrupt(b) => UNCHANGED panicked]_vars
<1>1. CacheInv /\ [Next]_vars => [\A b \in Bufs : Interrupt(b) => UNCHANGED panicked]_vars
  BY BiodoneInOrder DEF Interrupt
<1>. QED  BY <1>1, CacheAlways, PTL DEF Spec
=============================================================================
