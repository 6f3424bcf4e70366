---------------------------- MODULE Select_proofs ----------------------------
(***************************************************************************)
(* Theorems about Select, for any number of processes and buffers.         *)
(*                                                                         *)
(* The argument for NotAsleepOnReady is about a scan that is not over yet: *)
(* of every descriptor it has passed, either its buffer still knows that   *)
(* somebody must be awakened, or select() will find, before it sleeps,     *)
(* that something has happened.                                            *)
(***************************************************************************)
EXTENDS Select, FiniteSetTheorems, TLAPS

-----------------------------------------------------------------------------
(* Nobody sleeps on a ready descriptor.                                    *)

SelShape ==
  /\ ready \subseteq Bufs
  /\ sb_sel \in [Bufs -> Procs \cup {None}]
  /\ nselcoll \in 0..(CollSpace - 1)
  /\ selwait \subseteq Procs /\ cpu \in Procs \cup {None}
  /\ pc \in [Procs -> {"user", "hzto", "scan", "tsleep", "issig"}]
  /\ ibits \in [Procs -> SUBSET (Bufs \cup {None})]
  /\ todo \in [Procs -> SUBSET (Bufs \cup {None})]
  /\ ncoll \in [Procs -> 0..(CollSpace - 1)]
  /\ done \in [Procs -> BOOLEAN]

(* Only the process that has the CPU scans, and a sleeper is in tsleep(). *)
OneScans ==
  \A p \in Procs : /\ pc[p] \in {"hzto", "scan"} => cpu = p
                   /\ p \in selwait => pc[p] \in {"tsleep", "issig"}

(* A buffer that becomes ready forgets its process. *)
ReadyForgets == \A f \in ready : sb_sel[f] = None

(* When f becomes ready, p is awakened, or all sleepers are. *)
Known(p, f) == f \notin ready /\ (sb_sel[f] = p \/ (f \in sb_coll /\ sb_sel[f] # None))

SleepersKnown == \A p \in selwait : \A f \in ibits[p] \cap Bufs : Known(p, f)

ScanCovered ==
  \A p \in Procs : \A f \in (ibits[p] \ todo[p]) \cap Bufs :
    pc[p] = "scan" /\ ~done[p] => Known(p, f) \/ Changed(p)

(* The collisions since the scan of p began. *)
Collisions(p) == IF nselcoll >= ncoll[p] THEN nselcoll - ncoll[p]
                 ELSE nselcoll - ncoll[p] + CollSpace

(* Every one of them made another buffer ready: nselcoll is not back at    *)
(* the value the scan began with.                                          *)
CollisionsBounded == \A p \in Procs : pc[p] = "scan" => Collisions(p) <= Cardinality(ready)

SelInv == /\ SelShape /\ OneScans /\ ReadyForgets /\ SleepersKnown /\ ScanCovered
          /\ CollisionsBounded

USE WantsAssumption, NoneAssumption, CollAssumption

(* nselcoll wraps. *)
LEMMA Wraps ==
  ASSUME NEW n \in 0..(CollSpace - 1)
  PROVE  (n + 1) % CollSpace = IF n + 1 = CollSpace THEN 0 ELSE n + 1
  BY SMT DEF CollAssumption

(* A buffer that becomes ready adds one to those that are. *)
LEMMA OneMoreReady ==
  ASSUME ready \subseteq Bufs, NEW f \in Bufs
  PROVE  /\ Cardinality(ready) \in Nat /\ Cardinality(ready \cup {f}) \in Nat
         /\ Cardinality(ready) <= Cardinality(ready \cup {f})
         /\ f \notin ready => Cardinality(ready \cup {f}) = Cardinality(ready) + 1
         /\ Cardinality(ready \cup {f}) < CollSpace
<1>1. IsFiniteSet(ready) /\ IsFiniteSet(ready \cup {f})
  BY FS_Subset, ready \cup {f} \subseteq Bufs DEF CollAssumption
<1>2. Cardinality(ready) \in Nat /\ Cardinality(ready \cup {f}) \in Nat
  BY <1>1, FS_CardinalityType
<1>3. Cardinality(ready \cup {f}) = IF f \in ready THEN Cardinality(ready)
                                   ELSE Cardinality(ready) + 1
  BY <1>1, FS_AddElement
<1>4. Cardinality(ready \cup {f}) <= Cardinality(Bufs) /\ Cardinality(Bufs) \in Nat
  BY <1>1, FS_Subset, FS_CardinalityType, ready \cup {f} \subseteq Bufs DEF CollAssumption
<1>. QED  BY <1>2, <1>3, <1>4 DEF CollAssumption

(* While p scans, what has changed stays changed. *)
LEMMA SowakeupCounts ==
  ASSUME SelInv, NEW f \in Bufs, Sowakeup(f), NEW p \in Procs, pc[p] = "scan"
  PROVE  /\ Collisions(p)' <= Cardinality(ready')
         /\ Changed(p) => Changed(p)'
         /\ sb_sel[f] # None /\ f \in sb_coll => Changed(p)'
<1>1. /\ nselcoll \in 0..(CollSpace - 1) /\ ncoll[p] \in 0..(CollSpace - 1)
      /\ ready \subseteq Bufs /\ CollSpace \in Nat
      /\ Collisions(p) <= Cardinality(ready)
  BY DEF SelInv, SelShape, CollisionsBounded, CollAssumption
<1>2. ncoll' = ncoll /\ ready' = ready \cup {f}
  BY DEF Sowakeup, locals
<1>3. CASE sb_sel[f] = None \/ f \notin sb_coll
  <2>1. nselcoll' = nselcoll /\ ssel' \subseteq ssel
    BY <1>3 DEF Sowakeup, selwakeup
  <2>2. Collisions(p)' = Collisions(p) /\ Collisions(p) \in Int
    BY <1>1, <1>2, <2>1 DEF Collisions
  <2>. QED  BY <1>1, <1>2, <1>3, <2>1, <2>2, OneMoreReady DEF Changed
<1>4. CASE sb_sel[f] # None /\ f \in sb_coll
  <2>1. nselcoll' = IF nselcoll + 1 = CollSpace THEN 0 ELSE nselcoll + 1
    BY <1>1, <1>4, Wraps DEF Sowakeup, selwakeup
  <2>2. f \notin ready
    BY <1>4 DEF SelInv, ReadyForgets
  <2>3. Cardinality(ready') = Cardinality(ready) + 1 /\ Cardinality(ready) + 1 < CollSpace
        /\ Cardinality(ready) \in Nat
    BY <1>1, <1>2, <2>2, OneMoreReady
  <2>4. Collisions(p)' = Collisions(p) + 1 /\ Collisions(p) \in Nat
    BY <1>1, <1>2, <2>1, <2>3 DEF Collisions
  <2>5. nselcoll' # ncoll'[p]
    BY <1>1, <1>2, <2>1, <2>3 DEF Collisions
  <2>. QED  BY <1>1, <2>3, <2>4, <2>5 DEF Changed
<1>. QED  BY <1>3, <1>4

(* sowakeup(), selwakeup(). *)
LEMMA SelSowakeup ==
  ASSUME SelInv, NEW f \in Bufs, Sowakeup(f)
  PROVE  SelInv'
<1>1. /\ UNCHANGED <<cpu, pc, ibits, todo, ncoll, done>>
      /\ ready' = ready \cup {f} /\ sb_sel' = [sb_sel EXCEPT ![f] = None]
  BY DEF Sowakeup, locals
<1>2. /\ selwait' \subseteq selwait
      /\ sb_sel[f] # None => sb_sel[f] \notin selwait'
      /\ sb_sel[f] # None /\ f \in sb_coll => selwait' = {}
  BY DEF Sowakeup, selwakeup
<1>3. nselcoll' \in 0..(CollSpace - 1)
  BY Wraps DEF Sowakeup, selwakeup, SelInv, SelShape, CollAssumption
<1>4. SelShape'
  BY <1>1, <1>2, <1>3 DEF SelInv, SelShape
<1>5. OneScans'
  BY <1>1, <1>2 DEF SelInv, OneScans
<1>6. ReadyForgets'
  BY <1>1 DEF SelInv, SelShape, ReadyForgets
<1>7. ASSUME NEW g \in Bufs, g # f, NEW p \in Procs, Known(p, g)
      PROVE  Known(p, g)'
  BY <1>1, <1>7 DEF Known, Sowakeup, SelInv, SelShape
<1>8. SleepersKnown'
  BY <1>1, <1>2, <1>7 DEF SelInv, SelShape, SleepersKnown, Known
<1>9. ScanCovered'
  <2> SUFFICES ASSUME NEW p \in Procs, NEW g \in (ibits[p] \ todo[p]) \cap Bufs,
                      pc[p] = "scan", ~done[p]
               PROVE  Known(p, g)' \/ Changed(p)'
    BY <1>1 DEF ScanCovered
  <2>1. Known(p, g) \/ Changed(p)
    BY DEF SelInv, ScanCovered
  <2>2. CASE Changed(p)
    BY <2>2, SowakeupCounts
  <2>3. CASE Known(p, g) /\ g # f
    BY <2>3, <1>7
  <2>4. CASE Known(p, g) /\ g = f /\ f \in sb_coll
    <3>1. sb_sel[f] # None
      BY <2>4 DEF Known, NoneAssumption
    <3>. QED  BY <2>4, <3>1, SowakeupCounts
  <2>5. CASE Known(p, g) /\ g = f /\ f \notin sb_coll
    <3>1. sb_sel[f] = p /\ p \notin selwait /\ p # None
      BY <2>5 DEF Known, NoneAssumption, SelInv, OneScans
    <3>. QED  BY <2>5, <3>1 DEF Sowakeup, selwakeup, Changed
  <2>. QED  BY <2>1, <2>2, <2>3, <2>4, <2>5
<1>10. CollisionsBounded'
  BY <1>1, SowakeupCounts DEF CollisionsBounded
<1>. QED  BY <1>4, <1>5, <1>6, <1>8, <1>9, <1>10 DEF SelInv

(* selscan() looks at one more descriptor. *)
LEMMA SelSelscan ==
  ASSUME SelInv, NEW p \in Procs, Selscan(p)
  PROVE  SelInv'
<1>1. /\ UNCHANGED <<ready, nselcoll, ssel, selwait, cpu, pc, ibits, ncoll>>
      /\ pc[p] = "scan" /\ cpu = p /\ p # None /\ p \notin selwait
  BY DEF Selscan, flags, SelInv, OneScans, NoneAssumption
<1>2. PICK f \in todo[p] :
       /\ todo' = [todo EXCEPT ![p] = @ \ {f}]
       /\ IF f \in ready \cup {None}
          THEN done' = [done EXCEPT ![p] = TRUE] /\ UNCHANGED <<sb_sel, sb_coll>>
          ELSE sbselqueue(p, f) /\ UNCHANGED done
  BY DEF Selscan
<1>3. f \in Bufs \cup {None}
  BY DEF SelInv, SelShape
<1>4. SelShape'
  BY <1>1, <1>2, <1>3 DEF SelInv, SelShape, sbselqueue
<1>5. OneScans' /\ CollisionsBounded'
  BY <1>1 DEF SelInv, OneScans, CollisionsBounded, Collisions
<1>6. ReadyForgets'
  BY <1>1, <1>2, <1>3 DEF SelInv, SelShape, ReadyForgets, sbselqueue
<1>7. ASSUME NEW q \in Procs, q = p \/ q \in selwait, NEW g \in Bufs, Known(q, g)
      PROVE  Known(q, g)'
  <2>1. CASE UNCHANGED <<sb_sel, sb_coll>>
    BY <1>1, <1>7, <2>1 DEF Known
  <2>2. CASE sb_sel[f] \in selwait /\ sb_coll' = sb_coll \cup {f} /\ UNCHANGED sb_sel
    BY <1>1, <1>7, <2>2 DEF Known
  <2>3. CASE /\ sb_sel[f] \notin selwait /\ f \in Bufs
             /\ sb_sel' = [sb_sel EXCEPT ![f] = p] /\ UNCHANGED sb_coll
    BY <1>1, <1>7, <2>3 DEF Known, SelInv, SelShape, NoneAssumption
  <2>. QED  BY <1>2, <1>3, <2>1, <2>2, <2>3 DEF sbselqueue
<1>8. SleepersKnown'
  BY <1>1, <1>7 DEF SelInv, SelShape, SleepersKnown
<1>9. ScanCovered'
  <2> SUFFICES ASSUME NEW q \in Procs, NEW g \in (ibits[q] \ todo'[q]) \cap Bufs,
                      pc[q] = "scan", ~done'[q]
               PROVE  Known(q, g)' \/ Changed(q)'
    BY <1>1 DEF ScanCovered
  <2>1. q = p /\ f \notin ready \cup {None} /\ f \in Bufs
    BY <1>1, <1>2, <1>3 DEF SelInv, SelShape, OneScans
  <2>2. CASE g = f
    <3>1. CASE sb_sel[f] \in selwait
      <4>1. sb_sel[f] # None
        BY <3>1 DEF SelInv, SelShape, NoneAssumption
      <4>. QED  BY <1>1, <1>2, <2>1, <2>2, <3>1, <4>1 DEF sbselqueue, Known
    <3>2. CASE sb_sel[f] \notin selwait
      BY <1>1, <1>2, <2>1, <2>2, <3>2 DEF sbselqueue, Known, SelInv, SelShape
    <3>. QED  BY <3>1, <3>2
  <2>3. CASE g # f
    <3>1. g \notin todo[p] /\ ~done[p]
      BY <1>2, <2>1, <2>3 DEF SelInv, SelShape
    <3>. QED  BY <1>1, <1>7, <2>1, <3>1 DEF SelInv, ScanCovered, Changed
  <2>. QED  BY <2>2, <2>3
<1>. QED  BY <1>4, <1>5, <1>6, <1>8, <1>9 DEF SelInv

(* A process that is not asleep enters, leaves, stops, or begins a scan. *)
LEMMA SelBegins ==
  ASSUME SelInv, NEW p \in Procs, UNCHANGED <<chans, selwait>>,
         p \notin selwait, cpu \in {p, None},
         NEW c \in Procs \cup {None}, cpu' = c,
         NEW label \in {"user", "hzto", "scan", "issig"},
         pc' = [pc EXCEPT ![p] = label], label \in {"hzto", "scan"} => c = p,
         NEW want \in SUBSET (Bufs \cup {None}), ibits' = [ibits EXCEPT ![p] = want],
         NEW left \in SUBSET (Bufs \cup {None}), todo' = [todo EXCEPT ![p] = left],
         label = "scan" => left = want,
         NEW n \in 0..(CollSpace - 1), ncoll' = [ncoll EXCEPT ![p] = n],
         label = "scan" => n = nselcoll,
         done' \in [Procs -> BOOLEAN]
  PROVE  SelInv'
<1>1. UNCHANGED <<ready, sb_sel, sb_coll, nselcoll>>
  BY DEF chans
<1>2. ASSUME NEW q \in Procs, q # p
      PROVE  /\ pc'[q] \notin {"hzto", "scan"} /\ pc'[q] = pc[q] /\ ibits'[q] = ibits[q]
  BY <1>2 DEF SelInv, SelShape, OneScans, NoneAssumption
<1>3. pc'[p] = label /\ ibits'[p] = want /\ todo'[p] = left /\ ncoll'[p] = n
  BY DEF SelInv, SelShape
<1>4. SelShape'
  BY <1>1 DEF SelInv, SelShape
<1>5. OneScans'
  BY <1>2, <1>3 DEF SelInv, OneScans
<1>6. ReadyForgets'
  BY <1>1 DEF SelInv, ReadyForgets
<1>7. SleepersKnown'
  BY <1>1, <1>2 DEF SelInv, SelShape, SleepersKnown, Known
<1>8. ScanCovered'
  BY <1>2, <1>3 DEF ScanCovered
<1>9. CollisionsBounded'
  <2>1. Cardinality(ready) \in Nat
    BY FS_Subset, FS_CardinalityType DEF SelInv, SelShape, CollAssumption
  <2>2. label = "scan" => Collisions(p)' = 0
    BY <1>1, <1>3 DEF Collisions, SelInv, SelShape
  <2>. QED  BY <1>1, <1>2, <1>3, <2>1, <2>2 DEF CollisionsBounded
<1>. QED  BY <1>4, <1>5, <1>6, <1>7, <1>8, <1>9 DEF SelInv

(* tsleep(): after a scan that nothing has overtaken, every buffer of the  *)
(* process knows of a sleeper.                                             *)
LEMMA SelSleep ==
  ASSUME SelInv, NEW p \in Procs, NEW label \in {"tsleep", "issig"}, Wait(p, label)
  PROVE  SelInv'
<1>1. /\ UNCHANGED <<ready, sb_sel, sb_coll, nselcoll, ibits, todo, done>>
      /\ selwait' = selwait \cup {p} /\ pc[p] = "scan" /\ todo[p] = {} /\ ~done[p]
      /\ ~Changed(p) /\ pc' = [pc EXCEPT ![p] = label] /\ cpu' = None /\ cpu = p
      /\ ncoll' = [ncoll EXCEPT ![p] = 0]
  BY DEF Wait, Scanned, chans, SelInv, OneScans
<1>2. ASSUME NEW q \in Procs PROVE pc'[q] \notin {"hzto", "scan"}
  BY <1>1 DEF SelInv, SelShape, OneScans
<1>3. SelShape'
  BY <1>1 DEF SelInv, SelShape, CollAssumption
<1>4. OneScans' /\ ScanCovered' /\ CollisionsBounded'
  BY <1>1, <1>2 DEF SelInv, SelShape, OneScans, ScanCovered, CollisionsBounded
<1>5. ReadyForgets'
  BY <1>1 DEF SelInv, ReadyForgets
<1>6. SleepersKnown'
  BY <1>1 DEF SelInv, SelShape, SleepersKnown, ScanCovered, Known
<1>. QED  BY <1>3, <1>4, <1>5, <1>6 DEF SelInv

(* A step that only ends sleeps. *)
LEMMA SelEnds ==
  ASSUME SelInv, selwait' \subseteq selwait,
         UNCHANGED <<chans, ssel, cpu, locals>>
  PROVE  SelInv'
<1>1. SelShape' /\ OneScans' /\ ReadyForgets'
  BY DEF SelInv, SelShape, OneScans, ReadyForgets, chans, locals
<1>2. SleepersKnown'
  BY DEF SelInv, SleepersKnown, Known, chans, locals
<1>3. ScanCovered' /\ CollisionsBounded'
  BY DEF SelInv, ScanCovered, CollisionsBounded, Collisions, Changed, Known, chans, locals
<1>. QED  BY <1>1, <1>2, <1>3 DEF SelInv

(* A process takes data, when nobody scans. *)
LEMMA SelConsume ==
  ASSUME SelInv, NEW f \in Bufs, Consume(f)
  PROVE  SelInv'
<1>1. /\ UNCHANGED <<sb_sel, sb_coll, nselcoll, selwait, cpu, pc, ibits, todo, ncoll, done>>
      /\ ready' \subseteq ready
  BY DEF Consume, flags, locals
<1>2. ASSUME NEW p \in Procs PROVE pc[p] \notin {"hzto", "scan"}
  BY DEF Consume, SelInv, OneScans, NoneAssumption
<1>3. SelShape' /\ OneScans' /\ ReadyForgets'
  BY <1>1 DEF SelInv, SelShape, OneScans, ReadyForgets
<1>4. SleepersKnown'
  BY <1>1 DEF SelInv, SleepersKnown, Known
<1>5. ScanCovered' /\ CollisionsBounded'
  BY <1>1, <1>2 DEF ScanCovered, CollisionsBounded
<1>. QED  BY <1>3, <1>4, <1>5 DEF SelInv

(* The labels retry and done. *)
LEMMA SelRetry ==
  ASSUME SelInv, NEW p \in Procs, Retry(p), UNCHANGED <<chans, selwait, ibits>>,
         p \notin selwait, cpu \in {p, None}
  PROVE  SelInv'
<1>1. /\ ibits[p] \in SUBSET (Bufs \cup {None}) /\ ibits' = [ibits EXCEPT ![p] = ibits[p]]
      /\ nselcoll \in 0..(CollSpace - 1) /\ done' \in [Procs -> BOOLEAN]
  BY DEF SelInv, SelShape, Retry
<1>. QED  BY <1>1, SelBegins DEF Retry

LEMMA SelDone ==
  ASSUME SelInv, NEW p \in Procs, Done(p), UNCHANGED <<chans, selwait>>,
         p \notin selwait, cpu \in {p, None}
  PROVE  SelInv'
<1>1. /\ {} \in SUBSET (Bufs \cup {None}) /\ 0 \in 0..(CollSpace - 1)
      /\ done' \in [Procs -> BOOLEAN]
  BY DEF SelInv, SelShape, Done, CollAssumption
<1>. QED  BY <1>1, SelBegins DEF Done

LEMMA SelAwoken ==
  ASSUME SelInv, NEW p \in Procs, Awoken(p), UNCHANGED <<chans, selwait>>,
         p \notin selwait, cpu = None
  PROVE  SelInv'
  BY SelRetry, SelDone DEF Awoken

(* The second CURSIG stops the process. *)
LEMMA SelStops ==
  ASSUME SelInv, NEW p \in Procs, AwakeStopped(p), UNCHANGED <<chans, selwait>>,
         p \notin selwait, cpu = None
  PROVE  SelInv'
<1>1. /\ ibits[p] \in SUBSET (Bufs \cup {None}) /\ ibits' = [ibits EXCEPT ![p] = ibits[p]]
      /\ todo[p] \in SUBSET (Bufs \cup {None}) /\ todo' = [todo EXCEPT ![p] = todo[p]]
      /\ ncoll[p] \in 0..(CollSpace - 1) /\ ncoll' = [ncoll EXCEPT ![p] = ncoll[p]]
      /\ done' \in [Procs -> BOOLEAN] /\ cpu' = None
      /\ pc' = [pc EXCEPT ![p] = "issig"]
  BY DEF AwakeStopped, SelInv, SelShape
<1>. QED  BY <1>1, SelBegins

(* select(2) reads its arguments. *)
LEMMA SelEnters ==
  ASSUME SelInv, NEW p \in Procs, Select(p)
  PROVE  SelInv'
<1>1. PICK want \in SUBSET (Bufs \cup {None}) : ibits' = [ibits EXCEPT ![p] = want]
  BY DEF Select, WantsAssumption
<1>2. /\ p \notin selwait /\ cpu = None /\ UNCHANGED <<chans, selwait>> /\ cpu' = p
      /\ pc' = [pc EXCEPT ![p] = "hzto"]
  BY DEF Select, flags, SelInv, OneScans
<1>3. /\ todo[p] \in SUBSET (Bufs \cup {None}) /\ todo' = [todo EXCEPT ![p] = todo[p]]
      /\ ncoll[p] \in 0..(CollSpace - 1) /\ ncoll' = [ncoll EXCEPT ![p] = ncoll[p]]
      /\ done' \in [Procs -> BOOLEAN]
  BY DEF Select, SelInv, SelShape
<1>. QED  BY <1>1, <1>2, <1>3, SelBegins

(* select() never sleeps through an event: no process sleeps in it while   *)
(* a descriptor it asked for is ready, however many processes select on    *)
(* the same buffers and whatever arrives during their scans                *)
(* (sys_generic.c, select() and selwakeup(); uipc_socket2.c,               *)
(* sbselqueue()).                                                          *)
THEOREM NobodySleepsOnReady == Spec => []NotAsleepOnReady
<1>1. Init => SelInv
  <2> SUFFICES ASSUME Init PROVE SelInv
    OBVIOUS
  <2>0. 0 \in 0..(CollSpace - 1)
    BY FS_CardinalityType DEF CollAssumption
  <2>1. SelShape
    BY <2>0 DEF Init, SelShape
  <2>2. OneScans /\ ReadyForgets /\ SleepersKnown /\ ScanCovered /\ CollisionsBounded
    BY DEF Init, OneScans, ReadyForgets, SleepersKnown, ScanCovered, CollisionsBounded
  <2>. QED  BY <2>1, <2>2 DEF SelInv
<1>2. SelInv /\ [Next]_vars => SelInv'
  <2> SUFFICES ASSUME SelInv, [Next]_vars PROVE SelInv'
    OBVIOUS
  <2>1. CASE UNCHANGED vars
    BY <2>1, SelEnds DEF vars, flags
  <2>2. CASE Tick
    BY <2>2, SelEnds DEF Tick
  <2>3. ASSUME NEW f \in Bufs, Sowakeup(f) PROVE SelInv'
    BY <2>3, SelSowakeup
  <2>4. ASSUME NEW f \in Bufs, Consume(f) PROVE SelInv'
    BY <2>4, SelConsume
  <2>5. ASSUME NEW p \in Procs, Select(p) PROVE SelInv'
    BY <2>5, SelEnters
  <2>6. ASSUME NEW p \in Procs, Hzto(p) PROVE SelInv'
    BY <2>6, SelRetry DEF Hzto, SelInv, OneScans
  <2>7. ASSUME NEW p \in Procs, Selscan(p) PROVE SelInv'
    BY <2>7, SelSelscan
  <2>8. ASSUME NEW p \in Procs, Return(p) PROVE SelInv'
    BY <2>8, SelDone DEF Return, Scanned, SelInv, OneScans
  <2>9. ASSUME NEW p \in Procs, ScanAgain(p) PROVE SelInv'
    BY <2>9, SelRetry DEF ScanAgain, Scanned, SelInv, OneScans
  <2>10. ASSUME NEW p \in Procs, Sleep(p) \/ SleepStopped(p) PROVE SelInv'
    BY <2>10, SelSleep DEF Sleep, SleepStopped
  <2>11. ASSUME NEW p \in Procs, Awake(p) PROVE SelInv'
    <3>1. p \notin selwait /\ cpu = None /\ UNCHANGED <<chans, selwait>>
      BY <2>11 DEF Awake
    <3>2. CASE Done(p)
      BY <3>1, <3>2, SelDone
    <3>3. CASE Awoken(p)
      BY <3>1, <3>3, SelAwoken
    <3>4. CASE AwakeStopped(p)
      BY <3>1, <3>4, SelStops
    <3>. QED  BY <2>11, <3>2, <3>3, <3>4 DEF Awake
  <2>13. ASSUME NEW p \in Procs, Continued(p) PROVE SelInv'
    BY <2>13, SelAwoken DEF Continued
  <2>12. ASSUME NEW p \in Procs, Signal(p) \/ Stop(p) \/ Cont(p) PROVE SelInv'
    BY <2>12, SelEnds DEF Signal, Stop, Cont
  <2>. QED  BY <2>1, <2>2, <2>3, <2>4, <2>5, <2>6, <2>7, <2>8, <2>9, <2>10, <2>11, <2>12,
               <2>13 DEF Next, Process
<1>3. SelInv => NotAsleepOnReady
  BY DEF SelInv, SelShape, SleepersKnown, Known, NotAsleepOnReady
<1>. QED  BY <1>1, <1>2, <1>3, PTL DEF Spec

-----------------------------------------------------------------------------
(* The timeout.  An interval that is not a whole number of ticks may leave *)
(* hzto() less than a tick, and tsleep() no timeout at all: the theorem is *)
(* about the others.                                                       *)

WholeTicks == \A t \in Intervals : t % TickUnits = 0

Whole(t) == \E n \in Int : t = n * TickUnits

TimeShape ==
  /\ selwait \subseteq Procs
  /\ pc \in [Procs -> {"user", "hzto", "scan", "tsleep", "issig"}]
  /\ tv \in [Procs -> Intervals \cup {None}]
  /\ atv \in [Procs -> Int \cup {None}]
  /\ timo \in [Procs -> Int] /\ timer \in [Procs -> Int]

(* What is left is a whole number of ticks, never more than was asked for; *)
(* the ticks to sleep are at least one while time is left.                 *)
TimeLeft ==
  \A p \in Procs :
    /\ tv[p] = None <=> atv[p] = None
    /\ atv[p] # None => /\ Whole(atv[p]) /\ atv[p] <= tv[p]
                        /\ pc[p] \in {"scan", "tsleep", "issig"} =>
                             /\ timo[p] * TickUnits <= tv[p]
                             /\ atv[p] > 0 => timo[p] >= 1

(* The timer and the time that has passed go together. *)
TimerRuns ==
  \A p \in selwait :
    /\ pc[p] \in {"tsleep", "issig"}
    /\ pc[p] = "tsleep" /\ tv[p] # None =>
         timer[p] >= 1 /\ timer[p] * TickUnits - atv[p] < tv[p]

TimeInv == TimeShape /\ TimeLeft /\ TimerRuns

LEMMA Units ==
  /\ TickUnits \in Int /\ TickUnits >= 1
  /\ \A t \in Intervals : t \in Nat
  BY IntervalsAssumption DEF IntervalsAssumption

(* hzto() of a whole number of ticks. *)
LEMMA Quotient ==
  ASSUME NEW n \in Int
  PROVE  (n * TickUnits) \div TickUnits = n
  BY Units, SMT

LEMMA WholeOf ==
  ASSUME NEW t \in Nat, t % TickUnits = 0
  PROVE  Whole(t)
<1>1. t = (t \div TickUnits) * TickUnits /\ t \div TickUnits \in Int
  BY Units, SMT
<1>. QED  BY <1>1 DEF Whole

LEMMA OldestIsWhole ==
  ASSUME WholeTicks
  PROVE  Oldest \in Int /\ Oldest <= 0 /\ Whole(Oldest)
<1> DEFINE longest == CHOOSE t \in Intervals \cup {0} : \A u \in Intervals : u <= t
<1>1. longest \in Intervals \cup {0}
  BY IntervalsAssumption DEF IntervalsAssumption
<1> HIDE DEF longest
<1>2. longest \in Nat
  BY Units, <1>1
<1>3. Whole(longest)
  <2>1. CASE longest = 0
    <3>1. 0 = 0 * TickUnits
      BY Units
    <3>. QED  BY <2>1, <3>1 DEF Whole
  <2>2. CASE longest \in Intervals
    <3>1. longest % TickUnits = 0
      BY <2>2 DEF WholeTicks
    <3>. QED  BY <1>2, <3>1, WholeOf
  <2>. QED  BY <1>1, <2>1, <2>2
<1>4. PICK n \in Int : longest = n * TickUnits
  BY <1>3 DEF Whole
<1>5. -n \in Int /\ -longest = (-n) * TickUnits
  BY Units, <1>4
<1>6. Oldest = -longest
  BY DEF Oldest, longest
<1>7. Whole(Oldest)
  BY <1>5, <1>6 DEF Whole
<1>. QED  BY <1>2, <1>6, <1>7

(* A step that leaves times and timers alone, and moves a process only on  *)
(* its way through select().                                               *)
LEMMA TimeKept ==
  ASSUME TimeInv, UNCHANGED <<tv, atv, timo>>, selwait' \subseteq selwait,
         timer' \in [Procs -> Int], \A p \in selwait' : timer'[p] = timer[p],
         pc' \in [Procs -> {"user", "hzto", "scan", "tsleep", "issig"}],
         \A p \in Procs : pc'[p] # pc[p] => /\ p \notin selwait'
                                             /\ pc[p] \in {"scan", "tsleep", "issig"}
  PROVE  TimeInv'
<1>1. TimeShape'
  BY DEF TimeInv, TimeShape
<1>2. TimeLeft'
  BY DEF TimeInv, TimeLeft, Whole
<1>3. TimerRuns'
  BY DEF TimeInv, TimeShape, TimerRuns
<1>. QED  BY <1>1, <1>2, <1>3 DEF TimeInv

(* select() begins: t is all that is left. *)
LEMMA TimeBegins ==
  ASSUME WholeTicks, TimeInv, NEW p \in Procs, Select(p)
  PROVE  TimeInv'
<1>1. PICK t \in Intervals \cup {None} :
        tv' = [tv EXCEPT ![p] = t] /\ atv' = [atv EXCEPT ![p] = t]
  BY DEF Select
<1>2. /\ pc[p] = "user" /\ pc' = [pc EXCEPT ![p] = "hzto"]
      /\ UNCHANGED <<selwait, timer, timo>>
  BY DEF Select, flags
<1>3. p \notin selwait
  BY <1>2 DEF TimeInv, TimerRuns
<1>4. TimeShape'
  BY Units, <1>1, <1>2 DEF TimeInv, TimeShape
<1>5. ASSUME t # None
      PROVE  t \in Nat /\ Whole(t) /\ t <= t
  BY Units, <1>5, WholeOf DEF WholeTicks
<1>6. TimeLeft'
  <2> SUFFICES ASSUME NEW q \in Procs
               PROVE  /\ tv'[q] = None <=> atv'[q] = None
                      /\ atv'[q] # None => /\ Whole(atv'[q]) /\ atv'[q] <= tv'[q]
                                           /\ pc'[q] \in {"scan", "tsleep", "issig"} =>
                                                /\ timo'[q] * TickUnits <= tv'[q]
                                                /\ atv'[q] > 0 => timo'[q] >= 1
    BY DEF TimeLeft, Whole
  <2>1. CASE q = p
    BY <1>1, <1>2, <1>5, <2>1 DEF TimeInv, TimeShape
  <2>2. CASE q # p
    BY <1>1, <1>2, <2>2 DEF TimeInv, TimeShape, TimeLeft
  <2>. QED  BY <2>1, <2>2
<1>7. TimerRuns'
  BY <1>1, <1>2, <1>3 DEF TimeInv, TimeShape, TimerRuns
<1>. QED  BY <1>4, <1>6, <1>7 DEF TimeInv

(* hzto(): what is left, in ticks. *)
LEMMA TimeHzto ==
  ASSUME TimeInv, NEW p \in Procs, Hzto(p)
  PROVE  TimeInv'
<1>1. /\ pc[p] = "hzto" /\ pc' = [pc EXCEPT ![p] = "scan"]
      /\ timo' = [timo EXCEPT ![p] = IF atv[p] = None THEN 0 ELSE atv[p] \div TickUnits]
      /\ UNCHANGED <<selwait, timer, tv, atv>>
  BY DEF Hzto, Retry
<1>2. p \notin selwait
  BY <1>1 DEF TimeInv, TimerRuns
<1>3. ASSUME atv[p] # None
      PROVE  /\ timo'[p] \in Int
             /\ timo'[p] * TickUnits <= tv[p]
             /\ atv[p] > 0 => timo'[p] >= 1
  <2>1. PICK n \in Int : atv[p] = n * TickUnits
    BY <1>3 DEF TimeInv, TimeLeft, Whole
  <2>2. timo'[p] = n
    BY <1>1, <1>3, <2>1, Quotient DEF TimeInv, TimeShape
  <2>3. atv[p] > 0 => n >= 1
    BY Units, <2>1
  <2>. QED  BY <1>3, <2>1, <2>2, <2>3 DEF TimeInv, TimeLeft
<1>4. TimeShape'
  BY <1>1, <1>3 DEF TimeInv, TimeShape
<1>5. TimeLeft'
  BY <1>1, <1>3 DEF TimeInv, TimeShape, TimeLeft, Whole
<1>6. TimerRuns'
  BY <1>1, <1>2 DEF TimeInv, TimeShape, TimerRuns
<1>. QED  BY <1>4, <1>5, <1>6 DEF TimeInv

(* tsleep() starts the timer while there is time left. *)
LEMMA TimeSleep ==
  ASSUME TimeInv, NEW p \in Procs, Sleep(p)
  PROVE  TimeInv'
<1>1. /\ pc[p] = "scan" /\ pc' = [pc EXCEPT ![p] = "tsleep"]
      /\ atv[p] # None => ~(atv[p] <= 0)
      /\ selwait' = selwait \cup {p} /\ timer' = [timer EXCEPT ![p] = timo[p]]
      /\ UNCHANGED <<tv, atv, timo>>
  BY DEF Sleep, Wait, Scanned, Late, time
<1>2. TimeShape'
  BY <1>1 DEF TimeInv, TimeShape
<1>3. TimeLeft'
  BY <1>1 DEF TimeInv, TimeShape, TimeLeft, Whole
<1>4. TimerRuns'
  <2> SUFFICES ASSUME NEW q \in selwait'
               PROVE  /\ pc'[q] \in {"tsleep", "issig"}
                      /\ pc'[q] = "tsleep" /\ tv[q] # None => /\ timer'[q] >= 1
                                         /\ timer'[q] * TickUnits - atv[q] < tv[q]
    BY <1>1 DEF TimerRuns
  <2>1. CASE q = p
    <3>1. pc'[p] = "tsleep" /\ timer'[p] = timo[p]
      BY <1>1 DEF TimeInv, TimeShape
    <3>2. ASSUME tv[p] # None
          PROVE  timo[p] >= 1 /\ timo[p] * TickUnits - atv[p] < tv[p]
      <4>1. atv[p] \in Int /\ atv[p] > 0 /\ tv[p] \in Int
        BY Units, <1>1, <3>2 DEF TimeInv, TimeShape, TimeLeft
      <4>2. timo[p] * TickUnits <= tv[p] /\ timo[p] >= 1 /\ timo[p] * TickUnits \in Int
        BY Units, <1>1, <3>2, <4>1 DEF TimeInv, TimeShape, TimeLeft
      <4>. QED  BY <4>1, <4>2
    <3>. QED  BY <2>1, <3>1, <3>2
  <2>2. CASE q # p
    BY <1>1, <2>2 DEF TimeInv, TimeShape, TimerRuns
  <2>. QED  BY <2>1, <2>2
<1>. QED  BY <1>2, <1>3, <1>4 DEF TimeInv

(* tsleep() stops in its first CURSIG, and no timer is started. *)
LEMMA TimeSleepStopped ==
  ASSUME TimeInv, NEW p \in Procs, SleepStopped(p)
  PROVE  TimeInv'
<1>1. /\ pc[p] = "scan" /\ pc' = [pc EXCEPT ![p] = "issig"]
      /\ selwait' = selwait \cup {p} /\ UNCHANGED <<tv, atv, timo, timer>>
  BY DEF SleepStopped, Wait, Scanned, time
<1>2. TimeShape'
  BY <1>1 DEF TimeInv, TimeShape
<1>3. TimeLeft'
  BY <1>1 DEF TimeInv, TimeShape, TimeLeft, Whole
<1>4. TimerRuns'
  BY <1>1 DEF TimeInv, TimeShape, TimerRuns
<1>. QED  BY <1>2, <1>3, <1>4 DEF TimeInv

(* hardclock(): a tick takes as much from the timer as from what is left. *)
LEMMA TimeTick ==
  ASSUME WholeTicks, TimeInv, Tick
  PROVE  TimeInv'
<1>1. UNCHANGED <<pc, tv, timo>>
  BY DEF Tick, locals
<1>2. ASSUME NEW p \in Procs
      PROVE  /\ timer'[p] = IF timer[p] > 0 THEN timer[p] - 1 ELSE 0
             /\ atv[p] = None => atv'[p] = None
             /\ atv[p] # None =>
                  /\ atv'[p] \in Int /\ atv'[p] >= atv[p] - TickUnits
                  /\ atv'[p] \in {Oldest, atv[p] - TickUnits}
  BY Units, OldestIsWhole DEF Tick, TimeInv, TimeShape
<1>3. ASSUME NEW p \in selwait'
      PROVE  p \in selwait /\ timer[p] # 1
  BY <1>3 DEF Tick
<1>4. TimeShape'
  <2>1. selwait' \subseteq Procs
    BY <1>3 DEF TimeInv, TimeShape
  <2>2. atv' \in [Procs -> Int \cup {None}]
    <3>1. atv' = [p \in Procs |-> atv'[p]]
      BY DEF Tick
    <3>. QED  BY <1>2, <3>1 DEF TimeInv, TimeShape
  <2>3. timer' \in [Procs -> Int]
    BY DEF Tick, TimeInv, TimeShape
  <2>. QED  BY <1>1, <2>1, <2>2, <2>3 DEF TimeInv, TimeShape
<1>5. ASSUME NEW p \in Procs, atv[p] # None
      PROVE  Whole(atv'[p])
  <2>1. PICK n \in Int : atv[p] = n * TickUnits
    BY <1>5 DEF TimeInv, TimeLeft, Whole
  <2>2. n - 1 \in Int /\ atv[p] - TickUnits = (n - 1) * TickUnits
    BY <2>1, Units
  <2>3. Whole(atv[p] - TickUnits)
    BY <2>2 DEF Whole
  <2>. QED  BY <1>2, <1>5, <2>3, OldestIsWhole
<1>6. ASSUME NEW p \in Procs, atv[p] # None
      PROVE  atv'[p] <= atv[p] \/ atv'[p] = Oldest
  BY <1>2, <1>6, Units DEF TimeInv, TimeShape
<1>7. TimeLeft'
  <2> SUFFICES ASSUME NEW p \in Procs
               PROVE  /\ tv[p] = None <=> atv'[p] = None
                      /\ atv'[p] # None => /\ Whole(atv'[p]) /\ atv'[p] <= tv[p]
                                           /\ pc[p] \in {"scan", "tsleep", "issig"} =>
                                                /\ timo[p] * TickUnits <= tv[p]
                                                /\ atv'[p] > 0 => timo[p] >= 1
    BY <1>1 DEF TimeLeft, Whole
  <2>1. CASE atv[p] = None
    BY <1>2, <2>1 DEF TimeInv, TimeLeft
  <2>2. CASE atv[p] # None
    <3>1. /\ atv[p] \in Int /\ atv'[p] \in Int /\ tv[p] \in Nat /\ tv[p] # None
          /\ Oldest \in Int /\ Oldest <= 0 /\ atv[p] <= tv[p] /\ atv'[p] # None
      BY <1>2, <2>2, Units, OldestIsWhole, NoneAssumption
         DEF TimeInv, TimeShape, TimeLeft, NoneAssumption
    <3>2. atv'[p] <= tv[p] /\ (atv'[p] > 0 => atv[p] > 0)
      BY <1>6, <2>2, <3>1
    <3>. QED  BY <1>5, <2>2, <3>1, <3>2 DEF TimeInv, TimeLeft
  <2>. QED  BY <2>1, <2>2
<1>8. TimerRuns'
  <2> SUFFICES ASSUME NEW p \in selwait', pc[p] = "tsleep", tv[p] # None
               PROVE  timer'[p] >= 1 /\ timer'[p] * TickUnits - atv'[p] < tv[p]
    BY <1>1, <1>3 DEF TimeInv, TimerRuns
  <2>1. p \in Procs /\ p \in selwait /\ timer[p] # 1
    BY <1>3 DEF TimeInv, TimeShape
  <2>2. /\ timer[p] >= 1 /\ timer[p] * TickUnits - atv[p] < tv[p] /\ atv[p] # None
        /\ timer[p] \in Int /\ atv[p] \in Int /\ tv[p] \in Int
    BY <2>1, Units DEF TimeInv, TimeShape, TimeLeft, TimerRuns
  <2>3. timer'[p] = timer[p] - 1
    BY <1>2, <2>1, <2>2
  <2>4. atv'[p] \in Int /\ atv'[p] >= atv[p] - TickUnits
    BY <1>2, <2>1, <2>2
  <2>5. (timer[p] - 1) * TickUnits = timer[p] * TickUnits - TickUnits
        /\ timer[p] * TickUnits \in Int
    BY <2>2, Units
  <2>. QED  BY <2>1, <2>2, <2>3, <2>4, <2>5, Units
<1>. QED  BY <1>4, <1>7, <1>8 DEF TimeInv

(* The label done: there is no time any more. *)
LEMMA TimeDone ==
  ASSUME TimeInv, NEW p \in Procs, Done(p), p \notin selwait, UNCHANGED selwait,
         timer' \in [Procs -> Int], \A q \in selwait : timer'[q] = timer[q]
  PROVE  TimeInv'
<1>1. /\ pc' = [pc EXCEPT ![p] = "user"] /\ tv' = [tv EXCEPT ![p] = None]
      /\ atv' = [atv EXCEPT ![p] = None] /\ timo' = [timo EXCEPT ![p] = 0]
  BY DEF Done
<1>2. TimeShape'
  BY <1>1 DEF TimeInv, TimeShape
<1>3. TimeLeft'
  BY <1>1 DEF TimeInv, TimeShape, TimeLeft, Whole
<1>4. TimerRuns'
  BY <1>1 DEF TimeInv, TimeShape, TimerRuns
<1>. QED  BY <1>2, <1>3, <1>4 DEF TimeInv

(* The label retry, for a process that has been there before. *)
LEMMA TimeRetry ==
  ASSUME TimeInv, NEW p \in Procs, Retry(p), pc[p] \in {"scan", "tsleep", "issig"},
         p \notin selwait, UNCHANGED <<selwait, time>>,
         timer' \in [Procs -> Int], \A q \in selwait : timer'[q] = timer[q]
  PROVE  TimeInv'
<1>1. pc' = [pc EXCEPT ![p] = "scan"]
  BY DEF Retry
<1>2. /\ pc' \in [Procs -> {"user", "hzto", "scan", "tsleep", "issig"}]
      /\ \A q \in Procs : pc'[q] # pc[q] => q = p
  BY <1>1 DEF TimeInv, TimeShape
<1>. QED  BY <1>2, TimeKept DEF time

(* With a timeout that is a whole number of ticks, a process that sleeps   *)
(* in select() has a timer running, and sleeps for less than twice the     *)
(* interval, however often it is awakened for nothing and whenever it is   *)
(* stopped and continued, unless tsleep()'s first CURSIG stopped it: such  *)
(* a sleep is without a timer, and its label is "issig" (sys_generic.c,    *)
(* select(); kern_clock.c, hzto(); kern_synch.c, tsleep()).                *)
THEOREM TimeoutsEndSleeps == WholeTicks => (Spec => []TimeoutEndsSleep)
<1> SUFFICES ASSUME WholeTicks PROVE Spec => []TimeoutEndsSleep
  OBVIOUS
<1>1. Init => TimeInv
  BY DEF Init, TimeInv, TimeShape, TimeLeft, TimerRuns
<1>2. TimeInv /\ [Next]_vars => TimeInv'
  <2> SUFFICES ASSUME TimeInv, [Next]_vars PROVE TimeInv'
    OBVIOUS
  <2>0. /\ timer \in [Procs -> Int]
        /\ pc \in [Procs -> {"user", "hzto", "scan", "tsleep", "issig"}]
        /\ \A p \in selwait : pc[p] \in {"tsleep", "issig"}
    BY DEF TimeInv, TimeShape, TimerRuns
  <2>1. CASE UNCHANGED vars
    BY <2>0, <2>1, TimeKept DEF vars, flags, time, locals
  <2>2. CASE Tick
    BY <2>2, TimeTick
  <2>3. ASSUME NEW f \in Bufs, Sowakeup(f) PROVE TimeInv'
    BY <2>0, <2>3, TimeKept DEF Sowakeup, selwakeup, time, locals
  <2>4. ASSUME NEW f \in Bufs, Consume(f) PROVE TimeInv'
    BY <2>0, <2>4, TimeKept DEF Consume, flags, time, locals
  <2>5. ASSUME NEW p \in Procs, Select(p) PROVE TimeInv'
    BY <2>5, TimeBegins
  <2>6. ASSUME NEW p \in Procs, Hzto(p) PROVE TimeInv'
    BY <2>6, TimeHzto
  <2>7. ASSUME NEW p \in Procs, Selscan(p) PROVE TimeInv'
    BY <2>0, <2>7, TimeKept DEF Selscan, flags, time
  <2>8. ASSUME NEW p \in Procs, Return(p) PROVE TimeInv'
    BY <2>0, <2>8, TimeDone DEF Return, Scanned
  <2>9. ASSUME NEW p \in Procs, ScanAgain(p) PROVE TimeInv'
    BY <2>0, <2>9, TimeRetry DEF ScanAgain, Scanned
  <2>10. ASSUME NEW p \in Procs, Sleep(p) PROVE TimeInv'
    BY <2>10, TimeSleep
  <2>11. ASSUME NEW p \in Procs, Awake(p) PROVE TimeInv'
    <3>1. /\ timer' \in [Procs -> Int] /\ p \notin selwait /\ UNCHANGED selwait
          /\ \A q \in selwait : timer'[q] = timer[q]
      BY <2>0, <2>11 DEF Awake
    <3>2. pc[p] = "tsleep"
      BY <2>11 DEF Awake
    <3>3. CASE Done(p)
      BY <3>1, <3>3, TimeDone
    <3>4. CASE Awoken(p)
      BY <3>1, <3>2, <3>4, TimeDone, TimeRetry DEF Awoken
    <3>5. CASE AwakeStopped(p)
      <4>1. /\ pc' = [pc EXCEPT ![p] = "issig"] /\ UNCHANGED <<tv, atv, timo>>
        BY <3>5 DEF AwakeStopped, time
      <4>2. /\ pc' \in [Procs -> {"user", "hzto", "scan", "tsleep", "issig"}]
            /\ \A q \in Procs : pc'[q] # pc[q] => q = p
        BY <2>0, <4>1
      <4>. QED  BY <3>1, <3>2, <4>1, <4>2, TimeKept
    <3>. QED  BY <2>11, <3>3, <3>4, <3>5 DEF Awake
  <2>13. ASSUME NEW p \in Procs, Continued(p) PROVE TimeInv'
    BY <2>0, <2>13, TimeDone, TimeRetry DEF Continued, Awoken
  <2>14. ASSUME NEW p \in Procs, SleepStopped(p) PROVE TimeInv'
    BY <2>14, TimeSleepStopped
  <2>12. ASSUME NEW p \in Procs, Signal(p) \/ Stop(p) \/ Cont(p) PROVE TimeInv'
    BY <2>0, <2>12, TimeKept DEF Signal, Stop, Cont, time, locals
  <2>. QED  BY <2>1, <2>2, <2>3, <2>4, <2>5, <2>6, <2>7, <2>8, <2>9, <2>10, <2>11, <2>12,
               <2>13, <2>14 DEF Next, Process
<1>3. TimeInv => TimeoutEndsSleep
  <2> SUFFICES ASSUME TimeInv, NEW p \in selwait, tv[p] # None, pc[p] = "tsleep"
               PROVE  timer[p] > 0 /\ -atv[p] < tv[p]
    BY DEF TimeoutEndsSleep
  <2>1. /\ timer[p] >= 1 /\ timer[p] * TickUnits - atv[p] < tv[p]
        /\ timer[p] \in Int /\ atv[p] \in Int /\ tv[p] \in Int
    BY Units DEF TimeInv, TimeShape, TimeLeft, TimerRuns
  <2>2. timer[p] * TickUnits >= 1 /\ timer[p] * TickUnits \in Int
    BY <2>1, Units
  <2>. QED  BY <2>1, <2>2
<1>. QED  BY <1>1, <1>2, <1>3, PTL DEF Spec
=============================================================================
