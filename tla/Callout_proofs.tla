--------------------------- MODULE Callout_proofs ---------------------------
(***************************************************************************)
(* Callout.tla for every table size, every set of functions and every      *)
(* bound: the types, the order of the late calls, the conservation of the  *)
(* callout table, that a due call always has a softclock() coming, and     *)
(* that the delta list implements the abstract timers, fairness apart.     *)
(***************************************************************************)
EXTENDS Callout, SequenceTheorems, FunctionTheorems, FiniteSetTheorems,
        WellFoundedInduction, TLAPS

(* A function on 1..n with values in S is a sequence of length n. *)
LEMMA FunctionIsSeq ==
  ASSUME NEW S, NEW n \in Nat, NEW g \in [1..n -> S]
  PROVE  g \in Seq(S) /\ Len(g) = n
OBVIOUS

(* The entries of a callout list. *)
LEMMA Elements ==
  ASSUME NEW q \in Seq(Callouts)
  PROVE  /\ Len(q) \in Nat /\ DOMAIN q = 1..Len(q)
         /\ \A i \in 1..Len(q) : q[i] \in Callouts /\ q[i].c_time \in Int /\ q[i].fun \in Funs
<1>1. Len(q) \in Nat /\ DOMAIN q = 1..Len(q)
  BY LenProperties
<1>2. \A i \in 1..Len(q) : q[i] \in Callouts
  BY ElementOfSeq
<1> QED BY <1>1, <1>2 DEF Callouts

(* timeout()'s insertion: the length, and each entry of the result. *)
LEMMA InsertFacts ==
  ASSUME NEW q \in Seq(Callouts), NEW k \in 1..(Len(q) + 1),
         NEW f \in Funs, NEW t \in Int
  PROVE  /\ Insert(q, k, f, t) \in Seq(Callouts)
         /\ Len(Insert(q, k, f, t)) = Len(q) + 1
         /\ \A i \in 1..(Len(q) + 1) : Insert(q, k, f, t)[i].c_time =
              IF i < k THEN q[i].c_time ELSE IF i = k THEN t
              ELSE IF i = k + 1 THEN q[k].c_time - t ELSE q[i-1].c_time
<1> DEFINE g == Insert(q, k, f, t)
<1>1. /\ Len(q) \in Nat /\ DOMAIN q = 1..Len(q)
      /\ \A i \in 1..Len(q) : q[i] \in Callouts /\ q[i].c_time \in Int /\ q[i].fun \in Funs
  BY Elements
<1>2. ASSUME NEW i \in 1..(Len(q) + 1)
      PROVE  /\ g[i] \in Callouts
             /\ g[i].c_time =
                  IF i < k THEN q[i].c_time ELSE IF i = k THEN t
                  ELSE IF i = k + 1 THEN q[k].c_time - t ELSE q[i-1].c_time
  <2>1. CASE i < k
    BY <1>1, <2>1 DEF Insert
  <2>2. CASE i = k
    BY <2>2 DEF Insert, Callouts
  <2>3. CASE i = k + 1
    BY <1>1, <2>3 DEF Insert, Callouts
  <2>4. CASE i > k + 1
    BY <1>1, <2>4 DEF Insert
  <2> QED BY <2>1, <2>2, <2>3, <2>4
<1>3. g \in [1..(Len(q) + 1) -> Callouts]
  BY <1>1, <1>2 DEF Insert
<1> QED BY <1>1, <1>2, <1>3, FunctionIsSeq

(* untimeout()'s removal of entry k. *)
LEMMA DeleteFacts ==
  ASSUME NEW q \in Seq(Callouts), NEW k \in 1..Len(q)
  PROVE  /\ Delete(q, k) \in Seq(Callouts)
         /\ Len(Delete(q, k)) = Len(q) - 1
         /\ \A i \in 1..(Len(q) - 1) : Delete(q, k)[i].c_time =
              IF i < k THEN q[i].c_time
              ELSE IF i = k THEN q[i+1].c_time + Pos(q[k].c_time) ELSE q[i+1].c_time
<1> DEFINE g == Delete(q, k)
<1>1. /\ Len(q) \in Nat /\ DOMAIN q = 1..Len(q)
      /\ \A i \in 1..Len(q) : q[i] \in Callouts /\ q[i].c_time \in Int /\ q[i].fun \in Funs
  BY Elements
<1>2. ASSUME NEW i \in 1..(Len(q) - 1)
      PROVE  /\ g[i] \in Callouts
             /\ g[i].c_time =
                  IF i < k THEN q[i].c_time
                  ELSE IF i = k THEN q[i+1].c_time + Pos(q[k].c_time) ELSE q[i+1].c_time
  <2>1. CASE i < k
    BY <1>1, <2>1 DEF Delete
  <2>2. CASE i = k
    BY <1>1, <2>2 DEF Delete, Callouts, Pos
  <2>3. CASE i > k
    BY <1>1, <2>3 DEF Delete
  <2> QED BY <2>1, <2>2, <2>3
<1>3. g \in [1..(Len(q) - 1) -> Callouts]
  BY <1>1, <1>2 DEF Delete
<1>4. Len(q) - 1 \in Nat
  BY <1>1
<1>5. g \in Seq(Callouts) /\ Len(g) = Len(q) - 1
  BY <1>3, <1>4, FunctionIsSeq
<1> QED BY <1>2, <1>5

(* hardclock()'s pass over the list. *)
LEMMA AdvanceFacts ==
  ASSUME NEW q \in Seq(Callouts)
  PROVE  /\ Advance(q) \in Seq(Callouts)
         /\ Len(Advance(q)) = Len(q)
         /\ \A i \in 1..Len(q) : Advance(q)[i].c_time =
              IF \A j \in 1..(i-1) : q[j].c_time < 1
              THEN q[i].c_time - 1 ELSE q[i].c_time
<1> DEFINE g == Advance(q)
<1>1. /\ Len(q) \in Nat /\ DOMAIN q = 1..Len(q)
      /\ \A i \in 1..Len(q) : q[i] \in Callouts /\ q[i].c_time \in Int /\ q[i].fun \in Funs
  BY Elements
<1>2. ASSUME NEW i \in 1..Len(q)
      PROVE  /\ g[i] \in Callouts
             /\ g[i].c_time = IF \A j \in 1..(i-1) : q[j].c_time < 1
                              THEN q[i].c_time - 1 ELSE q[i].c_time
  <2>1. CASE \A j \in 1..(i-1) : q[j].c_time - 1 < 0
    BY <1>1, <2>1 DEF Advance, Callouts
  <2>2. CASE ~(\A j \in 1..(i-1) : q[j].c_time - 1 < 0)
    BY <1>1, <2>2 DEF Advance
  <2> QED BY <2>1, <2>2
<1>3. g \in [1..Len(q) -> Callouts]
  BY <1>1, <1>2 DEF Advance
<1> QED BY <1>1, <1>2, <1>3, FunctionIsSeq

-----------------------------------------------------------------------------
(* The inductive invariant.  A late call stands behind no call that is     *)
(* less late; the table is conserved; a due call has a softclock() coming. *)
(* LateFirst is what untimeout() needs to keep DueIsServed: were a late    *)
(* call hidden behind one that is not due, removing that one would make    *)
(* the list due with no software interrupt requested.                      *)
IInv == TypeOK /\ LateFirst /\ TableConserved /\ DueIsServed

(* The invariant holds in every reachable state: Init establishes it, and  *)
(* timeout, untimeout, hardclock and each turn of softclock preserve it.   *)
THEOREM Inductive == Spec => []IInv
<1>1. Init => IInv
  <2> SUFFICES ASSUME Init PROVE IInv
    OBVIOUS
  <2>1. calltodo \in Seq(Callouts) /\ Len(calltodo) = 0
    BY EmptySeq DEF Init
  <2>2. TypeOK
    BY <2>1, CalloutAssumption DEF Init, TypeOK
  <2>3. LateFirst /\ TableConserved /\ DueIsServed
    BY <2>1, CalloutAssumption DEF Init, LateFirst, TableConserved, DueIsServed
  <2> QED BY <2>2, <2>3 DEF IInv
<1>2. IInv /\ [Next]_vars => IInv'
  <2> SUFFICES ASSUME IInv, [Next]_vars PROVE IInv'
    OBVIOUS
  <2>0. /\ TypeOK /\ LateFirst /\ TableConserved /\ DueIsServed
        /\ calltodo \in Seq(Callouts) /\ Len(calltodo) \in Nat
        /\ DOMAIN calltodo = 1..Len(calltodo)
        /\ \A i \in 1..Len(calltodo) : calltodo[i].c_time \in Int /\ calltodo[i].fun \in Funs
    BY Elements DEF IInv, TypeOK
  <2>1. ASSUME NEW f \in Funs, NEW t \in -1..MaxDelay, Timeout(f, t) PROVE IInv'
    <3>1. CASE callfree = 0
      <4>1. UNCHANGED <<calltodo, callfree, softpend, soft, firing>> /\ panicked' = TRUE
        BY <2>1, <3>1 DEF Timeout
      <4> QED BY <2>0, <4>1 DEF IInv, TypeOK, LateFirst, TableConserved, DueIsServed
    <3>2. CASE callfree # 0
      <4>1. PICK k \in 1..(Len(calltodo) + 1) : \E left \in [1..k -> 1..MaxDelay] :
              /\ SearchStopsAt(calltodo, IF t <= 0 THEN 1 ELSE t, k, left)
              /\ calltodo' = Insert(calltodo, k, f, left[k])
        BY <2>1, <3>2 DEF Timeout, Enqueue
      <4>2. PICK left \in [1..k -> 1..MaxDelay] :
              /\ SearchStopsAt(calltodo, IF t <= 0 THEN 1 ELSE t, k, left)
              /\ calltodo' = Insert(calltodo, k, f, left[k])
        BY <4>1
      <4>3. left[k] \in Int /\ left[k] >= 1
        BY CalloutAssumption
      <4>4. k <= Len(calltodo) => calltodo[k].c_time >= left[k]
        BY <4>2 DEF SearchStopsAt
      <4>5. /\ calltodo' \in Seq(Callouts) /\ Len(calltodo') = Len(calltodo) + 1
            /\ \A i \in 1..(Len(calltodo) + 1) : calltodo'[i].c_time =
                 IF i < k THEN calltodo[i].c_time ELSE IF i = k THEN left[k]
                 ELSE IF i = k + 1 THEN calltodo[k].c_time - left[k]
                 ELSE calltodo[i-1].c_time
        <5> DEFINE q == calltodo
        <5> DEFINE l == left[k]
        <5> HIDE DEF q, l
        <5>1. q \in Seq(Callouts) /\ l \in Int /\ k \in 1..(Len(q) + 1)
          BY <2>0, <4>3 DEF q, l
        <5>2. /\ Insert(q, k, f, l) \in Seq(Callouts)
              /\ Len(Insert(q, k, f, l)) = Len(q) + 1
              /\ \A i \in 1..(Len(q) + 1) : Insert(q, k, f, l)[i].c_time =
                   IF i < k THEN q[i].c_time ELSE IF i = k THEN l
                   ELSE IF i = k + 1 THEN q[k].c_time - l ELSE q[i-1].c_time
          BY <5>1, InsertFacts
        <5>3. calltodo' = Insert(q, k, f, l)
          BY <4>2 DEF q, l
        <5> QED BY <5>2, <5>3 DEF q, l
      <4>6. callfree' = callfree - 1 /\ UNCHANGED <<panicked, softpend, soft, firing>>
        BY <2>1, <3>2 DEF Timeout, Enqueue
      <4>7. TypeOK'
        BY <2>0, <3>2, <4>5, <4>6 DEF TypeOK
      <4>8. TableConserved'
        <5>1. callfree \in Nat /\ Len(calltodo) + callfree = NCALLOUT
          BY <2>0 DEF TableConserved, TypeOK
        <5>2. Len(calltodo') = Len(calltodo) + 1
          BY <4>5
        <5> QED BY <2>0, <4>6, <5>1, <5>2 DEF TableConserved
      <4>9. ASSUME NEW i \in 1..(Len(calltodo) + 1), NEW j \in 1..(Len(calltodo) + 1),
                   i < j, calltodo'[j].c_time < 0
            PROVE  calltodo'[i].c_time <= calltodo'[j].c_time
        <5>1. j < k
          <6>1. j # k
            BY <4>3, <4>5, <4>9
          <6>2. ASSUME j = k + 1 PROVE FALSE
            <7>1. k \in 1..Len(calltodo) /\ calltodo[k].c_time \in Int
              BY <2>0, <6>2
            <7>2. calltodo'[j].c_time = calltodo[k].c_time - left[k]
              BY <2>0, <4>5, <6>2, <7>1
            <7> QED BY <4>3, <4>4, <4>9, <7>1, <7>2
          <6>3. ASSUME j > k + 1 PROVE FALSE
            <7>1. j - 1 \in 1..Len(calltodo) /\ k \in 1..Len(calltodo) /\ k < j - 1
              BY <2>0, <6>3
            <7>2. calltodo[j-1].c_time < 0
              BY <2>0, <4>5, <4>9, <6>3
            <7>3. calltodo[k].c_time <= calltodo[j-1].c_time
              BY <2>0, <7>1, <7>2 DEF LateFirst
            <7> QED BY <2>0, <4>3, <4>4, <7>1, <7>2, <7>3
          <6> QED BY <6>1, <6>2, <6>3
        <5>2. i \in 1..Len(calltodo) /\ j \in 1..Len(calltodo)
          BY <2>0, <4>9, <5>1
        <5>3. calltodo[j].c_time < 0 /\ calltodo'[i].c_time = calltodo[i].c_time
              /\ calltodo'[j].c_time = calltodo[j].c_time
          BY <4>5, <4>9, <5>1
        <5> QED BY <2>0, <4>9, <5>2, <5>3 DEF LateFirst
      <4>10. LateFirst'
        BY <4>5, <4>9, <2>0 DEF LateFirst
      <4>11. DueIsServed'
        <5>1. CASE k = 1
          BY <2>0, <4>3, <4>5, <5>1 DEF DueIsServed
        <5>2. CASE k > 1
          <6>1. Len(calltodo) > 0 /\ calltodo'[1].c_time = calltodo[1].c_time
            BY <2>0, <4>5, <5>2
          <6> QED BY <2>0, <4>6, <6>1 DEF DueIsServed
        <5> QED BY <5>1, <5>2
      <4> QED BY <4>7, <4>8, <4>10, <4>11 DEF IInv
    <3> QED BY <3>1, <3>2
  <2>2. ASSUME NEW f \in Funs, Untimeout(f) PROVE IInv'
    <3>1. PICK k \in 1..Len(calltodo) : calltodo' = Delete(calltodo, k)
      BY <2>0, <2>2 DEF Untimeout
    <3>2. callfree' = callfree + 1 /\ UNCHANGED <<panicked, softpend, soft, firing>>
      BY <2>2 DEF Untimeout
    <3>3. /\ calltodo' \in Seq(Callouts) /\ Len(calltodo') = Len(calltodo) - 1
          /\ \A i \in 1..(Len(calltodo) - 1) : calltodo'[i].c_time =
               IF i < k THEN calltodo[i].c_time
               ELSE IF i = k THEN calltodo[i+1].c_time + Pos(calltodo[k].c_time)
               ELSE calltodo[i+1].c_time
      BY <2>0, <3>1, DeleteFacts
    <3>4. TypeOK' /\ TableConserved'
      BY <2>0, <3>2, <3>3 DEF TypeOK, TableConserved
    <3>9. /\ Len(calltodo') \in Nat /\ DOMAIN calltodo' = 1..(Len(calltodo) - 1)
          /\ \A i \in 1..(Len(calltodo) - 1) : calltodo'[i].c_time \in Int
      <4> DEFINE q == calltodo'
      <4> HIDE DEF q
      <4>1. q \in Seq(Callouts) /\ Len(q) = Len(calltodo) - 1
        BY <3>3 DEF q
      <4>2. /\ Len(q) \in Nat /\ DOMAIN q = 1..Len(q)
            /\ \A i \in 1..Len(q) : q[i].c_time \in Int
        BY <4>1, Elements
      <4> QED BY <4>1, <4>2 DEF q
    <3>5. ASSUME NEW i \in 1..(Len(calltodo) - 1), NEW j \in 1..(Len(calltodo) - 1),
                 i < j, calltodo'[j].c_time < 0
          PROVE  calltodo'[i].c_time <= calltodo'[j].c_time
      <4> DEFINE old(n) == IF n < k THEN n ELSE n + 1
      <4>1. old(i) \in 1..Len(calltodo) /\ old(j) \in 1..Len(calltodo) /\ old(i) < old(j)
        BY <2>0, <3>5
      <4>2. calltodo'[j].c_time >= calltodo[old(j)].c_time
        <5>1. CASE j # k
          <6>1. calltodo'[j].c_time = calltodo[old(j)].c_time
            BY <3>3, <5>1
          <6> QED BY <2>0, <4>1, <6>1
        <5>2. CASE j = k
          <6>1. calltodo'[j].c_time = calltodo[old(j)].c_time + Pos(calltodo[k].c_time)
            BY <3>3, <5>2
          <6> QED BY <2>0, <4>1, <6>1 DEF Pos
        <5> QED BY <5>1, <5>2
      <4>3. calltodo[old(j)].c_time < 0
        BY <2>0, <3>5, <3>9, <4>1, <4>2
      <4>4. calltodo[old(i)].c_time <= calltodo[old(j)].c_time
        BY <2>0, <4>1, <4>3 DEF LateFirst
      <4>5. calltodo'[i].c_time = calltodo[old(i)].c_time
        <5>1. CASE i # k
          BY <3>3, <5>1
        <5>2. CASE i = k
          <6>1. k < old(j) /\ calltodo[k].c_time <= calltodo[old(j)].c_time
            BY <2>0, <4>1, <4>3, <5>2 DEF LateFirst
          <6>2. /\ calltodo[k].c_time \in Int /\ calltodo[old(i)].c_time \in Int
                /\ calltodo[old(j)].c_time \in Int
            BY <2>0, <4>1
          <6>3. calltodo'[i].c_time = calltodo[old(i)].c_time + Pos(calltodo[k].c_time)
            BY <3>3, <5>2
          <6> HIDE DEF old
          <6>4. Pos(calltodo[k].c_time) = 0
            BY <4>3, <6>1, <6>2 DEF Pos
          <6> QED BY <6>2, <6>3, <6>4
        <5> QED BY <5>1, <5>2
      <4>6. /\ calltodo[old(i)].c_time \in Int /\ calltodo[old(j)].c_time \in Int
            /\ calltodo'[j].c_time \in Int
        BY <2>0, <3>9, <4>1
      <4> HIDE DEF old
      <4> QED BY <4>2, <4>4, <4>5, <4>6
    <3>6. LateFirst'
      BY <3>5, <3>9 DEF LateFirst
    <3>7. DueIsServed'
      <4>1. SUFFICES ASSUME Len(calltodo') > 0, calltodo'[1].c_time <= 0
                     PROVE  calltodo[1].c_time <= 0
        BY <2>0, <3>2, <3>3 DEF DueIsServed
      <4>2. CASE k > 1
        BY <2>0, <3>3, <4>1, <4>2
      <4>3. CASE k = 1
        <5>1. calltodo[2].c_time + Pos(calltodo[1].c_time) <= 0
          BY <2>0, <3>3, <4>1, <4>3
        <5>2. CASE calltodo[1].c_time > 0
          <6>1. calltodo[2].c_time < 0
            BY <2>0, <3>3, <4>1, <4>3, <5>1, <5>2 DEF Pos
          <6>2. calltodo[1].c_time <= calltodo[2].c_time
            <7>1. 1 \in DOMAIN calltodo /\ 2 \in DOMAIN calltodo
              BY <2>0, <3>3, <4>1
            <7> QED BY <2>0, <6>1, <7>1 DEF LateFirst
          <6> QED BY <2>0, <3>3, <4>1, <4>3, <5>2, <6>1, <6>2
        <5> QED BY <2>0, <5>2
      <4> QED BY <4>2, <4>3
    <3> QED BY <3>4, <3>6, <3>7 DEF IInv
  <2>3. ASSUME Hardclock PROVE IInv'
    <3>1. calltodo' = Advance(calltodo) /\ UNCHANGED <<callfree, firing, panicked>>
      BY <2>3 DEF Hardclock
    <3>2. /\ calltodo' \in Seq(Callouts) /\ Len(calltodo') = Len(calltodo)
          /\ \A i \in 1..Len(calltodo) : calltodo'[i].c_time =
               IF \A j \in 1..(i-1) : calltodo[j].c_time < 1
               THEN calltodo[i].c_time - 1 ELSE calltodo[i].c_time
      BY <2>0, <3>1, AdvanceFacts
    <3>3. softpend' \in BOOLEAN /\ soft' \in {"idle", "loop", "call"}
      BY <2>0, <2>3 DEF Hardclock, TypeOK
    <3>4. TypeOK' /\ TableConserved'
      BY <2>0, <3>1, <3>2, <3>3 DEF TypeOK, TableConserved
    <3>5. ASSUME NEW i \in 1..Len(calltodo), NEW j \in 1..Len(calltodo),
                 i < j, calltodo'[j].c_time < 0
          PROVE  calltodo'[i].c_time <= calltodo'[j].c_time
      <4>1. CASE \A m \in 1..(j-1) : calltodo[m].c_time < 1
        <5>1. /\ calltodo'[j].c_time = calltodo[j].c_time - 1
              /\ calltodo'[i].c_time = calltodo[i].c_time - 1
              /\ calltodo[i].c_time < 1
          BY <2>0, <3>2, <3>5, <4>1
        <5>2. calltodo[i].c_time \in Int /\ calltodo[j].c_time \in Int
          BY <2>0
        <5>3. CASE calltodo[j].c_time < 0
          <6>1. calltodo[i].c_time <= calltodo[j].c_time
            BY <2>0, <3>5, <5>3 DEF LateFirst
          <6>. QED  BY <5>1, <5>2, <6>1
        <5>4. CASE calltodo[j].c_time >= 0
          BY <5>1, <5>2, <5>4
        <5> QED BY <5>2, <5>3, <5>4
      <4>2. CASE \E m \in 1..(j-1) : calltodo[m].c_time >= 1
        <5>1. PICK m \in 1..(j-1) : calltodo[m].c_time >= 1
          BY <4>2
        <5>2. calltodo'[j].c_time = calltodo[j].c_time
          BY <2>0, <3>2, <5>1
        <5>3. calltodo[m].c_time <= calltodo[j].c_time
          BY <2>0, <3>5, <5>1, <5>2 DEF LateFirst
        <5> QED BY <2>0, <3>5, <5>1, <5>2, <5>3
      <4> QED BY <2>0, <4>1, <4>2
    <3>6. LateFirst'
      BY <2>0, <3>2, <3>5 DEF LateFirst
    <3>7. DueIsServed'
      <4>1. CASE Len(calltodo) > 0 /\ calltodo'[1].c_time <= 0
        BY <2>3, <4>1 DEF Hardclock, DueIsServed
      <4>2. CASE ~(Len(calltodo) > 0 /\ calltodo'[1].c_time <= 0)
        BY <3>2, <4>2 DEF DueIsServed
      <4> QED BY <4>1, <4>2
    <3> QED BY <3>4, <3>6, <3>7 DEF IInv
  <2>4. ASSUME SoftclockStart PROVE IInv'
    BY <2>0, <2>4 DEF SoftclockStart, IInv, TypeOK, LateFirst, TableConserved, DueIsServed
  <2>5. ASSUME SoftclockLoop PROVE IInv'
    <3>1. CASE Len(calltodo) = 0 \/ calltodo[1].c_time > 0
      <4>1. soft' = "idle" /\ UNCHANGED <<calltodo, callfree, firing, softpend, panicked>>
        BY <2>5, <3>1 DEF SoftclockLoop
      <4> QED BY <2>0, <3>1, <4>1 DEF IInv, TypeOK, LateFirst, TableConserved, DueIsServed
    <3>2. CASE ~(Len(calltodo) = 0 \/ calltodo[1].c_time > 0)
      <4>1. /\ firing' = calltodo[1].fun /\ calltodo' = Tail(calltodo)
            /\ callfree' = callfree + 1 /\ soft' = "call"
            /\ UNCHANGED <<softpend, panicked>>
        BY <2>5, <3>2 DEF SoftclockLoop
      <4>2. calltodo # <<>>
        BY <2>0, <3>2, EmptySeq
      <4>3. /\ calltodo' \in Seq(Callouts) /\ Len(calltodo') = Len(calltodo) - 1
            /\ \A i \in 1..Len(calltodo') : calltodo'[i] = calltodo[i+1]
        BY <2>0, <4>1, <4>2, HeadTailProperties
      <4>4. TypeOK' /\ TableConserved' /\ DueIsServed'
        BY <2>0, <3>2, <4>1, <4>3 DEF TypeOK, TableConserved, DueIsServed
      <4>5. LateFirst'
        <5>1. DOMAIN calltodo' = 1..(Len(calltodo) - 1)
          <6> DEFINE q == calltodo'
          <6> HIDE DEF q
          <6>1. q \in Seq(Callouts) /\ Len(q) = Len(calltodo) - 1
            BY <4>3 DEF q
          <6>2. DOMAIN q = 1..Len(q)
            BY <6>1, Elements
          <6> QED BY <6>1, <6>2 DEF q
        <5>2. ASSUME NEW i \in DOMAIN calltodo', NEW j \in DOMAIN calltodo',
                     i < j, calltodo'[j].c_time < 0
              PROVE  calltodo'[i].c_time <= calltodo'[j].c_time
          <6>1. /\ i + 1 \in DOMAIN calltodo /\ j + 1 \in DOMAIN calltodo /\ i + 1 < j + 1
                /\ calltodo'[i] = calltodo[i+1] /\ calltodo'[j] = calltodo[j+1]
            BY <2>0, <4>3, <5>1, <5>2
          <6> QED BY <2>0, <5>2, <6>1 DEF LateFirst
        <5> QED BY <5>2 DEF LateFirst
      <4> QED BY <4>4, <4>5 DEF IInv
    <3> QED BY <3>1, <3>2
  <2>6. ASSUME CallReturn PROVE IInv'
    BY <2>0, <2>6 DEF CallReturn, IInv, TypeOK, LateFirst, TableConserved, DueIsServed
  <2>7. CASE UNCHANGED vars
    BY <2>0, <2>7 DEF vars, IInv, TypeOK, LateFirst, TableConserved, DueIsServed
  <2> QED BY <2>1, <2>2, <2>3, <2>4, <2>5, <2>6, <2>7 DEF Next
<1> QED BY <1>1, <1>2, PTL DEF Spec

(* calltodo stays a list of callouts, whatever timeout, untimeout,         *)
(* hardclock and softclock do to it.                                       *)
THEOREM TypeCorrect == Spec => []TypeOK
<1>1. IInv => TypeOK
  BY DEF IInv
<1> QED BY <1>1, Inductive, PTL

(* hardclock()'s comment on the front of the queue, for any table size:    *)
(* no step leaves a late call behind one that is less late or not due.     *)
THEOREM LateCallsFirst == Spec => []LateFirst
<1>1. IInv => LateFirst
  BY DEF IInv
<1> QED BY <1>1, Inductive, PTL

(* No interleaving of clock ticks, timeout, untimeout and softclock leaves *)
(* a due call without a softclock() requested or still looking.            *)
THEOREM DueCallsAreServed == Spec => []DueIsServed
<1>1. IInv => DueIsServed
  BY DEF IInv
<1> QED BY <1>1, Inductive, PTL

(* The exchanges between calltodo and callfree lose and invent no entry.   *)
THEOREM TableIsConserved == Spec => []TableConserved
<1>1. IInv => TableConserved
  BY DEF IInv
<1> QED BY <1>1, Inductive, PTL

-----------------------------------------------------------------------------
(* The refinement.  First what PosSum adds up, then how the bag of calls   *)
(* changes with the list, then each step.                                  *)

(* Induction up to n, for a set of numbers: the prover can instantiate it, *)
(* unlike an induction rule for a predicate.                               *)
LEMMA UpTo ==
  ASSUME NEW n \in Nat, NEW S, 0 \in S,
         \A i \in 0..(n-1) : i \in S => i + 1 \in S
  PROVE  \A i \in 0..n : i \in S
<1> DEFINE R == {ss \in Nat \X Nat : ss[1] < ss[2]}
           T == 0..n \ S
<1>1. IsWellFoundedOn(R, Nat)
  BY NatLessThanWellFounded, Zenon DEF OpToRel
<1>2. ASSUME T # {} PROVE FALSE
  <2>1. T \subseteq Nat
    OBVIOUS
  <2>2. PICK x \in T : \A y \in T : ~(<<y, x>> \in R)
    <3> HIDE DEF R, T
    <3> QED BY <1>1, <1>2, <2>1, WFMin, Zenon
  <2>3. \A u, v \in Nat : v < u => <<v, u>> \in R
    OBVIOUS
  <2>4. \A y \in T : ~(y < x)
    BY <2>1, <2>2, <2>3, Zenon
  <2>5. x - 1 \in 0..(n-1) /\ x - 1 \notin T
    BY <2>2, <2>4
  <2> QED BY <2>2, <2>5
<1> QED BY <1>2

(* What PosSum computes. *)
Sums(s, q, n) == s = [i \in 0..n |-> IF i = 0 THEN 0 ELSE s[i-1] + Pos(q[i].c_time)]

LEMMA SumsExist ==
  ASSUME NEW q \in Seq(Callouts), NEW n \in Nat
  PROVE  \E s : Sums(s, q, n)
<1> DEFINE S == {m \in Nat : \E s : Sums(s, q, m)}
<1>1. 0 \in S
  <2>1. Sums([i \in 0..0 |-> 0], q, 0)
    BY DEF Sums
  <2> QED BY <2>1
<1>2. ASSUME NEW m \in Nat, m \in S PROVE m + 1 \in S
  <2>1. PICK s : Sums(s, q, m)
    BY <1>2
  <2> DEFINE g == [i \in 0..(m+1) |-> IF i <= m THEN s[i] ELSE s[m] + Pos(q[m+1].c_time)]
  <2>2. Sums(g, q, m + 1)
    BY <2>1 DEF Sums
  <2> QED BY <2>2
<1> HIDE DEF S
<1>3. \A i \in 0..n : i \in S
  BY <1>1, <1>2, UpTo
<1> QED BY <1>3 DEF S

LEMMA PosSumFacts ==
  ASSUME NEW q \in Seq(Callouts)
  PROVE  /\ PosSum(q)[0] = 0
         /\ \A i \in 1..Len(q) : PosSum(q)[i] = PosSum(q)[i-1] + Pos(q[i].c_time)
         /\ \A i \in 0..Len(q) : PosSum(q)[i] \in Nat
<1>0. /\ Len(q) \in Nat
      /\ \A i \in 1..Len(q) : q[i].c_time \in Int
  BY Elements
<1> DEFINE F == CHOOSE s : s = [n \in 0..Len(q) |-> IF n = 0 THEN 0 ELSE s[n-1] + Pos(q[n].c_time)]
<1>1. PosSum(q) = F
  BY DEF PosSum
<1>2. \E s : s = [n \in 0..Len(q) |-> IF n = 0 THEN 0 ELSE s[n-1] + Pos(q[n].c_time)]
  <2>1. PICK s : Sums(s, q, Len(q))
    BY <1>0, SumsExist
  <2>2. s = [n \in 0..Len(q) |-> IF n = 0 THEN 0 ELSE s[n-1] + Pos(q[n].c_time)]
    BY ONLY <2>1, Zenon DEF Sums
  <2> QED BY ONLY <2>2, Zenon
<1>3. F = [n \in 0..Len(q) |-> IF n = 0 THEN 0 ELSE F[n-1] + Pos(q[n].c_time)]
  BY ONLY <1>2, Zenon
<1> HIDE DEF F
<1>4. /\ F[0] = 0
      /\ \A i \in 1..Len(q) : F[i] = F[i-1] + Pos(q[i].c_time)
  BY <1>0, <1>3
<1> DEFINE S == {i \in Nat : F[i] \in Nat}
<1>5. 0 \in S
  BY <1>4
<1>6. ASSUME NEW i \in 0..(Len(q)-1), i \in S PROVE i + 1 \in S
  <2>1. i + 1 \in 1..Len(q) /\ i + 1 - 1 = i
    BY <1>0
  <2>2. F[i+1] = F[i] + Pos(q[i+1].c_time)
    BY <1>4, <2>1
  <2> QED BY <1>0, <1>6, <2>1, <2>2 DEF Pos
<1> HIDE DEF S
<1>7. \A i \in 0..Len(q) : i \in S
  BY <1>0, <1>5, <1>6, UpTo
<1> QED BY <1>1, <1>4, <1>7 DEF S

(* Adding up what is not negative. *)
LEMMA PosSumGrows ==
  ASSUME NEW q \in Seq(Callouts), NEW i \in 0..Len(q), NEW j \in i..Len(q)
  PROVE  PosSum(q)[i] <= PosSum(q)[j]
<1>0. /\ Len(q) \in Nat
      /\ \A n \in 1..Len(q) : q[n].c_time \in Int
  BY Elements
<1> DEFINE S == {d \in Nat : i + d <= Len(q) => PosSum(q)[i] <= PosSum(q)[i+d]}
<1>1. 0 \in S
  BY PosSumFacts
<1>2. ASSUME NEW d \in 0..((j-i)-1), d \in S PROVE d + 1 \in S
  <2>1. i + d \in 0..Len(q) /\ i + d + 1 \in 1..Len(q) /\ (i + d + 1) - 1 = i + d
    BY <1>0
  <2>2. PosSum(q)[i+d+1] = PosSum(q)[i+d] + Pos(q[i+d+1].c_time)
    BY <2>1, PosSumFacts
  <2>3. Pos(q[i+d+1].c_time) \in Nat
    BY <1>0, <2>1 DEF Pos
  <2> QED BY <1>2, <2>1, <2>2, <2>3, PosSumFacts
<1>3. j - i \in Nat
  BY <1>0
<1>4. j - i \in S
  <2> HIDE DEF S
  <2> QED BY <1>1, <1>2, <1>3, UpTo
<1> QED BY <1>0, <1>4

Sorted(q) == \A i, j \in DOMAIN q : i < j /\ q[j].c_time < 0 => q[i].c_time <= q[j].c_time

(* The calls are due in the order of the list. *)
LEMMA InDueOrder ==
  ASSUME NEW q \in Seq(Callouts), Sorted(q), NEW i \in 1..Len(q), NEW j \in i..Len(q)
  PROVE  Remaining(q, i) <= Remaining(q, j) /\ Remaining(q, i) \in Int
<1>0. /\ Len(q) \in Nat /\ DOMAIN q = 1..Len(q)
      /\ \A n \in 1..Len(q) : q[n].c_time \in Int
  BY Elements
<1>1. /\ PosSum(q)[i] = PosSum(q)[i-1] + Pos(q[i].c_time)
      /\ PosSum(q)[j] = PosSum(q)[j-1] + Pos(q[j].c_time)
      /\ PosSum(q)[i] \in Nat /\ PosSum(q)[i-1] \in Nat
      /\ PosSum(q)[j] \in Nat /\ PosSum(q)[j-1] \in Nat
  <2>1. ASSUME NEW n \in 1..Len(q)
        PROVE  /\ PosSum(q)[n] = PosSum(q)[n-1] + Pos(q[n].c_time)
               /\ PosSum(q)[n] \in Nat /\ PosSum(q)[n-1] \in Nat
    <3>1. n \in 0..Len(q) /\ n - 1 \in 0..Len(q)
      BY <1>0
    <3> QED BY <3>1, PosSumFacts
  <2>2. j \in 1..Len(q)
    BY <1>0
  <2> QED BY <2>1, <2>2
<1>2. PosSum(q)[i] <= PosSum(q)[j]
  BY PosSumGrows
<1>3. i < j /\ q[j].c_time < 0 => q[i].c_time <= q[j].c_time
  BY <1>0 DEF Sorted
<1> QED BY <1>0, <1>1, <1>2, <1>3 DEF Remaining, Pos

(* n entries of q from d on and of r from m on have the same positive      *)
(* times; what comes before adds up to c more in r.                        *)
Aligned(q, d, r, m, n, c) ==
  /\ d + n <= Len(q) /\ m + n <= Len(r)
  /\ PosSum(r)[m] = PosSum(q)[d] + c
  /\ \A i \in 1..n : Pos(r[m+i].c_time) = Pos(q[d+i].c_time)

Parallel(q, d, r, m, n, c) == \A i \in 0..n : PosSum(r)[m+i] = PosSum(q)[d+i] + c

LEMMA SameSums ==
  ASSUME NEW q \in Seq(Callouts), NEW d \in Nat, NEW r \in Seq(Callouts), NEW m \in Nat,
         NEW n \in Nat, NEW c \in Int, Aligned(q, d, r, m, n, c)
  PROVE  Parallel(q, d, r, m, n, c)
<1>0. /\ Len(q) \in Nat /\ Len(r) \in Nat
      /\ \A i \in 1..Len(q) : q[i].c_time \in Int
      /\ \A i \in 1..Len(r) : r[i].c_time \in Int
  BY Elements
<1> DEFINE S == {i \in Nat : PosSum(r)[m+i] = PosSum(q)[d+i] + c}
<1>1. 0 \in S
  BY DEF Aligned
<1>2. ASSUME NEW i \in 0..(n-1), i \in S PROVE i + 1 \in S
  <2>1. /\ m + (i + 1) \in 1..Len(r) /\ d + (i + 1) \in 1..Len(q)
        /\ (m + (i + 1)) - 1 = m + i /\ (d + (i + 1)) - 1 = d + i
        /\ m + i \in 0..Len(r) /\ d + i \in 0..Len(q)
        /\ Pos(r[m+(i+1)].c_time) = Pos(q[d+(i+1)].c_time)
    <3>1. i + 1 \in 1..n
      OBVIOUS
    <3>2. /\ m + (i + 1) <= Len(r) /\ d + (i + 1) <= Len(q)
          /\ Pos(r[m+(i+1)].c_time) = Pos(q[d+(i+1)].c_time)
      <4>1. d + n <= Len(q) /\ m + n <= Len(r)
        BY DEF Aligned
      <4>2. m + (i + 1) <= Len(r) /\ d + (i + 1) <= Len(q)
        BY <1>0, <3>1, <4>1
      <4>3. \A j \in 1..n : Pos(r[m+j].c_time) = Pos(q[d+j].c_time)
        BY DEF Aligned
      <4> HIDE DEF S
      <4>4. Pos(r[m+(i+1)].c_time) = Pos(q[d+(i+1)].c_time)
        BY <3>1, <4>3, Zenon
      <4> QED BY <4>2, <4>4
    <3>3. /\ m + (i + 1) \in 1..Len(r) /\ d + (i + 1) \in 1..Len(q)
          /\ (m + (i + 1)) - 1 = m + i /\ (d + (i + 1)) - 1 = d + i
          /\ m + i \in 0..Len(r) /\ d + i \in 0..Len(q)
      <4>1. i \in Nat
        OBVIOUS
      <4> HIDE DEF S
      <4> QED BY <1>0, <3>2, <4>1
    <3> QED BY <3>2, <3>3
  <2>2. /\ PosSum(r)[m+(i+1)] = PosSum(r)[m+i] + Pos(r[m+(i+1)].c_time)
        /\ PosSum(q)[d+(i+1)] = PosSum(q)[d+i] + Pos(q[d+(i+1)].c_time)
        /\ PosSum(r)[m+i] \in Nat /\ PosSum(q)[d+i] \in Nat
    BY <2>1, PosSumFacts
  <2>3. Pos(q[d+(i+1)].c_time) \in Nat
    <3>1. q[d+(i+1)].c_time \in Int
      BY <1>0, <2>1
    <3> QED BY ONLY <3>1 DEF Pos
  <2> QED BY <1>2, <2>1, <2>2, <2>3
<1> HIDE DEF S
<1>3. \A i \in 0..n : i \in S
  BY <1>1, <1>2, UpTo
<1> QED BY <1>3 DEF S, Parallel

-----------------------------------------------------------------------------
(* Where in q the call e is. *)
Places(q, e) == {i \in 1..Len(q) : Call(q, i) = e}

LEMMA PlacesFinite ==
  ASSUME NEW q \in Seq(Callouts), NEW e
  PROVE  /\ IsFiniteSet(Places(q, e)) /\ Cardinality(Places(q, e)) \in Nat
         /\ Cardinality(Places(q, e)) > 0 <=> \E i \in 1..Len(q) : Call(q, i) = e
<1>1. Len(q) \in Nat
  BY Elements
<1>2. IsFiniteSet(1..Len(q))
  BY <1>1, FS_Interval
<1>3. IsFiniteSet(Places(q, e))
  BY <1>2, FS_Subset DEF Places
<1>4. Cardinality(Places(q, e)) \in Nat
  BY <1>3, FS_CardinalityType
<1>5. Cardinality(Places(q, e)) = 0 <=> Places(q, e) = {}
  BY <1>3, FS_EmptySet
<1>6. Places(q, e) # {} <=> \E i \in 1..Len(q) : Call(q, i) = e
  BY DEF Places
<1> QED BY <1>3, <1>4, <1>5, <1>6

(* The bag, by the places of its calls. *)
LEMMA CallsFacts ==
  ASSUME NEW q \in Seq(Callouts)
  PROVE  /\ DOMAIN Calls(q) = {Call(q, i) : i \in 1..Len(q)}
         /\ \A e \in DOMAIN Calls(q) : Calls(q)[e] = Cardinality(Places(q, e))
         /\ Calls(q) = [e \in DOMAIN Calls(q) |-> Calls(q)[e]]
<1>1. DOMAIN q = 1..Len(q)
  BY Elements
<1> QED BY <1>1 DEF Calls, Places

(* g is q with one call more, at k. *)
LEMMA PlacesInsert ==
  ASSUME NEW q \in Seq(Callouts), NEW g \in Seq(Callouts), NEW k \in 1..(Len(q) + 1),
         Len(g) = Len(q) + 1,
         \A i \in 1..(k-1) : Call(g, i) = Call(q, i),
         \A i \in k..Len(q) : Call(g, i + 1) = Call(q, i),
         NEW e
  PROVE  Cardinality(Places(g, e)) =
           Cardinality(Places(q, e)) + IF e = Call(g, k) THEN 1 ELSE 0
<1>0. Len(q) \in Nat
  BY Elements
<1> DEFINE S == Places(q, e)
           T == Places(g, e) \ {k}
           move == [i \in S |-> IF i < k THEN i ELSE i + 1]
<1>1. move \in [S -> T]
  BY <1>0 DEF Places
<1>2. \A i, j \in S : move[i] = move[j] => i = j
  BY <1>0 DEF Places
<1>3. \A j \in T : \E i \in S : move[i] = j
  <2> SUFFICES ASSUME NEW j \in T PROVE \E i \in S : move[i] = j
    OBVIOUS
  <2>0. j \in 1..(Len(q) + 1) /\ Call(g, j) = e /\ j # k
    BY DEF Places
  <2>1. CASE j < k
    <3>1. j \in S
      BY <1>0, <2>0, <2>1 DEF Places
    <3> QED BY <2>1, <3>1
  <2>2. CASE j > k
    <3>1. j - 1 \in k..Len(q) /\ (j - 1) + 1 = j
      BY <1>0, <2>0, <2>2
    <3>2. Call(q, j - 1) = e
      BY <2>0, <3>1
    <3>3. j - 1 \in S
      BY <1>0, <3>1, <3>2 DEF Places
    <3> QED BY <3>1, <3>3
  <2> QED BY <1>0, <2>0, <2>1, <2>2
<1> HIDE DEF S, T, move
<1>4. ExistsBijection(S, T)
  BY <1>1, <1>2, <1>3, Fun_IsBij, Zenon DEF ExistsBijection
<1>5. IsFiniteSet(S) /\ IsFiniteSet(Places(g, e))
  BY PlacesFinite DEF S
<1>6. Cardinality(T) = Cardinality(S)
  BY <1>4, <1>5, FS_Bijection
<1>7. Cardinality(T) = IF k \in Places(g, e) THEN Cardinality(Places(g, e)) - 1
                       ELSE Cardinality(Places(g, e))
  BY <1>5, FS_RemoveElement DEF T
<1>8. k \in Places(g, e) <=> e = Call(g, k)
  BY <1>0 DEF Places
<1> QED BY <1>6, <1>7, <1>8, PlacesFinite DEF S

LEMMA CallsInsert ==
  ASSUME NEW q \in Seq(Callouts), NEW g \in Seq(Callouts), NEW k \in 1..(Len(q) + 1),
         Len(g) = Len(q) + 1,
         \A i \in 1..(k-1) : Call(g, i) = Call(q, i),
         \A i \in k..Len(q) : Call(g, i + 1) = Call(q, i)
  PROVE  /\ Calls(g) = Calls(q) (+) SetToBag({Call(g, k)})
         /\ Calls(q) = Calls(g) (-) SetToBag({Call(g, k)})
<1>0. Len(q) \in Nat
  BY Elements
<1>1. ASSUME NEW e
      PROVE  /\ Cardinality(Places(g, e)) =
                  Cardinality(Places(q, e)) + IF e = Call(g, k) THEN 1 ELSE 0
             /\ Cardinality(Places(g, e)) \in Nat /\ Cardinality(Places(q, e)) \in Nat
             /\ e \in DOMAIN Calls(g) <=> Cardinality(Places(g, e)) > 0
             /\ e \in DOMAIN Calls(q) <=> Cardinality(Places(q, e)) > 0
             /\ e \in DOMAIN Calls(g) => Calls(g)[e] = Cardinality(Places(g, e))
             /\ e \in DOMAIN Calls(q) => Calls(q)[e] = Cardinality(Places(q, e))
  <2>1. /\ Cardinality(Places(g, e)) =
             Cardinality(Places(q, e)) + IF e = Call(g, k) THEN 1 ELSE 0
        /\ Cardinality(Places(g, e)) \in Nat /\ Cardinality(Places(q, e)) \in Nat
    BY PlacesInsert, PlacesFinite
  <2>2. /\ e \in DOMAIN Calls(g) <=> Cardinality(Places(g, e)) > 0
        /\ e \in DOMAIN Calls(q) <=> Cardinality(Places(q, e)) > 0
    <3>1. ASSUME NEW r \in Seq(Callouts)
          PROVE  e \in DOMAIN Calls(r) <=> Cardinality(Places(r, e)) > 0
      <4>1. e \in DOMAIN Calls(r) <=> \E i \in 1..Len(r) : Call(r, i) = e
        <5>1. DOMAIN Calls(r) = {Call(r, i) : i \in 1..Len(r)}
          BY CallsFacts
        <5> QED BY ONLY <5>1, Zenon
      <4> QED BY <4>1, PlacesFinite
    <3> QED BY <3>1
  <2> QED BY <2>1, <2>2, CallsFacts
<1>2. /\ Calls(g) = [e \in DOMAIN Calls(g) |-> Calls(g)[e]]
      /\ Calls(q) = [e \in DOMAIN Calls(q) |-> Calls(q)[e]]
  BY CallsFacts
<1> DEFINE B == Calls(q)
           C == Calls(g)
           x == Call(g, k)
<1> HIDE DEF B, C, x
<1>3. DOMAIN C = DOMAIN B \cup {x}
  <2>1. ASSUME NEW e PROVE e \in DOMAIN C <=> e \in DOMAIN B \/ e = x
    BY <1>1 DEF B, C, x
  <2> QED BY <2>1
<1>4. C = B (+) SetToBag({x})
  BY <1>1, <1>2, <1>3 DEF B, C, x, (+), SetToBag
<1>5. B = C (-) SetToBag({x})
  <2> DEFINE D == [e \in DOMAIN C |-> IF e \in {x} THEN C[e] - 1 ELSE C[e]]
  <2>1. \A e \in DOMAIN C : D[e] > 0 <=> e \in DOMAIN B
    BY <1>1 DEF B, C, x
  <2>2. \A e \in DOMAIN B : e \in DOMAIN C /\ B[e] = D[e]
    BY <1>1, <1>3 DEF B, C, x
  <2>3. C (-) SetToBag({x}) = [e \in {d \in DOMAIN C : D[d] > 0} |-> D[e]]
    BY DEF (-), SetToBag
  <2>4. {d \in DOMAIN C : D[d] > 0} = DOMAIN B
    <3> HIDE DEF D
    <3> QED BY <2>1, <2>2
  <2>5. B = [e \in DOMAIN B |-> B[e]]
    BY <1>2 DEF B
  <2> HIDE DEF D
  <2> QED BY <2>2, <2>3, <2>4, <2>5
<1> QED BY <1>4, <1>5 DEF B, C, x

(* Every call one tick nearer. *)
LEMMA CallsShift ==
  ASSUME NEW q \in Seq(Callouts), NEW g \in Seq(Callouts), Len(g) = Len(q),
         \A i \in 1..Len(q) : Remaining(q, i) \in Int,
         \A i \in 1..Len(q) : Call(g, i) = [fun |-> q[i].fun, rem |-> Remaining(q, i) - 1]
  PROVE  Calls(g) = Abstract!Shift(Calls(q))
<1> DEFINE D == {[fun |-> d.fun, rem |-> d.rem - 1] : d \in DOMAIN Calls(q)}
           later(e) == [fun |-> e.fun, rem |-> e.rem + 1]
<1>1. DOMAIN Calls(q) = {Call(q, i) : i \in 1..Len(q)}
      /\ DOMAIN Calls(g) = {Call(g, i) : i \in 1..Len(g)}
  BY CallsFacts
<1>2. \A i \in 1..Len(q) : /\ Call(g, i) = [fun |-> Call(q, i).fun, rem |-> Call(q, i).rem - 1]
                           /\ Call(q, i) = later(Call(g, i))
  <2> TAKE i \in 1..Len(q)
  <2>1. Call(q, i) = [fun |-> q[i].fun, rem |-> Remaining(q, i)]
    BY Zenon DEF Call
  <2>2. Remaining(q, i) \in Int /\ (Remaining(q, i) - 1) + 1 = Remaining(q, i)
    OBVIOUS
  <2>3. Call(g, i) = [fun |-> q[i].fun, rem |-> Remaining(q, i) - 1]
    OBVIOUS
  <2> QED BY ONLY <2>1, <2>2, <2>3
<1>3. DOMAIN Calls(g) = D
  BY <1>1, <1>2
<1>4. ASSUME NEW e \in D PROVE Calls(g)[e] = Calls(q)[later(e)]
  <2>1. PICK n \in 1..Len(q) : e = Call(g, n)
    BY <1>1, <1>3
  <2>2. later(e) = Call(q, n)
    BY <1>2, <2>1
  <2>3. \A i \in 1..Len(q) : Call(g, i) = e <=> Call(q, i) = later(e)
    BY <1>2, <2>1
  <2>4. Places(g, e) = Places(q, later(e))
    BY <2>3 DEF Places
  <2>5. later(e) \in DOMAIN Calls(q)
    BY <1>1, <2>2
  <2> DEFINE d == later(e)
  <2> HIDE DEF later, d
  <2>6. e \in DOMAIN Calls(g) /\ d \in DOMAIN Calls(q) /\ Places(g, e) = Places(q, d)
    BY <1>3, <2>4, <2>5 DEF d
  <2>7. Calls(g)[e] = Cardinality(Places(g, e))
    BY <2>6, CallsFacts
  <2>8. Calls(q)[d] = Cardinality(Places(q, d))
    BY <2>6, CallsFacts
  <2> QED BY <2>6, <2>7, <2>8 DEF d
<1>5. Calls(g) = [e \in D |-> Calls(g)[e]]
  BY <1>3, CallsFacts
<1> QED BY <1>4, <1>5 DEF Abstract!Shift, Abstract!BagToSet

-----------------------------------------------------------------------------
(* timeout() puts the new call where it is due t ticks from now, and moves *)
(* no other.                                                               *)
LEMMA InsertCalls ==
  ASSUME NEW q \in Seq(Callouts), NEW f \in Funs, NEW t \in Nat, NEW k \in 1..(Len(q) + 1),
         NEW left \in [1..k -> 1..MaxDelay], SearchStopsAt(q, t, k, left)
  PROVE  Calls(Insert(q, k, f, left[k])) = Calls(q) (+) SetToBag({[fun |-> f, rem |-> t]})
<1>0. /\ Len(q) \in Nat /\ DOMAIN q = 1..Len(q) /\ MaxDelay \in Nat
      /\ \A i \in 1..Len(q) : q[i] \in Callouts /\ q[i].c_time \in Int
  BY Elements, CalloutAssumption
<1> DEFINE g == Insert(q, k, f, left[k])
<1>1. left[k] \in Int /\ left[k] > 0
  BY <1>0
<1>2. /\ g \in Seq(Callouts) /\ Len(g) = Len(q) + 1
      /\ \A i \in 1..(Len(q) + 1) : g[i].c_time =
              IF i < k THEN q[i].c_time ELSE IF i = k THEN left[k]
              ELSE IF i = k + 1 THEN q[k].c_time - left[k] ELSE q[i-1].c_time
  <2> DEFINE l == left[k]
  <2>1. l \in Int
    BY <1>1
  <2> HIDE DEF l
  <2>2. /\ Insert(q, k, f, l) \in Seq(Callouts) /\ Len(Insert(q, k, f, l)) = Len(q) + 1
        /\ \A i \in 1..(Len(q) + 1) : Insert(q, k, f, l)[i].c_time =
               IF i < k THEN q[i].c_time ELSE IF i = k THEN l
               ELSE IF i = k + 1 THEN q[k].c_time - l ELSE q[i-1].c_time
    BY <2>1, InsertFacts
  <2> QED BY <2>2 DEF l
<1>3. \A i \in 1..(Len(q) + 1) : g[i].fun = IF i < k THEN q[i].fun ELSE IF i = k THEN f ELSE q[i-1].fun
  BY <1>0 DEF Insert
<1> HIDE DEF g
<1>4. left[k] = t - PosSum(q)[k-1]
  <2> DEFINE S == {i \in Nat : i + 1 <= k => left[i+1] = t - PosSum(q)[i]}
  <2>1. 0 \in S
    BY PosSumFacts DEF SearchStopsAt
  <2>2. ASSUME NEW i \in 0..((k-1)-1), i \in S PROVE i + 1 \in S
    <3>1. i + 1 \in 1..(k-1) /\ i + 1 \in 1..Len(q) /\ (i + 1) - 1 = i
      BY <1>0
    <3>2. left[i+1+1] = left[i+1] - Pos(q[i+1].c_time)
      BY <3>1 DEF SearchStopsAt
    <3>3. PosSum(q)[i+1] = PosSum(q)[i] + Pos(q[i+1].c_time) /\ PosSum(q)[i] \in Nat
      <4>1. PosSum(q)[i+1] = PosSum(q)[(i+1)-1] + Pos(q[i+1].c_time)
        BY <3>1, PosSumFacts
      <4>2. i \in 0..Len(q)
        BY <1>0, <3>1
      <4> QED BY <3>1, <4>1, <4>2, PosSumFacts
    <3>4. Pos(q[i+1].c_time) \in Nat
      BY <1>0, <3>1 DEF Pos
    <3>5. left[i+1] = t - PosSum(q)[i]
      BY <2>2, <3>1
    <3>6. left[i+1+1] = t - PosSum(q)[i+1]
      BY ONLY t \in Nat, <3>2, <3>3, <3>4, <3>5
    <3>7. i + 1 \in Nat
      BY <3>1
    <3> QED BY ONLY <3>6, <3>7
  <2>3. k - 1 \in Nat
    OBVIOUS
  <2>4. k - 1 \in S
    <3> HIDE DEF S
    <3>1. \A i \in 0..(k-1) : i \in S
      BY ONLY <2>1, <2>2, <2>3, UpTo
    <3> QED BY <2>3, <3>1
  <2> QED BY <2>4
<1>5. \A i \in 0..(k-1) : PosSum(g)[i] = PosSum(q)[i]
  <2>1. \A i \in 0..(k-1) : PosSum(g)[0+i] = PosSum(q)[0+i] + 0
    <3>1. \A i \in 1..(k-1) : Pos(g[0+i].c_time) = Pos(q[0+i].c_time)
      BY <1>0, <1>2
    <3>2. PosSum(g)[0] = PosSum(q)[0] + 0
      BY <1>2, PosSumFacts
    <3>3. k - 1 \in Nat /\ 0 + (k - 1) <= Len(q) /\ 0 + (k - 1) <= Len(g)
      BY <1>0, <1>2
    <3>4. Aligned(q, 0, g, 0, k - 1, 0)
      BY <3>1, <3>2, <3>3 DEF Aligned
    <3>5. Parallel(q, 0, g, 0, k - 1, 0)
      BY <1>2, <3>3, <3>4, SameSums
    <3> QED BY <3>5 DEF Parallel
  <2>2. ASSUME NEW i \in 0..(k-1) PROVE PosSum(g)[i] = PosSum(q)[i]
    <3>1. 0 + i = i /\ i \in 0..Len(q)
      BY <1>0
    <3>2. PosSum(g)[0+i] = PosSum(q)[0+i] + 0
      BY <2>1
    <3> QED BY <3>1, <3>2, PosSumFacts
  <2> QED BY <2>2
<1>6. PosSum(g)[k] = t
  <2>1. k \in 1..Len(g) /\ k - 1 \in 0..(k-1) /\ k - 1 \in 0..Len(q)
    BY <1>0, <1>2
  <2>2. PosSum(g)[k] = PosSum(g)[k-1] + Pos(g[k].c_time)
    BY <1>2, <2>1, PosSumFacts
  <2>3. PosSum(g)[k-1] = PosSum(q)[k-1] /\ PosSum(q)[k-1] \in Nat
    BY <1>5, <2>1, PosSumFacts
  <2>4. Pos(g[k].c_time) = left[k]
    BY <1>1, <1>2 DEF Pos
  <2> QED BY <1>1, <1>4, <2>2, <2>3, <2>4
<1>7. k <= Len(q) => q[k].c_time >= left[k]
  BY DEF SearchStopsAt
<1>8. \A i \in k..Len(q) : PosSum(g)[i+1] = PosSum(q)[i] /\ PosSum(q)[i] >= t
  <2> SUFFICES ASSUME k <= Len(q)
               PROVE  \A i \in k..Len(q) : PosSum(g)[i+1] = PosSum(q)[i] /\ PosSum(q)[i] >= t
    BY <1>0
  <2>1. PosSum(g)[k+1] = PosSum(q)[k] /\ PosSum(q)[k] >= t
    <3>1. PosSum(g)[k+1] = PosSum(g)[k] + Pos(g[k+1].c_time)
      <4>1. k + 1 \in 1..Len(g) /\ (k + 1) - 1 = k
        BY <1>0, <1>2
      <4> QED BY <1>2, <4>1, PosSumFacts
    <3>2. g[k+1].c_time = q[k].c_time - left[k]
      BY <1>0, <1>2
    <3>3. PosSum(q)[k] = PosSum(q)[k-1] + Pos(q[k].c_time) /\ PosSum(q)[k-1] \in Nat
      <4>1. k \in 1..Len(q) /\ k - 1 \in 0..Len(q)
        BY <1>0
      <4> QED BY <4>1, PosSumFacts
    <3>4. q[k].c_time \in Int
      BY <1>0
    <3>5. Pos(g[k+1].c_time) = q[k].c_time - left[k] /\ Pos(q[k].c_time) = q[k].c_time
      BY <1>1, <1>7, <3>2, <3>4 DEF Pos
    <3>6. q[k].c_time >= left[k]
      BY <1>7
    <3> HIDE DEF Pos
    <3> QED BY ONLY <1>1, <1>4, <1>6, t \in Nat, <3>1, <3>3, <3>4, <3>5, <3>6
  <2>2. \A i \in 0..(Len(q)-k) : PosSum(g)[(k+1)+i] = PosSum(q)[k+i] + 0
    <3>1. ASSUME NEW i \in 1..(Len(q)-k)
          PROVE  Pos(g[(k+1)+i].c_time) = Pos(q[k+i].c_time)
      <4>1. /\ (k + 1) + i \in 1..(Len(q) + 1) /\ (k + 1) + i > k + 1
            /\ ((k + 1) + i) - 1 = k + i
        BY <1>0
      <4>2. \A n \in 1..(Len(q) + 1) : n > k + 1 => g[n].c_time = q[n-1].c_time
        BY <1>2
      <4>3. g[(k+1)+i].c_time = q[((k+1)+i)-1].c_time
        BY <4>1, <4>2, Zenon
      <4> QED BY <4>1, <4>3
    <3>2. PosSum(g)[k+1] = PosSum(q)[k] + 0
      BY <1>0, <2>1, PosSumFacts
    <3>3. /\ k + 1 \in Nat /\ k \in Nat /\ Len(q) - k \in Nat
          /\ k + (Len(q) - k) <= Len(q) /\ (k + 1) + (Len(q) - k) <= Len(g)
      BY <1>0, <1>2
    <3>4. Aligned(q, k, g, k + 1, Len(q) - k, 0)
      BY <3>1, <3>2, <3>3 DEF Aligned
    <3>5. Parallel(q, k, g, k + 1, Len(q) - k, 0)
      BY <1>2, <3>3, <3>4, SameSums
    <3> QED BY <3>5 DEF Parallel
  <2>3. ASSUME NEW i \in k..Len(q) PROVE PosSum(g)[i+1] = PosSum(q)[i] /\ PosSum(q)[i] >= t
    <3>1. i - k \in 0..(Len(q)-k) /\ (k + 1) + (i - k) = i + 1 /\ k + (i - k) = i
      BY <1>0
    <3>2. PosSum(g)[i+1] = PosSum(q)[i] + 0
      BY <2>2, <3>1
    <3>3. PosSum(q)[k] <= PosSum(q)[i] /\ PosSum(q)[i] \in Nat /\ PosSum(q)[k] \in Nat
      BY <1>0, PosSumGrows, PosSumFacts
    <3> QED BY <2>1, <3>2, <3>3
  <2> QED BY <2>3
<1>9. t > 0
  BY <1>0, <1>1, <1>4, PosSumFacts
<1>10. \A i \in 1..(k-1) : Call(g, i) = Call(q, i)
  BY <1>0, <1>2, <1>3, <1>5 DEF Call, Remaining
<1>11. \A i \in k..Len(q) : Call(g, i + 1) = Call(q, i)
  <2> SUFFICES ASSUME NEW i \in k..Len(q) PROVE Call(g, i + 1) = Call(q, i)
    OBVIOUS
  <2>1. Remaining(g, i + 1) = Remaining(q, i)
    BY <1>0, <1>8, <1>9 DEF Remaining
  <2>2. g[i+1].fun = q[i].fun
    BY <1>0, <1>3
  <2> QED BY <2>1, <2>2 DEF Call
<1>12. Call(g, k) = [fun |-> f, rem |-> t]
  BY <1>0, <1>3, <1>6, <1>9 DEF Call, Remaining
<1> QED BY <1>2, <1>10, <1>11, <1>12, CallsInsert DEF g

(* untimeout() takes away one call and moves no other. *)
LEMMA DeleteCalls ==
  ASSUME NEW q \in Seq(Callouts), Sorted(q), NEW k \in 1..Len(q)
  PROVE  Calls(Delete(q, k)) = Calls(q) (-) SetToBag({Call(q, k)})
<1>0. /\ Len(q) \in Nat /\ DOMAIN q = 1..Len(q)
      /\ \A i \in 1..Len(q) : q[i] \in Callouts /\ q[i].c_time \in Int
  BY Elements
<1> DEFINE u == Delete(q, k)
<1>1. /\ u \in Seq(Callouts) /\ Len(u) = Len(q) - 1
      /\ \A i \in 1..(Len(q) - 1) : u[i].c_time =
              IF i < k THEN q[i].c_time
              ELSE IF i = k THEN q[i+1].c_time + Pos(q[k].c_time) ELSE q[i+1].c_time
  BY DeleteFacts
<1>2. \A i \in 1..(Len(q) - 1) : u[i].fun = IF i < k THEN q[i].fun ELSE q[i+1].fun
  BY <1>0 DEF Delete
<1> HIDE DEF u
<1>3. \A i \in 0..(k-1) : PosSum(u)[i] = PosSum(q)[i]
  <2>1. \A i \in 0..(k-1) : PosSum(u)[0+i] = PosSum(q)[0+i] + 0
    <3>1. \A i \in 1..(k-1) : Pos(u[0+i].c_time) = Pos(q[0+i].c_time)
      BY <1>0, <1>1
    <3>2. PosSum(u)[0] = PosSum(q)[0] + 0
      BY <1>1, PosSumFacts
    <3>3. k - 1 \in Nat /\ 0 + (k - 1) <= Len(q) /\ 0 + (k - 1) <= Len(u)
      BY <1>0, <1>1
    <3>4. Aligned(q, 0, u, 0, k - 1, 0)
      BY <3>1, <3>2, <3>3 DEF Aligned
    <3>5. Parallel(q, 0, u, 0, k - 1, 0)
      BY <1>1, <3>3, <3>4, SameSums
    <3> QED BY <3>5 DEF Parallel
  <2>2. ASSUME NEW i \in 0..(k-1) PROVE PosSum(u)[i] = PosSum(q)[i]
    <3>1. 0 + i = i /\ i \in 0..Len(q)
      BY <1>0
    <3>2. PosSum(u)[0+i] = PosSum(q)[0+i] + 0
      BY <2>1
    <3> QED BY <3>1, <3>2, PosSumFacts
  <2> QED BY <2>2
<1>4. \A i \in k..Len(u) : PosSum(u)[i] = PosSum(q)[i+1]
  <2> SUFFICES ASSUME k <= Len(u) PROVE \A i \in k..Len(u) : PosSum(u)[i] = PosSum(q)[i+1]
    BY <1>0, <1>1
  <2>1. PosSum(u)[k] = PosSum(q)[k+1] /\ PosSum(q)[k+1] \in Nat
    <3>1. /\ k \in 1..Len(u) /\ k \in 1..Len(q) /\ k + 1 \in 1..Len(q) /\ (k + 1) - 1 = k
          /\ k - 1 \in 0..(k-1) /\ k - 1 \in 0..Len(q) /\ k + 1 \in 0..Len(q)
      BY <1>0, <1>1
    <3>2. PosSum(u)[k] = PosSum(u)[k-1] + Pos(u[k].c_time)
      BY <1>1, <3>1, PosSumFacts
    <3>3. PosSum(q)[k] = PosSum(q)[k-1] + Pos(q[k].c_time)
      BY <3>1, PosSumFacts
    <3>4. PosSum(q)[k+1] = PosSum(q)[k] + Pos(q[k+1].c_time)
      BY <3>1, PosSumFacts
    <3>5. PosSum(u)[k-1] = PosSum(q)[k-1] /\ PosSum(q)[k-1] \in Nat /\ PosSum(q)[k+1] \in Nat
      BY <1>3, <3>1, PosSumFacts
    <3>6. q[k].c_time \in Int /\ q[k+1].c_time \in Int
      BY <1>0, <3>1
    <3>7. q[k+1].c_time < 0 => q[k].c_time <= q[k+1].c_time
      BY <1>0, <3>1 DEF Sorted
    <3>8. u[k].c_time = q[k+1].c_time + Pos(q[k].c_time)
      BY <1>1, <3>1
    <3>9. Pos(u[k].c_time) = Pos(q[k].c_time) + Pos(q[k+1].c_time)
      BY <3>6, <3>7, <3>8 DEF Pos
    <3>10. Pos(q[k].c_time) \in Nat /\ Pos(q[k+1].c_time) \in Nat
      BY <3>6 DEF Pos
    <3> QED BY <3>2, <3>3, <3>4, <3>5, <3>9, <3>10
  <2>2. \A i \in 0..(Len(u)-k) : PosSum(u)[k+i] = PosSum(q)[(k+1)+i] + 0
    <3>1. ASSUME NEW i \in 1..(Len(u)-k)
          PROVE  Pos(u[k+i].c_time) = Pos(q[(k+1)+i].c_time)
      <4>1. k + i \in 1..(Len(q) - 1) /\ k + i > k /\ (k + i) + 1 = (k + 1) + i
        BY <1>0, <1>1
      <4>2. \A n \in 1..(Len(q) - 1) : n > k => u[n].c_time = q[n+1].c_time
        BY <1>1
      <4>3. u[k+i].c_time = q[(k+i)+1].c_time
        BY <4>1, <4>2, Zenon
      <4> QED BY <4>1, <4>3
    <3>2. PosSum(u)[k] = PosSum(q)[k+1] + 0
      BY <2>1
    <3>3. /\ k + 1 \in Nat /\ k \in Nat /\ Len(u) - k \in Nat
          /\ (k + 1) + (Len(u) - k) <= Len(q) /\ k + (Len(u) - k) <= Len(u)
      BY <1>0, <1>1
    <3>4. Aligned(q, k + 1, u, k, Len(u) - k, 0)
      BY <3>1, <3>2, <3>3 DEF Aligned
    <3>5. Parallel(q, k + 1, u, k, Len(u) - k, 0)
      BY <1>1, <3>3, <3>4, SameSums
    <3> QED BY <3>5 DEF Parallel
  <2>3. ASSUME NEW i \in k..Len(u) PROVE PosSum(u)[i] = PosSum(q)[i+1]
    <3>1. /\ i - k \in 0..(Len(u)-k) /\ (k + 1) + (i - k) = i + 1 /\ k + (i - k) = i
          /\ i + 1 \in 0..Len(q)
      BY <1>0, <1>1
    <3>2. PosSum(u)[i] = PosSum(q)[i+1] + 0
      BY <2>2, <3>1
    <3> QED BY <3>1, <3>2, PosSumFacts
  <2> QED BY <2>3
<1>5. \A i \in 1..(k-1) : Call(q, i) = Call(u, i)
  BY <1>0, <1>1, <1>2, <1>3 DEF Call, Remaining
<1>6. ASSUME NEW i \in k..Len(u) PROVE Call(q, i + 1) = Call(u, i)
  <2>1. i \in 1..(Len(q) - 1) /\ ~(i < k) /\ i + 1 \in 1..Len(q) /\ (i + 1) - 1 = i
        /\ i \in 0..Len(q)
    BY <1>0, <1>1
  <2>2. u[i].fun = q[i+1].fun
    BY <1>2, <2>1
  <2>3. PosSum(u)[i] = PosSum(q)[i+1]
    BY <1>4
  <2>4. PosSum(q)[i+1] = 0 => u[i].c_time = q[i+1].c_time
    <3>1. CASE i # k
      BY <1>1, <2>1, <3>1
    <3>2. CASE i = k
      <4>1. PosSum(q)[k] <= PosSum(q)[k+1] /\ PosSum(q)[k] \in Nat /\ PosSum(q)[k-1] \in Nat
        BY <1>0, <2>1, <3>2, PosSumGrows, PosSumFacts
      <4>2. PosSum(q)[k] = PosSum(q)[k-1] + Pos(q[k].c_time)
        BY PosSumFacts
      <4>3. q[k].c_time \in Int /\ q[k+1].c_time \in Int
        BY <1>0, <2>1, <3>2
      <4>4. Pos(q[k].c_time) \in Nat
        BY <4>3 DEF Pos
      <4>5. PosSum(q)[k+1] = 0 => Pos(q[k].c_time) = 0
        BY <1>0, <2>1, <3>2, <4>1, <4>2, <4>4, PosSumFacts
      <4>6. u[k].c_time = q[k+1].c_time + Pos(q[k].c_time)
        BY <1>1, <2>1, <3>2
      <4> QED BY <3>2, <4>3, <4>5, <4>6
    <3> QED BY <3>1, <3>2
  <2> QED BY <2>2, <2>3, <2>4 DEF Call, Remaining
<1>7. k \in 1..(Len(u) + 1) /\ Len(q) = Len(u) + 1
  BY <1>0, <1>1
<1> QED BY <1>1, <1>5, <1>6, <1>7, CallsInsert DEF u

(* softclock() takes the first call; it is due. *)
LEMMA TailCalls ==
  ASSUME NEW q \in Seq(Callouts), Sorted(q), Len(q) > 0, q[1].c_time <= 0
  PROVE  Calls(Tail(q)) = Calls(q) (-) SetToBag({Call(q, 1)})
<1>0. /\ Len(q) \in Nat /\ DOMAIN q = 1..Len(q)
      /\ \A i \in 1..Len(q) : q[i] \in Callouts /\ q[i].c_time \in Int
  BY Elements
<1>1. Pos(q[1].c_time) = 0
  BY <1>0 DEF Pos
<1>2. \A i \in 1..(Len(q)-1) : [fun |-> q[i+1].fun, c_time |-> q[i+1].c_time + 0] = q[i+1]
  BY <1>0 DEF Callouts
<1>3. /\ Tail(q) \in Seq(Callouts) /\ Len(Tail(q)) = Len(q) - 1
      /\ \A i \in 1..(Len(q)-1) : Tail(q)[i] = q[i+1]
  <2>1. q # <<>>
    BY EmptySeq
  <2> QED BY <2>1, HeadTailProperties
<1>4. 1 \in 1..Len(q)
  BY <1>0
<1>5. /\ Delete(q, 1) \in Seq(Callouts) /\ Len(Delete(q, 1)) = Len(q) - 1
      /\ \A i \in 1..(Len(q)-1) : Delete(q, 1)[i] = q[i+1]
  <2>1. \A i \in 1..(Len(q)-1) : Delete(q, 1)[i] = q[i+1]
    BY <1>0, <1>1, <1>2 DEF Delete
  <2> QED BY <1>4, <2>1, DeleteFacts
<1>6. Tail(q) = Delete(q, 1)
  BY <1>3, <1>5, SeqEqual
<1> QED BY <1>4, <1>6, DeleteCalls

(* hardclock() brings every call one tick nearer. *)
LEMMA AdvanceCalls ==
  ASSUME NEW q \in Seq(Callouts), Sorted(q)
  PROVE  Calls(Advance(q)) = Abstract!Shift(Calls(q))
<1>0. /\ Len(q) \in Nat /\ DOMAIN q = 1..Len(q)
      /\ \A i \in 1..Len(q) : q[i] \in Callouts /\ q[i].c_time \in Int
  BY Elements
<1> DEFINE g == Advance(q)
           P == PosSum(q)
           Q == PosSum(g)
           any(i) == \E j \in 1..i : q[j].c_time > 0
<1>1. /\ g \in Seq(Callouts) /\ Len(g) = Len(q)
      /\ \A i \in 1..Len(q) : g[i].c_time =
              IF \A j \in 1..(i-1) : q[j].c_time < 1
              THEN q[i].c_time - 1 ELSE q[i].c_time
  BY AdvanceFacts
<1>2. \A i \in 1..Len(q) : g[i].fun = q[i].fun
  BY <1>0 DEF Advance
<1> HIDE DEF g
<1>3. \A i \in 1..Len(q) : g[i].c_time = IF any(i-1) THEN q[i].c_time ELSE q[i].c_time - 1
  BY <1>0, <1>1
<1>4. /\ P[0] = 0 /\ Q[0] = 0
      /\ \A i \in 1..Len(q) : /\ P[i] = P[i-1] + Pos(q[i].c_time)
                              /\ Q[i] = Q[i-1] + Pos(g[i].c_time)
      /\ \A i \in 0..Len(q) : P[i] \in Nat /\ Q[i] \in Nat
  BY <1>1, PosSumFacts
<1> HIDE DEF P, Q
<1> DEFINE S == {i \in Nat : IF any(i) THEN P[i] > 0 /\ Q[i] = P[i] - 1 ELSE P[i] = 0 /\ Q[i] = 0}
<1>5. 0 \in S
  BY <1>4
<1>6. ASSUME NEW i \in 0..(Len(q)-1), i \in S PROVE i + 1 \in S
  <2>1. i + 1 \in 1..Len(q) /\ (i + 1) - 1 = i /\ i \in 0..Len(q)
    BY <1>0
  <2>2. /\ P[i+1] = P[i] + Pos(q[i+1].c_time) /\ Q[i+1] = Q[i] + Pos(g[i+1].c_time)
        /\ P[i] \in Nat /\ Q[i] \in Nat
    BY <1>4, <2>1
  <2>3. any(i + 1) <=> any(i) \/ q[i+1].c_time > 0
    BY <2>1
  <2>4. g[i+1].c_time = IF any(i) THEN q[i+1].c_time ELSE q[i+1].c_time - 1
    BY <1>3, <2>1
  <2>5. q[i+1].c_time \in Int
    BY <1>0, <2>1
  <2>6. IF any(i) THEN P[i] > 0 /\ Q[i] = P[i] - 1 ELSE P[i] = 0 /\ Q[i] = 0
    BY <1>6
  <2> DEFINE a == any(i)
             b == any(i + 1)
             x == q[i+1].c_time
             y == g[i+1].c_time
  <2>7. (b <=> a \/ x > 0) /\ y = (IF a THEN x ELSE x - 1) /\ x \in Int
    BY <2>3, <2>4, <2>5
  <2>8. IF a THEN P[i] > 0 /\ Q[i] = P[i] - 1 ELSE P[i] = 0 /\ Q[i] = 0
    BY <2>6
  <2>9. P[i+1] = P[i] + Pos(x) /\ Q[i+1] = Q[i] + Pos(y) /\ P[i] \in Nat /\ Q[i] \in Nat
    BY <2>2
  <2> HIDE DEF any, a, b, x, y
  <2>10. IF b THEN P[i+1] > 0 /\ Q[i+1] = P[i+1] - 1 ELSE P[i+1] = 0 /\ Q[i+1] = 0
    BY ONLY <2>7, <2>8, <2>9 DEF Pos
  <2>11. i + 1 \in Nat
    BY <2>1
  <2> QED BY <2>10, <2>11 DEF b
<1>7. ASSUME NEW i \in 1..Len(q) PROVE i \in S
  <2> HIDE DEF S
  <2>1. \A j \in 0..Len(q) : j \in S
    BY <1>0, <1>5, <1>6, UpTo
  <2> QED BY <1>0, <2>1
<1>8. ASSUME NEW i \in 1..Len(q)
      PROVE  Remaining(q, i) \in Int /\ Remaining(g, i) = Remaining(q, i) - 1
  <2>1. IF any(i) THEN P[i] > 0 /\ Q[i] = P[i] - 1 ELSE P[i] = 0 /\ Q[i] = 0
    BY <1>7
  <2>2. /\ P[i] \in Nat /\ Q[i] \in Nat /\ q[i].c_time \in Int
        /\ Q[i] = Q[i-1] + Pos(g[i].c_time) /\ Q[i-1] \in Nat
    BY <1>0, <1>4
  <2>3. g[i].c_time = IF any(i-1) THEN q[i].c_time ELSE q[i].c_time - 1
    BY <1>3
  <2>4. any(i) <=> any(i-1) \/ q[i].c_time > 0
    OBVIOUS
  <2>5. any(i-1) => q[i].c_time >= 0
    <3>1. ASSUME NEW j \in 1..(i-1), q[j].c_time > 0 PROVE q[i].c_time >= 0
      <4>1. j \in DOMAIN q /\ i \in DOMAIN q /\ j < i /\ q[j].c_time \in Int /\ q[i].c_time \in Int
        BY <1>0
      <4>2. q[i].c_time < 0 => q[j].c_time <= q[i].c_time
        BY <4>1 DEF Sorted
      <4> QED BY <3>1, <4>1, <4>2
    <3> QED BY <3>1
  <2>6. Remaining(q, i) = IF P[i] = 0 THEN q[i].c_time ELSE P[i]
    BY DEF Remaining, P
  <2>7. Remaining(g, i) = IF Q[i] = 0 THEN g[i].c_time ELSE Q[i]
    BY DEF Remaining, Q
  <2> HIDE DEF any
  <2> QED BY <2>1, <2>2, <2>3, <2>4, <2>5, <2>6, <2>7 DEF Pos
<1>9. \A i \in 1..Len(q) : Call(g, i) = [fun |-> q[i].fun, rem |-> Remaining(q, i) - 1]
  BY <1>2, <1>8 DEF Call
<1> QED BY <1>1, <1>8, <1>9, CallsShift DEF g

-----------------------------------------------------------------------------
(* softclock() is in a call exactly while it is calling something. *)
CallInv == soft = "call" <=> firing # None

LEMMA CallsAreMade == Spec => []CallInv
<1>1. Init => CallInv
  BY DEF Init, CallInv
<1>2. IInv /\ CallInv /\ [Next]_vars => CallInv'
  <2> SUFFICES ASSUME IInv, CallInv, [Next]_vars PROVE CallInv'
    OBVIOUS
  <2>1. CASE SoftclockLoop
    <3>1. Len(calltodo) > 0 => calltodo[1].fun \in Funs
      BY Elements DEF IInv, TypeOK
    <3>2. Len(calltodo) \in Nat
      BY Elements DEF IInv, TypeOK
    <3> QED BY <2>1, <3>1, <3>2, CalloutAssumption DEF SoftclockLoop, CallInv
  <2> QED BY <2>1 DEF CallInv, Next, vars, Timeout, Enqueue, Untimeout, Hardclock, SoftclockStart, CallReturn
<1> QED BY <1>1, <1>2, Inductive, PTL DEF Spec

(* The operators on bags are the same in Timers. *)
LEMMA SameBags ==
  ASSUME NEW B, NEW S
  PROVE  /\ Abstract!(+)(B, Abstract!SetToBag(S)) = B (+) SetToBag(S)
         /\ Abstract!(-)(B, Abstract!SetToBag(S)) = B (-) SetToBag(S)
BY DEF (+), (-), SetToBag, Abstract!(+), Abstract!(-), Abstract!SetToBag

LEMMA StepRefines ==
  ASSUME IInv, CallInv, [Next]_vars
  PROVE  [Abstract!Next]_(Abstract!vars)
<1>0. /\ calltodo \in Seq(Callouts) /\ Sorted(calltodo)
      /\ Len(calltodo) \in Nat /\ DOMAIN calltodo = 1..Len(calltodo)
  BY Elements DEF IInv, TypeOK, LateFirst, Sorted
<1> DEFINE Pending == {Call(calltodo, i) : i \in 1..Len(calltodo)}
<1>p. Abstract!BagToSet(Calls(calltodo)) = Pending
  BY <1>0, CallsFacts DEF Abstract!BagToSet
<1>1. ASSUME NEW f \in Funs, NEW t \in -1..MaxDelay, Timeout(f, t), callfree # 0
      PROVE  Abstract!Schedule(f, t)
  <2>1. PICK k \in 1..(Len(calltodo) + 1) : \E left \in [1..k -> 1..MaxDelay] :
          /\ SearchStopsAt(calltodo, IF t <= 0 THEN 1 ELSE t, k, left)
          /\ calltodo' = Insert(calltodo, k, f, left[k])
    BY <1>1 DEF Timeout, Enqueue
  <2>2. (IF t <= 0 THEN 1 ELSE t) \in Nat
    BY CalloutAssumption
  <2>3. Calls(calltodo)' = Calls(calltodo) (+) SetToBag({[fun |-> f, rem |-> IF t <= 0 THEN 1 ELSE t]})
    BY <1>0, <2>1, <2>2, InsertCalls
  <2> QED BY <1>1, <2>3, SameBags DEF Abstract!Schedule, Timeout, Enqueue
<1>2. ASSUME NEW f \in Funs, NEW t \in -1..MaxDelay, Timeout(f, t), callfree = 0
      PROVE  Abstract!Overflow
  BY <1>2 DEF Abstract!Overflow, Timeout
<1>3. ASSUME NEW f \in Funs, Untimeout(f)
      PROVE  Abstract!Cancel(f)
  <2>1. PICK k \in DOMAIN calltodo :
          /\ calltodo[k].fun = f
          /\ \A j \in 1..(k-1) : calltodo[j].fun # f
          /\ calltodo' = Delete(calltodo, k)
    BY <1>3 DEF Untimeout
  <2>2. Calls(calltodo)' = Calls(calltodo) (-) SetToBag({Call(calltodo, k)})
    BY <1>0, <2>1, DeleteCalls
  <2>3. Call(calltodo, k) \in Pending /\ Call(calltodo, k).fun = f
    BY <1>0, <2>1 DEF Call
  <2>4. ASSUME NEW d \in Pending, d.fun = f PROVE Call(calltodo, k).rem <= d.rem
    <3>1. PICK j \in 1..Len(calltodo) : d = Call(calltodo, j)
      OBVIOUS
    <3>2. k <= j
      BY <1>0, <2>1, <2>4, <3>1 DEF Call
    <3>3. Remaining(calltodo, k) <= Remaining(calltodo, j)
      BY <1>0, <2>1, <3>2, InDueOrder
    <3> QED BY <3>1, <3>3 DEF Call
  <2>5. Abstract!Earliest(Call(calltodo, k), {d \in Pending : d.fun = f})
    BY <2>3, <2>4 DEF Abstract!Earliest
  <2> HIDE DEF Pending
  <2> QED BY <1>3, <1>p, <2>2, <2>3, <2>5, SameBags DEF Abstract!Cancel, Untimeout
<1>4. ASSUME Hardclock PROVE Abstract!Tick
  <2>1. Calls(calltodo)' = Abstract!Shift(Calls(calltodo))
    BY <1>0, <1>4, AdvanceCalls DEF Hardclock
  <2> QED BY <1>4, <2>1 DEF Abstract!Tick, Hardclock
<1>5. ASSUME SoftclockLoop, soft' = "call" PROVE Abstract!Fire
  <2>1. /\ Len(calltodo) > 0 /\ calltodo[1].c_time <= 0
        /\ firing' = calltodo[1].fun /\ calltodo' = Tail(calltodo) /\ firing = None
    <3>1. calltodo[1].c_time \in Int \/ Len(calltodo) = 0
      BY <1>0, Elements
    <3> QED BY <1>0, <1>5, <3>1 DEF SoftclockLoop, CallInv
  <2> DEFINE e == Call(calltodo, 1)
  <2>2. Calls(calltodo)' = Calls(calltodo) (-) SetToBag({e})
    BY <1>0, <2>1, TailCalls
  <2>3. e \in Pending /\ e.fun = calltodo[1].fun
    BY <1>0, <2>1 DEF Call
  <2>4. e.rem <= 0
    <3>1. PosSum(calltodo)[1] = PosSum(calltodo)[1-1] + Pos(calltodo[1].c_time)
          /\ PosSum(calltodo)[0] = 0
      BY <1>0, <2>1, PosSumFacts
    <3>2. Pos(calltodo[1].c_time) = 0
      BY <1>0, <2>1, Elements DEF Pos
    <3> QED BY <2>1, <3>1, <3>2 DEF Call, Remaining
  <2>5. ASSUME NEW d \in Pending PROVE e.rem <= d.rem
    <3>1. PICK j \in 1..Len(calltodo) : d = Call(calltodo, j)
      OBVIOUS
    <3>2. Remaining(calltodo, 1) <= Remaining(calltodo, j)
      BY <1>0, <2>1, InDueOrder
    <3> QED BY <3>1, <3>2 DEF Call
  <2> HIDE DEF Pending, e
  <2>6. Abstract!Earliest(e, Pending)
    BY <2>3, <2>5 DEF Abstract!Earliest
  <2>7. Abstract!Due(e)
    BY <1>p, <2>3, <2>4 DEF Abstract!Due
  <2> QED BY <1>5, <1>p, <2>1, <2>2, <2>3, <2>6, <2>7, SameBags DEF Abstract!Fire, SoftclockLoop
<1>6. ASSUME CallReturn PROVE Abstract!Return
  BY <1>6 DEF CallReturn, CallInv, Abstract!Return
<1>7. ASSUME SoftclockStart \/ (SoftclockLoop /\ soft' # "call") \/ UNCHANGED vars
      PROVE  UNCHANGED Abstract!vars
  BY <1>7 DEF SoftclockStart, SoftclockLoop, vars, Abstract!vars
<1>8. ASSUME NEW f \in Funs, (\E t \in -1..MaxDelay : Timeout(f, t)) \/ Untimeout(f)
      PROVE  Abstract!Next
  BY <1>1, <1>2, <1>3, <1>8 DEF Abstract!Next
<1>9. Hardclock \/ (SoftclockLoop /\ soft' = "call") \/ CallReturn => Abstract!Next
  BY <1>4, <1>5, <1>6 DEF Abstract!Next
<1> QED BY <1>7, <1>8, <1>9, Zenon DEF Next

(* timeout, untimeout, hardclock and softclock do to the delta list what   *)
(* Timers does to a bag of calls, for every table size and every delay:    *)
(* timeout adds one call due in the ticks asked for, untimeout removes the *)
(* first of its function's, neither moves another call, a tick brings each *)
(* one tick nearer, and softclock makes due calls only, earliest first.    *)
THEOREM ListImplementsTimers ==
  Spec => Abstract!Init /\ [][Abstract!Next]_(Abstract!vars)
<1>1. Init => Abstract!Init
  <2> SUFFICES ASSUME Init PROVE Abstract!Init
    OBVIOUS
  <2>1. calltodo = <<>> /\ DOMAIN calltodo = {}
    BY DEF Init
  <2>2. Calls(calltodo) = [e \in {} |-> 1]
    BY <2>1 DEF Calls
  <2> QED BY <2>2 DEF Init, Abstract!Init, Abstract!EmptyBag, Abstract!SetToBag
<1> QED BY <1>1, StepRefines, Inductive, CallsAreMade, PTL DEF Spec
=============================================================================
