---------------------------- MODULE UnpGC_proofs ----------------------------
(***************************************************************************)
(* Proofs about UnpGC: what a process has or can still receive is never    *)
(* taken away (ReachableKept), and a collection leaves no garbage          *)
(* (GarbageCollected), for every file table.                               *)
(*                                                                         *)
(* The invariant counts.  Outside a collection, f_msgcount of a file is at *)
(* least the number of places in buffers, and of references taken out of a *)
(* buffer to be discarded, that refer to it.  The sweep discards more than *)
(* it took out of buffers, and breaks this for the files it takes; but it  *)
(* stays true of the marked ones, and the reachable files are marked.      *)
(* Some of the references discarded twice end in a panic: Imminent says    *)
(* when, and that until then only the work changes.                        *)
(*                                                                         *)
(* The second theorem needs that marks have reasons (Grounded), as the     *)
(* least set that has the roots and what its buffers hold: this is stated  *)
(* over all sets, since the provers have no induction along a path.        *)
(***************************************************************************)
EXTENDS UnpGC, FiniteSetTheorems, FunctionTheorems, SequenceTheorems,
        WellFoundedInduction, TLAPS

-----------------------------------------------------------------------------
(* Counting in sequences.                                                  *)

(* How often e is in q. *)
Count(q, e) == Cardinality({i \in DOMAIN q : q[i] = e})

Has(q, e) == \E i \in DOMAIN q : q[i] = e

One(b) == IF b THEN 1 ELSE 0

(* An entry is counted as often as it is there. *)
LEMMA CountFinite ==
  ASSUME NEW S, NEW q \in Seq(S), NEW e
  PROVE  /\ IsFiniteSet({i \in DOMAIN q : q[i] = e})
         /\ Count(q, e) \in Nat
         /\ Count(q, e) = 0 <=> ~Has(q, e)
<1>1. Len(q) \in Nat /\ DOMAIN q = 1 .. Len(q)
  BY LenProperties
<1> DEFINE P == {i \in DOMAIN q : q[i] = e}
<1>2. IsFiniteSet(DOMAIN q) /\ P \in SUBSET (DOMAIN q)
  BY <1>1, FS_Interval
<1>3. IsFiniteSet(P)
  BY <1>2, FS_Subset
<1>4. P = {} <=> ~Has(q, e)
  BY DEF Has
<1> QED BY <1>3, <1>4, FS_CardinalityType, FS_EmptySet DEF Count

(* Concatenation adds. *)
LEMMA CountConcat ==
  ASSUME NEW S, NEW q \in Seq(S), NEW r \in Seq(S), NEW e
  PROVE  /\ Count(q \o r, e) = Count(q, e) + Count(r, e)
         /\ Has(q \o r, e) <=> Has(q, e) \/ Has(r, e)
<1> DEFINE g == q \o r
           n == Len(q)
           m == Len(r)
           P == {i \in DOMAIN q : q[i] = e}
           R == {i \in DOMAIN r : r[i] = e}
           G == {i \in DOMAIN g : g[i] = e}
           T == G \ P
           move == [i \in R |-> i + n]
<1>1. /\ n \in Nat /\ m \in Nat /\ DOMAIN q = 1 .. n /\ DOMAIN r = 1 .. m
      /\ g \in Seq(S) /\ Len(g) = n + m
      /\ \A i \in 1 .. n + m : g[i] = IF i <= n THEN q[i] ELSE r[i - n]
  BY LenProperties, ConcatProperties
<1>2. DOMAIN g = 1 .. n + m
  BY <1>1, LenProperties
<1> HIDE DEF g, n, m
<1>3. \A i \in 1 .. n : i \in DOMAIN g /\ g[i] = q[i]
  BY <1>1, <1>2
<1>4. P \subseteq G
  BY <1>1, <1>3
<1>5. \A i \in 1 .. m : i + n \in DOMAIN g /\ g[i + n] = r[i] /\ i + n \notin DOMAIN q
  <2> SUFFICES ASSUME NEW i \in 1 .. m
               PROVE  i + n \in DOMAIN g /\ g[i + n] = r[i] /\ i + n \notin DOMAIN q
    OBVIOUS
  <2>1. i + n \in 1 .. n + m /\ ~(i + n <= n) /\ (i + n) - n = i
    BY <1>1
  <2> QED BY <1>1, <1>2, <2>1
<1>6. move \in [R -> T]
  BY <1>1, <1>5
<1>7. \A i, j \in R : move[i] = move[j] => i = j
  BY <1>1
<1>8. \A j \in T : \E i \in R : move[i] = j
  <2> SUFFICES ASSUME NEW j \in T PROVE \E i \in R : move[i] = j
    OBVIOUS
  <2>1. j \in 1 .. n + m /\ g[j] = e /\ j \notin P
    BY <1>2
  <2>2. ~(j <= n)
    BY <1>1, <1>3, <2>1
  <2>3. j - n \in 1 .. m /\ (j - n) + n = j /\ r[j - n] = e
    BY <1>1, <2>1, <2>2
  <2>4. j - n \in R
    BY <1>1, <2>3
  <2> QED BY <2>3, <2>4
<1>9. IsFiniteSet(P) /\ IsFiniteSet(R) /\ IsFiniteSet(G)
  BY <1>1, CountFinite
<1> HIDE DEF P, R, G, T, move
<1>10. ExistsBijection(R, T)
  BY <1>6, <1>7, <1>8, Fun_IsBij, Zenon DEF ExistsBijection
<1>11. IsFiniteSet(T) /\ Cardinality(T) = Cardinality(R)
  BY <1>9, <1>10, FS_Bijection
<1>12. Cardinality(T) = Cardinality(G) - Cardinality(P)
  <2>1. G \cap P = P
    BY <1>4
  <2> QED BY <1>9, <2>1, FS_Difference DEF T
<1>13. Cardinality(P) \in Nat /\ Cardinality(R) \in Nat /\ Cardinality(G) \in Nat
  BY <1>9, FS_CardinalityType
<1>14. Cardinality(G) = Cardinality(P) + Cardinality(R)
  BY <1>11, <1>12, <1>13
<1>15. Has(g, e) <=> Has(q, e) \/ Has(r, e)
  <2>1. Has(q, e) => Has(g, e)
    BY <1>1, <1>3 DEF Has
  <2>2. Has(r, e) => Has(g, e)
    BY <1>1, <1>5 DEF Has
  <2>3. ASSUME NEW j \in DOMAIN g, g[j] = e PROVE Has(q, e) \/ Has(r, e)
    <3>1. j \in 1 .. n + m
      BY <1>2
    <3>2. CASE j <= n
      <4>1. j \in DOMAIN q /\ q[j] = e
        BY <1>1, <1>3, <2>3, <3>1, <3>2
      <4> QED BY <4>1 DEF Has
    <3>3. CASE ~(j <= n)
      <4>1. j - n \in DOMAIN r /\ r[j - n] = e
        BY <1>1, <2>3, <3>1, <3>3
      <4> QED BY <4>1 DEF Has
    <3> QED BY <3>2, <3>3
  <2> QED BY <2>1, <2>2, <2>3 DEF Has
<1> QED BY <1>14, <1>15 DEF Count, P, R, G, g

(* One entry. *)
LEMMA CountSingle ==
  ASSUME NEW x, NEW e
  PROVE  Count(<<x>>, e) = One(x = e) /\ (Has(<<x>>, e) <=> x = e)
<1>1. DOMAIN <<x>> = {1} /\ <<x>>[1] = x
  OBVIOUS
<1>2. CASE x = e
  <2>1. {i \in DOMAIN <<x>> : <<x>>[i] = e} = {1}
    BY <1>1, <1>2
  <2> QED BY <1>1, <1>2, <2>1, FS_Singleton DEF Count, One, Has
<1>3. CASE x # e
  <2>1. {i \in DOMAIN <<x>> : <<x>>[i] = e} = {}
    BY <1>1, <1>3
  <2> QED BY <1>1, <1>3, <2>1, FS_EmptySet DEF Count, One, Has
<1> QED BY <1>2, <1>3

(* The first entry, and the others. *)
LEMMA CountTail ==
  ASSUME NEW S, NEW q \in Seq(S), q # <<>>, NEW e
  PROVE  /\ Count(q, e) = One(q[1] = e) + Count(Tail(q), e)
         /\ Has(q, e) <=> q[1] = e \/ Has(Tail(q), e)
<1>1. /\ <<q[1]>> \in Seq(S) /\ Tail(q) \in Seq(S) /\ q = <<q[1]>> \o Tail(q)
  OBVIOUS
<1> DEFINE a == <<q[1]>>
           b == Tail(q)
<1>2. Count(a, e) = One(q[1] = e) /\ (Has(a, e) <=> q[1] = e)
  BY CountSingle
<1>3. a \in Seq(S) /\ b \in Seq(S) /\ q = a \o b
  BY <1>1
<1> HIDE DEF a, b
<1>4. Count(a \o b, e) = Count(a, e) + Count(b, e) /\ (Has(a \o b, e) <=> Has(a, e) \/ Has(b, e))
  BY <1>3, CountConcat
<1> QED BY <1>2, <1>3, <1>4 DEF b

(* The places of f in the buffers, and those that are not in socket s. *)
Places(rcv, A, f) == UNION {{s} \X {i \in DOMAIN rcv[s] : rcv[s][i] = f} : s \in A}

InBuf(f) == Cardinality(Places(so_rcv, Files, f))

(* A place is a socket and a position in its buffer. *)
LEMMA PlacesMember ==
  ASSUME NEW rcv, NEW A, NEW f, NEW p
  PROVE  p \in Places(rcv, A, f) <=>
           \E s \in A : \E i \in DOMAIN rcv[s] : rcv[s][i] = f /\ p = <<s, i>>
  BY DEF Places

(* There are finitely many. *)
LEMMA PlacesFinite ==
  ASSUME NEW rcv \in [Files -> Seq(Files)], NEW A \in SUBSET Files, NEW f
  PROVE  IsFiniteSet(Places(rcv, A, f)) /\ Cardinality(Places(rcv, A, f)) \in Nat
<1> DEFINE part == [s \in A |-> {s} \X {i \in DOMAIN rcv[s] : rcv[s][i] = f}]
           parts == {{s} \X {i \in DOMAIN rcv[s] : rcv[s][i] = f} : s \in A}
<1>1. IsFiniteSet(A)
  <2>1. IsFiniteSet(Files)
    BY TableAssumption, FS_Interval DEF Files
  <2> QED BY <2>1, FS_Subset
<1>2. part \in Surjection(A, parts)
  <2>1. part \in [A -> parts] /\ \A t \in parts : \E s \in A : part[s] = t
    OBVIOUS
  <2> HIDE DEF part, parts
  <2> QED BY <2>1, Fun_IsSurj
<1>3. IsFiniteSet(parts)
  <2> HIDE DEF part, parts
  <2> QED BY <1>1, <1>2, FS_Surjection
<1>4. ASSUME NEW s \in A
      PROVE  IsFiniteSet({s} \X {i \in DOMAIN rcv[s] : rcv[s][i] = f})
  <2>1. IsFiniteSet({i \in DOMAIN rcv[s] : rcv[s][i] = f})
    BY CountFinite
  <2> QED BY <2>1, FS_Singleton, FS_Product
<1>5. IsFiniteSet(UNION parts)
  <2>1. \A T \in parts : IsFiniteSet(T)
    BY <1>4
  <2> HIDE DEF parts
  <2> QED BY <1>3, <2>1, FS_UNION
<1> QED BY <1>5, FS_CardinalityType DEF Places

(* The places in socket s are counted in its buffer. *)
LEMMA PlacesSplit ==
  ASSUME NEW rcv \in [Files -> Seq(Files)], NEW s \in Files, NEW f
  PROVE  Cardinality(Places(rcv, Files, f)) =
           Count(rcv[s], f) + Cardinality(Places(rcv, Files \ {s}, f))
<1> DEFINE all == Places(rcv, Files, f)
           rest == Places(rcv, Files \ {s}, f)
           here == {i \in DOMAIN rcv[s] : rcv[s][i] = f}
           T == all \ rest
           at == [i \in here |-> <<s, i>>]
<1>1. IsFiniteSet(all) /\ IsFiniteSet(rest)
      /\ Cardinality(all) \in Nat /\ Cardinality(rest) \in Nat
  BY PlacesFinite
<1>2. IsFiniteSet(here)
  BY CountFinite
<1>3. all \cap rest = rest
  BY PlacesMember
<1>4. at \in [here -> T]
  BY PlacesMember
<1>5. \A i, j \in here : at[i] = at[j] => i = j
  OBVIOUS
<1>6. \A p \in T : \E i \in here : at[i] = p
  <2> SUFFICES ASSUME NEW p \in T PROVE \E i \in here : at[i] = p
    OBVIOUS
  <2>1. PICK u \in Files : \E i \in DOMAIN rcv[u] : rcv[u][i] = f /\ p = <<u, i>>
    BY PlacesMember
  <2>2. PICK i \in DOMAIN rcv[u] : rcv[u][i] = f /\ p = <<u, i>>
    BY <2>1
  <2>3. u = s
    BY <2>2, PlacesMember
  <2> QED BY <2>2, <2>3
<1> HIDE DEF all, rest, here, T, at
<1>7. ExistsBijection(here, T)
  BY <1>4, <1>5, <1>6, Fun_IsBij, Zenon DEF ExistsBijection
<1>8. Cardinality(T) = Cardinality(here)
  BY <1>2, <1>7, FS_Bijection
<1>9. Cardinality(T) = Cardinality(all) - Cardinality(rest)
  BY <1>1, <1>3, FS_Difference DEF T
<1> QED BY <1>1, <1>8, <1>9 DEF Count, here, all, rest

(* When the buffer of s changes. *)
LEMMA PlacesChange ==
  ASSUME NEW rcv \in [Files -> Seq(Files)], NEW s \in Files, NEW q \in Seq(Files), NEW f
  PROVE  Cardinality(Places([rcv EXCEPT ![s] = q], Files, f)) + Count(rcv[s], f) =
           Cardinality(Places(rcv, Files, f)) + Count(q, f)
<1> DEFINE r == [rcv EXCEPT ![s] = q]
<1>1. r \in [Files -> Seq(Files)] /\ r[s] = q /\ \A u \in Files \ {s} : r[u] = rcv[u]
  OBVIOUS
<1> HIDE DEF r
<1>2. Places(r, Files \ {s}, f) = Places(rcv, Files \ {s}, f)
  <2>1. ASSUME NEW p
        PROVE  p \in Places(r, Files \ {s}, f) <=> p \in Places(rcv, Files \ {s}, f)
    BY <1>1, PlacesMember
  <2> QED BY <2>1
<1>3. /\ Cardinality(Places(r, Files, f)) = Count(r[s], f) + Cardinality(Places(r, Files \ {s}, f))
      /\ Cardinality(Places(rcv, Files, f)) =
           Count(rcv[s], f) + Cardinality(Places(rcv, Files \ {s}, f))
  BY <1>1, PlacesSplit
<1>4. /\ Count(rcv[s], f) \in Nat /\ Count(q, f) \in Nat
      /\ Cardinality(Places(rcv, Files \ {s}, f)) \in Nat
  <2>1. rcv[s] \in Seq(Files)
    OBVIOUS
  <2> QED BY <2>1, CountFinite, PlacesFinite
<1> QED BY <1>1, <1>2, <1>3, <1>4 DEF r

(* There are none if no buffer has the file. *)
LEMMA PlacesNone ==
  ASSUME NEW rcv \in [Files -> Seq(Files)], NEW f
  PROVE  Cardinality(Places(rcv, Files, f)) = 0 <=> \A s \in Files : ~Has(rcv[s], f)
<1>1. Places(rcv, Files, f) = {} <=> \A s \in Files : ~Has(rcv[s], f)
  <2>1. ASSUME NEW s \in Files, Has(rcv[s], f) PROVE Places(rcv, Files, f) # {}
    <3>1. PICK i \in DOMAIN rcv[s] : rcv[s][i] = f
      BY <2>1 DEF Has
    <3>2. <<s, i>> \in Places(rcv, Files, f)
      BY <3>1, PlacesMember
    <3> QED BY <3>2
  <2>2. ASSUME Places(rcv, Files, f) # {} PROVE \E s \in Files : Has(rcv[s], f)
    <3>1. PICK p : p \in Places(rcv, Files, f)
      BY <2>2
    <3> QED BY <3>1, PlacesMember DEF Has
  <2> QED BY <2>1, <2>2
<1> QED BY <1>1, PlacesFinite, FS_EmptySet

-----------------------------------------------------------------------------
(* The work of a call.                                                     *)

Calls == {"unp_discard", "closef", "detach", "discard", "closed", "drain"}
Loops == {"mark", "sweep"}
Steps == [do : Calls, f : Files] \cup [do : Loops, f : 1 .. NFILE + 1]

(* The pieces of work and the files they are for. *)
LEMMA StepFacts ==
  /\ \A d, f : Step(d, f).do = d /\ Step(d, f).f = f
  /\ \A d \in Calls, f \in Files : Step(d, f) \in Steps
  /\ \A d \in Loops, f \in 1 .. NFILE + 1 : Step(d, f) \in Steps
  /\ \A x \in Steps : /\ x = Step(x.do, x.f) /\ x.do \in Calls \cup Loops
                      /\ x.do \in Calls => x.f \in Files
                      /\ x.do \in Loops => x.f \in 1 .. NFILE + 1
  /\ \A d, f, c, g : Step(d, f) = Step(c, g) <=> d = c /\ f = g
BY DEF Step, Steps, Calls, Loops

(* A piece of work is what it does and the file. *)
LEMMA StepIs == ASSUME NEW x \in Steps PROVE x = Step(x.do, x.f)
BY DEF Step, Steps

(* Two pieces of work are the same if they do the same to the same file. *)
LEMMA StepEq ==
  /\ \A d, f : Step(d, f).do = d /\ Step(d, f).f = f
  /\ \A d, f, c, g : Step(d, f) = Step(c, g) <=> d = c /\ f = g
BY DEF Step

(* What is begun first is done first: closef(), soclose()'s detach and the *)
(* marking leave nothing above them.                                       *)
Inner(w) == \A i \in DOMAIN w : w[i].do \notin {"closef", "detach", "mark"}

(* soclose() goes from detach to discard to the end of closef(); the       *)
(* references of one file are drained at a time; and while the collector   *)
(* sweeps, the files being closed are unmarked if it closes them, and      *)
(* marked if they were being closed when it began.                         *)
ShapeOf(w, mark) ==
  /\ \A i \in DOMAIN w : i > 1 => w[i].do \notin {"closef", "detach", "mark"}
  /\ \A i, j \in DOMAIN w : w[i].do = "sweep" /\ w[j].do = "sweep" => i = j
  /\ \A i, j \in DOMAIN w : w[i].do = "closed" /\ w[j] = w[i] => i = j
  /\ \A i \in DOMAIN w :
        /\ w[i].do = "detach" => i + 1 \in DOMAIN w /\ w[i + 1] = Step("discard", w[i].f)
        /\ w[i].do = "discard" => i + 1 \in DOMAIN w /\ w[i + 1] = Step("closed", w[i].f)
        /\ w[i].do = "drain" => /\ i + 1 \in DOMAIN w /\ w[i + 1] = Step("sweep", w[i].f + 1)
                                /\ w[i].f \notin mark
        /\ w[i].do = "sweep" /\ i > 1 => w[i - 1].do = "drain"
  /\ \A i, k \in DOMAIN w :
        w[k].do = "sweep" /\ w[i].do \in {"closed", "discard"} => (i > k <=> w[i].f \in mark)

(* What may be put on top of t. *)
Fits(x, t, mark) ==
  /\ x.do = "detach" => t # <<>> /\ t[1] = Step("discard", x.f)
  /\ x.do = "discard" => t # <<>> /\ t[1] = Step("closed", x.f)
  /\ x.do = "drain" => t # <<>> /\ t[1] = Step("sweep", x.f + 1) /\ x.f \notin mark
  /\ x.do # "drain" => t = <<>> \/ t[1].do # "sweep"
  /\ x.do = "closed" => ~Has(t, x)
  /\ x.do \in {"closed", "discard"} =>
        x.f \notin mark \/ \A i \in DOMAIN t : t[i].do # "sweep"
  /\ x.do = "sweep" => \A i \in DOMAIN t :
        /\ t[i].do # "sweep"
        /\ t[i].do \in {"closed", "discard"} => t[i].f \in mark

(* The rest of the work has the shape too. *)
LEMMA ShapeTail ==
  ASSUME NEW w \in Seq(Steps), w # <<>>, NEW mark, ShapeOf(w, mark)
  PROVE  ShapeOf(Tail(w), mark) /\ Inner(Tail(w))
<1> DEFINE t == Tail(w)
<1>1. /\ Len(w) \in Nat /\ DOMAIN w = 1 .. Len(w) /\ Len(w) > 0
      /\ t \in Seq(Steps) /\ DOMAIN t = 1 .. Len(w) - 1
      /\ \A i \in 1 .. Len(w) - 1 : t[i] = w[i + 1] /\ i + 1 \in DOMAIN w
  OBVIOUS
<1> HIDE DEF t
<1>2. Inner(t)
  BY <1>1 DEF Inner, ShapeOf
<1>3. \A i, j \in DOMAIN t : t[i].do = "sweep" /\ t[j].do = "sweep" => i = j
  <2> TAKE i \in DOMAIN t, j \in DOMAIN t
  <2>1. t[i] = w[i + 1] /\ i + 1 \in DOMAIN w /\ t[j] = w[j + 1] /\ j + 1 \in DOMAIN w
    BY <1>1
  <2>2. w[i + 1].do = "sweep" /\ w[j + 1].do = "sweep" => i + 1 = j + 1
    BY <2>1 DEF ShapeOf
  <2> QED BY <1>1, <2>1, <2>2
<1>4. \A i, j \in DOMAIN t : t[i].do = "closed" /\ t[j] = t[i] => i = j
  <2> TAKE i \in DOMAIN t, j \in DOMAIN t
  <2>1. t[i] = w[i + 1] /\ i + 1 \in DOMAIN w /\ t[j] = w[j + 1] /\ j + 1 \in DOMAIN w
    BY <1>1
  <2>2. w[i + 1].do = "closed" /\ w[j + 1] = w[i + 1] => i + 1 = j + 1
    BY <2>1 DEF ShapeOf
  <2> QED BY <1>1, <2>1, <2>2
<1>5. \A i \in DOMAIN t :
        /\ t[i].do = "detach" => i + 1 \in DOMAIN t /\ t[i + 1] = Step("discard", t[i].f)
        /\ t[i].do = "discard" => i + 1 \in DOMAIN t /\ t[i + 1] = Step("closed", t[i].f)
        /\ t[i].do = "drain" => /\ i + 1 \in DOMAIN t /\ t[i + 1] = Step("sweep", t[i].f + 1)
                                /\ t[i].f \notin mark
        /\ t[i].do = "sweep" /\ i > 1 => t[i - 1].do = "drain"
  BY <1>1 DEF ShapeOf
<1>6. \A i, k \in DOMAIN t :
        t[k].do = "sweep" /\ t[i].do \in {"closed", "discard"} => (i > k <=> t[i].f \in mark)
  <2> TAKE i \in DOMAIN t, k \in DOMAIN t
  <2>1. t[i] = w[i + 1] /\ i + 1 \in DOMAIN w /\ t[k] = w[k + 1] /\ k + 1 \in DOMAIN w
    BY <1>1
  <2>2. w[k + 1].do = "sweep" /\ w[i + 1].do \in {"closed", "discard"}
          => (i + 1 > k + 1 <=> w[i + 1].f \in mark)
    BY <2>1 DEF ShapeOf
  <2> QED BY <1>1, <2>1, <2>2
<1> QED BY <1>2, <1>3, <1>4, <1>5, <1>6 DEF ShapeOf, Inner, t

(* Something that fits is put on top. *)
LEMMA ShapePush ==
  ASSUME NEW t \in Seq(Steps), NEW mark, ShapeOf(t, mark), Inner(t), NEW x \in Steps,
         Fits(x, t, mark)
  PROVE  /\ ShapeOf(<<x>> \o t, mark) /\ <<x>> \o t \in Seq(Steps)
         /\ x.do \notin {"closef", "detach", "mark"} => Inner(<<x>> \o t)
<1> DEFINE w == <<x>> \o t
<1>1. /\ Len(t) \in Nat /\ DOMAIN t = 1 .. Len(t)
      /\ w \in Seq(Steps) /\ DOMAIN w = 1 .. Len(t) + 1 /\ w[1] = x
      /\ \A i \in 2 .. Len(t) + 1 : w[i] = t[i - 1] /\ i - 1 \in DOMAIN t
      /\ t # <<>> => 1 \in DOMAIN t
  OBVIOUS
<1> HIDE DEF w
<1>2. \A i \in DOMAIN w : i = 1 \/ i \in 2 .. Len(t) + 1
  BY <1>1
<1>3. \A i \in DOMAIN w : i > 1 => w[i].do \notin {"closef", "detach", "mark"}
  BY <1>1 DEF Inner
<1>4. \A i, j \in DOMAIN w : w[i].do = "sweep" /\ w[j].do = "sweep" => i = j
  <2> TAKE i \in DOMAIN w, j \in DOMAIN w
  <2>1. CASE i = 1 \/ j = 1
    BY <1>1, <1>2, <2>1 DEF Fits
  <2>2. CASE i \in 2 .. Len(t) + 1 /\ j \in 2 .. Len(t) + 1
    <3>1. /\ w[i] = t[i - 1] /\ i - 1 \in DOMAIN t /\ w[j] = t[j - 1] /\ j - 1 \in DOMAIN t
      BY <1>1, <2>2
    <3>2. t[i - 1].do = "sweep" /\ t[j - 1].do = "sweep" => i - 1 = j - 1
      BY <3>1 DEF ShapeOf
    <3> QED BY <1>1, <2>2, <3>1, <3>2
  <2> QED BY <1>2, <2>1, <2>2
<1>5. \A i, j \in DOMAIN w : w[i].do = "closed" /\ w[j] = w[i] => i = j
  <2> TAKE i \in DOMAIN w, j \in DOMAIN w
  <2>1. CASE i = 1 \/ j = 1
    BY <1>1, <1>2, <2>1 DEF Fits, Has
  <2>2. CASE i \in 2 .. Len(t) + 1 /\ j \in 2 .. Len(t) + 1
    <3>1. /\ w[i] = t[i - 1] /\ i - 1 \in DOMAIN t /\ w[j] = t[j - 1] /\ j - 1 \in DOMAIN t
      BY <1>1, <2>2
    <3>2. t[i - 1].do = "closed" /\ t[j - 1] = t[i - 1] => i - 1 = j - 1
      BY <3>1 DEF ShapeOf
    <3> QED BY <1>1, <2>2, <3>1, <3>2
  <2> QED BY <1>2, <2>1, <2>2
<1>6. ASSUME NEW i \in DOMAIN w
      PROVE  /\ w[i].do = "detach" => i + 1 \in DOMAIN w /\ w[i + 1] = Step("discard", w[i].f)
             /\ w[i].do = "discard" => i + 1 \in DOMAIN w /\ w[i + 1] = Step("closed", w[i].f)
             /\ w[i].do = "drain" => /\ i + 1 \in DOMAIN w /\ w[i + 1] = Step("sweep", w[i].f + 1)
                                     /\ w[i].f \notin mark
             /\ w[i].do = "sweep" /\ i > 1 => w[i - 1].do = "drain"
  <2>1. CASE i = 1
    <3>1. t # <<>> => 2 \in DOMAIN w /\ w[2] = t[1]
      BY <1>1
    <3> QED BY <1>1, <2>1, <3>1 DEF Fits
  <2>2. CASE i \in 2 .. Len(t) + 1
    <3>1. CASE i = 2
      <4>1. t # <<>> /\ w[2] = t[1] /\ 1 \in DOMAIN t
        BY <1>1, <3>1
      <4>2. w[2].do = "sweep" => x.do = "drain"
        BY <4>1 DEF Fits
      <4>3. \A j \in DOMAIN t : j + 1 \in DOMAIN t => w[j + 2] = t[j + 1] /\ j + 2 \in DOMAIN w
        BY <1>1
      <4> QED BY <1>1, <3>1, <4>1, <4>2, <4>3 DEF ShapeOf
    <3>2. CASE i > 2
      <4>1. /\ i - 1 \in DOMAIN t /\ w[i] = t[i - 1] /\ i - 1 > 1
            /\ i - 1 \in 2 .. Len(t) + 1 /\ (i - 1) + 1 = i
        BY <1>1, <2>2, <3>2
      <4>2. w[i - 1] = t[(i - 1) - 1]
        BY <1>1, <4>1
      <4>3. i \in DOMAIN t => w[i + 1] = t[i] /\ i + 1 \in DOMAIN w
        BY <1>1
      <4> QED BY <4>1, <4>2, <4>3 DEF ShapeOf
    <3> QED BY <2>2, <3>1, <3>2
  <2> QED BY <1>2, <2>1, <2>2
<1>7. \A i, k \in DOMAIN w :
        w[k].do = "sweep" /\ w[i].do \in {"closed", "discard"} => (i > k <=> w[i].f \in mark)
  <2> SUFFICES ASSUME NEW i \in DOMAIN w, NEW k \in DOMAIN w, w[k].do = "sweep",
                      w[i].do \in {"closed", "discard"}
               PROVE  i > k <=> w[i].f \in mark
    OBVIOUS
  <2>1. CASE i = 1
    BY <1>1, <1>2, <2>1, SMTT(30) DEF Fits
  <2>2. CASE i \in 2 .. Len(t) + 1 /\ k = 1
    BY <1>1, <2>2 DEF Fits
  <2>3. CASE i \in 2 .. Len(t) + 1 /\ k \in 2 .. Len(t) + 1
    BY <1>1, <2>3 DEF ShapeOf
  <2> QED BY <1>2, <2>1, <2>2, <2>3
<1>8. x.do \notin {"closef", "detach", "mark"} => Inner(w)
  BY <1>1, <1>2 DEF Inner
<1> QED BY <1>1, <1>3, <1>4, <1>5, <1>6, <1>7, <1>8 DEF ShapeOf, w

(* The rights of a buffer on top of t. *)
LEMMA ShapeDiscards ==
  ASSUME NEW t \in Seq(Steps), NEW mark, ShapeOf(t, mark), Inner(t), NEW d \in Seq(Steps),
         \A i \in DOMAIN d : d[i].do = "unp_discard", t = <<>> \/ t[1].do # "sweep"
  PROVE  ShapeOf(d \o t, mark) /\ d \o t \in Seq(Steps)
<1> DEFINE w == d \o t
           n == Len(d)
<1>1. /\ Len(t) \in Nat /\ DOMAIN t = 1 .. Len(t) /\ n \in Nat /\ DOMAIN d = 1 .. n
      /\ w \in Seq(Steps) /\ DOMAIN w = 1 .. n + Len(t)
      /\ \A i \in 1 .. n : w[i] = d[i] /\ w[i].do = "unp_discard"
      /\ \A i \in n + 1 .. n + Len(t) : w[i] = t[i - n] /\ i - n \in DOMAIN t
  OBVIOUS
<1> HIDE DEF w, n
<1>2. \A i \in DOMAIN w : i \in 1 .. n \/ i \in n + 1 .. n + Len(t)
  BY <1>1
<1>3. \A i \in DOMAIN w : i > 1 => w[i].do \notin {"closef", "detach", "mark"}
  BY <1>1, <1>2 DEF Inner
<1>4. \A i, j \in DOMAIN w : w[i].do = "sweep" /\ w[j].do = "sweep" => i = j
  <2> SUFFICES ASSUME NEW i \in DOMAIN w, NEW j \in DOMAIN w, w[i].do = "sweep", w[j].do = "sweep"
               PROVE  i = j
    OBVIOUS
  <2>1. i \in n + 1 .. n + Len(t) /\ j \in n + 1 .. n + Len(t)
    BY <1>1, <1>2
  <2>2. w[i] = t[i - n] /\ i - n \in DOMAIN t /\ w[j] = t[j - n] /\ j - n \in DOMAIN t
    BY <1>1, <2>1
  <2>3. i - n = j - n
    BY <2>2 DEF ShapeOf
  <2> QED BY <1>1, <2>1, <2>3
<1>5. \A i, j \in DOMAIN w : w[i].do = "closed" /\ w[j] = w[i] => i = j
  <2> SUFFICES ASSUME NEW i \in DOMAIN w, NEW j \in DOMAIN w, w[i].do = "closed", w[j] = w[i]
               PROVE  i = j
    OBVIOUS
  <2>1. i \in n + 1 .. n + Len(t) /\ j \in n + 1 .. n + Len(t)
    BY <1>1, <1>2
  <2>2. w[i] = t[i - n] /\ i - n \in DOMAIN t /\ w[j] = t[j - n] /\ j - n \in DOMAIN t
    BY <1>1, <2>1
  <2>3. i - n = j - n
    BY <2>2 DEF ShapeOf
  <2> QED BY <1>1, <2>1, <2>3
<1>6. ASSUME NEW i \in DOMAIN w
      PROVE  /\ w[i].do = "detach" => i + 1 \in DOMAIN w /\ w[i + 1] = Step("discard", w[i].f)
             /\ w[i].do = "discard" => i + 1 \in DOMAIN w /\ w[i + 1] = Step("closed", w[i].f)
             /\ w[i].do = "drain" => /\ i + 1 \in DOMAIN w /\ w[i + 1] = Step("sweep", w[i].f + 1)
                                     /\ w[i].f \notin mark
             /\ w[i].do = "sweep" /\ i > 1 => w[i - 1].do = "drain"
  <2>1. CASE i \in 1 .. n
    BY <1>1, <2>1
  <2>2. CASE i \in n + 1 .. n + Len(t)
    <3> DEFINE j == i - n
    <3>1. w[i] = t[j] /\ j \in DOMAIN t /\ i = j + n /\ j \in Nat
      BY <1>1, <2>2
    <3>2. j + 1 \in DOMAIN t => w[i + 1] = t[j + 1] /\ i + 1 \in DOMAIN w
      <4>1. ASSUME j + 1 \in DOMAIN t PROVE i + 1 \in n + 1 .. n + Len(t) /\ (i + 1) - n = j + 1
        BY <1>1, <2>2, <4>1
      <4> QED BY <1>1, <4>1
    <3>3. j > 1 => w[i - 1] = t[j - 1]
      <4>1. ASSUME j > 1 PROVE i - 1 \in n + 1 .. n + Len(t) /\ (i - 1) - n = j - 1
        BY <1>1, <2>2, <4>1
      <4> QED BY <1>1, <4>1
    <3>4. j = 1 => t[j].do # "sweep"
      BY <1>1, <3>1
    <3>5. j = 1 \/ j > 1
      BY <1>1, <2>2
    <3> HIDE DEF j
    <3> QED BY <3>1, <3>2, <3>3, <3>4, <3>5 DEF ShapeOf
  <2> QED BY <1>2, <2>1, <2>2
<1>7. \A i, k \in DOMAIN w :
        w[k].do = "sweep" /\ w[i].do \in {"closed", "discard"} => (i > k <=> w[i].f \in mark)
  <2> SUFFICES ASSUME NEW i \in DOMAIN w, NEW k \in DOMAIN w, w[k].do = "sweep",
                      w[i].do \in {"closed", "discard"}
               PROVE  i > k <=> w[i].f \in mark
    OBVIOUS
  <2>1. i \in n + 1 .. n + Len(t) /\ k \in n + 1 .. n + Len(t)
    BY <1>1, <1>2
  <2>2. w[i] = t[i - n] /\ i - n \in DOMAIN t /\ w[k] = t[k - n] /\ k - n \in DOMAIN t
    BY <1>1, <2>1
  <2>3. i - n > k - n <=> w[i].f \in mark
    BY <2>2 DEF ShapeOf
  <2> QED BY <1>1, <2>1, <2>3
<1> QED BY <1>1, <1>3, <1>4, <1>5, <1>6, <1>7 DEF ShapeOf, w

(* What the shape says of the piece of work under way, and of the rest. *)
LEMMA ShapeFacts ==
  ASSUME NEW w \in Seq(Steps), w # <<>>, NEW mark, ShapeOf(w, mark)
  PROVE  /\ w[1] \in Steps /\ Tail(w) \in Seq(Steps) /\ Head(w) = w[1]
         /\ w[1].do = "sweep" =>
              /\ \A n : Has(w, Step("sweep", n)) => w[1] = Step("sweep", n)
              /\ \A n : ~Has(Tail(w), Step("sweep", n))
              /\ \A f : Has(w, Step("closed", f)) \/ Has(w, Step("discard", f)) => f \in mark
         /\ w[1].do = "drain" =>
              /\ Tail(w) # <<>> /\ Tail(w)[1] = Step("sweep", w[1].f + 1) /\ w[1].f \notin mark
              /\ \A n : Has(w, Step("sweep", n)) => n = w[1].f + 1
              /\ \A f : Has(w, Step("closed", f)) \/ Has(w, Step("discard", f)) => f \in mark
         /\ w[1].do \in {"closed", "discard"} =>
              w[1].f \notin mark \/ \A n : ~Has(w, Step("sweep", n))
         /\ w[1].do \notin {"drain", "sweep"} => Tail(w) = <<>> \/ Tail(w)[1].do # "sweep"
         /\ w[1].do = "detach" => Tail(w) # <<>> /\ Tail(w)[1] = Step("discard", w[1].f)
         /\ w[1].do = "discard" => Tail(w) # <<>> /\ Tail(w)[1] = Step("closed", w[1].f)
         /\ w[1].do = "closed" => ~Has(Tail(w), w[1]) /\ ~Has(w, Step("discard", w[1].f))
         /\ w[1].do = "discard" => ~Has(Tail(w), w[1])
         /\ \A f : Has(w, Step("discard", f)) => Has(w, Step("closed", f))
<1> DEFINE t == Tail(w)
<1>0. /\ Len(w) \in Nat /\ DOMAIN w = 1 .. Len(w) /\ Len(w) > 0
      /\ w[1] \in Steps /\ Head(w) = w[1]
      /\ t \in Seq(Steps) /\ Len(t) = Len(w) - 1 /\ DOMAIN t = 1 .. Len(w) - 1
      /\ \A i \in 1 .. Len(w) - 1 : t[i] = w[i + 1]
  OBVIOUS
<1> HIDE DEF t
<1>1. /\ Len(w) \in Nat /\ DOMAIN w = 1 .. Len(w) /\ 1 \in DOMAIN w
      /\ w[1] \in Steps /\ Head(w) = w[1]
      /\ t \in Seq(Steps) /\ DOMAIN t = 1 .. Len(w) - 1
      /\ 2 \in DOMAIN w => t # <<>> /\ t[1] = w[2]
      /\ t # <<>> => 2 \in DOMAIN w
  <2>1. t # <<>> <=> Len(t) > 0
    BY <1>0
  <2>2. 2 \in DOMAIN w => 1 \in 1 .. Len(w) - 1 /\ 1 + 1 = 2
    BY <1>0
  <2> QED BY <1>0, <2>1, <2>2
<1>h. \A e : Has(t, e) => \E i \in DOMAIN w : i > 1 /\ w[i] = e
  <2> SUFFICES ASSUME NEW e, NEW i \in DOMAIN t, t[i] = e PROVE \E j \in DOMAIN w : j > 1 /\ w[j] = e
    BY DEF Has
  <2>1. i + 1 \in DOMAIN w /\ i + 1 > 1 /\ w[i + 1] = e
    BY <1>0
  <2> QED BY <2>1
<1>2. ASSUME w[1].do = "sweep"
      PROVE  /\ \A n : Has(w, Step("sweep", n)) => w[1] = Step("sweep", n)
             /\ \A n : ~Has(t, Step("sweep", n))
             /\ \A f : Has(w, Step("closed", f)) \/ Has(w, Step("discard", f)) => f \in mark
  <2>1. \A i \in DOMAIN w : w[i].do = "sweep" => i = 1
    BY <1>1, <1>2 DEF ShapeOf
  <2>2. \A i \in DOMAIN w : w[i].do \in {"closed", "discard"} => (i > 1 <=> w[i].f \in mark)
    BY <1>1, <1>2 DEF ShapeOf
  <2>3. \A i \in DOMAIN w : w[i].do \in {"closed", "discard"} => i > 1
    BY <1>1, <1>2
  <2>4. \A n : Has(w, Step("sweep", n)) => w[1] = Step("sweep", n)
    BY <2>1, StepFacts DEF Has
  <2>5. \A n : ~Has(t, Step("sweep", n))
    BY <1>1, <1>h, <2>1, StepFacts
  <2>6. \A f : Has(w, Step("closed", f)) \/ Has(w, Step("discard", f)) => f \in mark
    BY <2>2, <2>3, StepFacts DEF Has
  <2> QED BY <2>4, <2>5, <2>6
<1>3. ASSUME w[1].do = "drain"
      PROVE  /\ t # <<>> /\ t[1] = Step("sweep", w[1].f + 1) /\ w[1].f \notin mark
             /\ \A n : Has(w, Step("sweep", n)) => n = w[1].f + 1
             /\ \A f : Has(w, Step("closed", f)) \/ Has(w, Step("discard", f)) => f \in mark
  <2>1. 2 \in DOMAIN w /\ w[2] = Step("sweep", w[1].f + 1) /\ w[1].f \notin mark
    <3>1. 1 + 1 = 2
      OBVIOUS
    <3> QED BY <1>1, <1>3, <3>1 DEF ShapeOf
  <2>2. \A i \in DOMAIN w : w[i].do = "sweep" => i = 2
    BY <2>1, StepFacts DEF ShapeOf
  <2>3. \A i \in DOMAIN w : w[i].do \in {"closed", "discard"} => (i > 2 <=> w[i].f \in mark)
    BY <2>1, StepFacts DEF ShapeOf
  <2>4. \A i \in DOMAIN w : w[i].do \in {"closed", "discard"} => i > 2
    <3>1. w[2].do = "sweep"
      BY <2>1, StepFacts
    <3> QED BY <1>1, <1>3, <3>1
  <2>5. t # <<>> /\ t[1] = w[2]
    BY <1>1, <2>1
  <2> QED BY <2>1, <2>2, <2>3, <2>4, <2>5, StepFacts DEF Has
<1>4. ASSUME w[1].do \in {"closed", "discard"}
      PROVE  w[1].f \notin mark \/ \A n : ~Has(w, Step("sweep", n))
  <2>1. \A k \in DOMAIN w : w[k].do = "sweep" => (1 > k <=> w[1].f \in mark) /\ ~(1 > k)
    BY <1>1, <1>4 DEF ShapeOf
  <2> QED BY <2>1, StepFacts DEF Has
<1>5. ASSUME w[1].do \notin {"drain", "sweep"} PROVE t = <<>> \/ t[1].do # "sweep"
  <2>1. 2 \in DOMAIN w => w[2].do # "sweep"
    <3>1. 2 > 1 /\ 2 - 1 = 1
      OBVIOUS
    <3> QED BY <1>5, <3>1 DEF ShapeOf
  <2> QED BY <1>1, <2>1
<1>6. /\ w[1].do = "detach" => t # <<>> /\ t[1] = Step("discard", w[1].f)
      /\ w[1].do = "discard" => t # <<>> /\ t[1] = Step("closed", w[1].f)
  <2>1. 1 + 1 = 2
    OBVIOUS
  <2> QED BY <1>1, <2>1 DEF ShapeOf
<1>7. ASSUME w[1].do = "closed" PROVE ~Has(t, w[1]) /\ ~Has(w, Step("discard", w[1].f))
  <2>1. \A i \in DOMAIN w : w[i] = w[1] => i = 1
    BY <1>1, <1>7 DEF ShapeOf
  <2>2. ASSUME NEW i \in DOMAIN w, w[i] = Step("discard", w[1].f) PROVE FALSE
    <3>1. i + 1 \in DOMAIN w /\ w[i + 1] = Step("closed", w[1].f)
      BY <2>2, StepFacts DEF ShapeOf
    <3>2. w[i + 1] = w[1]
      <4>1. w[1] = Step(w[1].do, w[1].f)
        BY <1>1, StepIs
      <4> QED BY <1>7, <3>1, <4>1
    <3>3. i + 1 = 1
      BY <2>1, <3>1, <3>2
    <3> QED BY <1>1, <3>3
  <2>3. ~Has(t, w[1])
    BY <1>1, <1>h, <2>1
  <2> QED BY <2>2, <2>3 DEF Has
<1>8. ASSUME w[1].do = "discard" PROVE ~Has(t, w[1])
  <2>1. ASSUME NEW i \in DOMAIN w, i > 1, w[i] = w[1] PROVE FALSE
    <3>1. i + 1 \in DOMAIN w /\ w[i + 1] = Step("closed", w[1].f)
      BY <1>8, <2>1 DEF ShapeOf
    <3>2. 1 + 1 \in DOMAIN w /\ w[1 + 1] = Step("closed", w[1].f)
      BY <1>1, <1>8 DEF ShapeOf
    <3>3. i + 1 = 1 + 1
      BY <3>1, <3>2, StepFacts DEF ShapeOf
    <3> QED BY <1>1, <2>1, <3>3
  <2> QED BY <1>h, <2>1
<1>9. \A f : Has(w, Step("discard", f)) => Has(w, Step("closed", f))
  BY <1>1, StepFacts DEF Has, ShapeOf
<1> QED BY <1>1, <1>2, <1>3, <1>4, <1>5, <1>6, <1>7, <1>8, <1>9 DEF t

(* The marks say nothing of a call in which nothing is swept. *)
LEMMA ShapeMark ==
  ASSUME NEW w \in Seq(Steps), NEW mark, NEW mark2, ShapeOf(w, mark),
         \A n : ~Has(w, Step("sweep", n))
  PROVE  ShapeOf(w, mark2)
<1>1. \A i \in DOMAIN w : w[i] \in Steps
  OBVIOUS
<1>2. \A i \in DOMAIN w : w[i].do # "sweep"
  <2> SUFFICES ASSUME NEW i \in DOMAIN w, w[i].do = "sweep" PROVE FALSE
    OBVIOUS
  <2>1. w[i] = Step("sweep", w[i].f)
    BY <1>1, StepIs
  <2> QED BY <2>1 DEF Has
<1>3. \A i \in DOMAIN w : w[i].do # "drain"
  <2> SUFFICES ASSUME NEW i \in DOMAIN w, w[i].do = "drain" PROVE FALSE
    OBVIOUS
  <2>1. i + 1 \in DOMAIN w /\ w[i + 1] = Step("sweep", w[i].f + 1)
    BY DEF ShapeOf
  <2> QED BY <2>1 DEF Has
<1> QED BY <1>2, <1>3 DEF ShapeOf

-----------------------------------------------------------------------------
(* The invariant.                                                          *)

TypeInv ==
  /\ f_count \in [Files -> Nat] /\ f_msgcount \in [Files -> Int] /\ fds \in [Files -> Nat]
  /\ f_data \subseteq Files /\ so_pcb \subseteq Files /\ nofdref \subseteq Files
  /\ unp_conn \in [Files -> Files \cup {None}] /\ so_rcv \in [Files -> Seq(Files)]
  /\ unp_rights \in Int /\ unp_gcing \in BOOLEAN
  /\ fmark \subseteq Files /\ fdefer \subseteq Files
  /\ work \in Seq(Steps) /\ panicked \in BOOLEAN

(* What is done next, and what is still to be done. *)
AtHead(what, f) == work # <<>> /\ work[1] = Step(what, f)
ToDo(what, f)   == Has(work, Step(what, f))
Later(what, f)  == work # <<>> /\ Has(Tail(work), Step(what, f))

(* The last reference to f is being given back. *)
BeingClosed(f) == ToDo("closed", f)

(* The references to f that were taken out of a buffer to be discarded. *)
Pending(f) == Count(work, Step("unp_discard", f))

Turns    == 1 .. NFILE + 1
Marking  == \E n \in Turns : AtHead("mark", n)
Sweeping == \E n \in Turns : ToDo("sweep", n)

Shape ==
  /\ ShapeOf(work, fmark)
  /\ unp_gcing <=> Marking \/ Sweeping
  /\ Marking => ~Sweeping
  /\ ~unp_gcing => fmark = {} /\ fdefer = {}

Connected(f) ==
  unp_conn[f] # None =>
    f \in so_pcb /\ unp_conn[f] \in so_pcb /\ unp_conn[unp_conn[f]] = f

(* A file's socket lives until the end of its last closef(); it is         *)
(* detached, then marked SS_NOFDREF and emptied.                           *)
Sockets ==
  \A f \in Files :
    /\ f \in f_data <=> f_count[f] > 0
    /\ so_rcv[f] # <<>> => f_count[f] > 0
    /\ Connected(f)
    /\ f \in so_pcb => f_count[f] > 0
    /\ f \in so_pcb /\ BeingClosed(f) => AtHead("detach", f)
    /\ f \in nofdref => BeingClosed(f) /\ ~ToDo("discard", f) /\ so_rcv[f] = <<>>
    /\ BeingClosed(f) => f_count[f] = 1 /\ (f \in nofdref \/ ToDo("discard", f))

(* The references to f are the descriptors and the ones from messages, the *)
(* one that closef() is about to give back and the last one.               *)
Balanced ==
  \A f \in Files :
    f_count[f] = fds[f] + f_msgcount[f] + One(AtHead("closef", f)) + One(BeingClosed(f))

(* f_msgcount counts at least what is in buffers or was taken out of one.  *)
(* This fails for the files the collector takes; when it is done with them *)
(* they have no reference, and what is pending ends in a panic.            *)
Counted(f) == f_msgcount[f] >= InBuf(f) + Pending(f)
Doomed(f)  == f_count[f] = 0 /\ fds[f] = 0 /\ InBuf(f) = 0 /\ Pending(f) > 0

RightsCounted ==
  \A f \in Files : IF Sweeping THEN f \in fmark => Counted(f) ELSE Counted(f) \/ Doomed(f)

(* A socket that waits to be emptied is referred to by nothing else. *)
LastClose ==
  \A f \in Files : Later("discard", f) =>
    \/ AtHead("detach", f) /\ unp_gcing
    \/ InBuf(f) = 0 /\ Pending(f) = 0 /\ ~AtHead("closef", f)

(* No file is marked without a reason: a set that has the marked files     *)
(* which a process has or which are being closed, and with a marked file   *)
(* what its buffer holds, has all marked files.                            *)
Enclosed(X) ==
  /\ \A f \in fmark : Held(f) \/ BeingClosed(f) => f \in X
  /\ \A s \in X \cap fmark : \A f \in Files : Has(so_rcv[s], f) => f \in X

Grounded == \A X \in SUBSET Files : Enclosed(X) => fmark \subseteq X

(* While it marks: the buffers of the marked files were scanned, except of *)
(* those with FDEFER, and the files up to the loop's are marked if they    *)
(* must be.                                                                *)
MarkInv ==
  \A n \in Turns : AtHead("mark", n) =>
    /\ fdefer \subseteq fmark
    /\ \A s \in fmark \ fdefer : \A f \in Files : Has(so_rcv[s], f) => f \in fmark
    /\ \A f \in Files : f < n /\ f_count[f] # 0 /\ f_count[f] # f_msgcount[f] => f \in fmark

(* While it sweeps: what marked buffers hold is marked, no process has an  *)
(* unmarked file, and those before the loop's are gone, up to the one that *)
(* is being drained.                                                       *)
SweepInv ==
  \A n \in Turns : ToDo("sweep", n) =>
    /\ \A s \in fmark : \A f \in Files : Has(so_rcv[s], f) => f \in fmark
    /\ \A f \in Files \ fmark :
         /\ fds[f] = 0
         /\ f < n /\ (f + 1 = n => AtHead("sweep", n)) => f_count[f] = 0

Full == /\ Shape /\ Sockets /\ Balanced /\ RightsCounted /\ LastClose
        /\ Grounded /\ MarkInv /\ SweepInv

(* The next steps find a reference given back twice, and panic. *)
Imminent ==
  \E f \in Files :
    \/ AtHead("closef", f) /\ f_count[f] = 0
    \/ AtHead("discard", f) /\ f \in nofdref
    \/ AtHead("detach", f) /\ f \in nofdref /\ f \notin so_pcb /\ Tail(work) # <<>>
       /\ Tail(work)[1] = Step("discard", f)

USE TableAssumption

(* The number of places in buffers. *)
LEMMA InBufFacts ==
  ASSUME TypeInv, NEW f
  PROVE  InBuf(f) \in Nat /\ (InBuf(f) = 0 <=> \A s \in Files : ~Has(so_rcv[s], f))
BY PlacesFinite, PlacesNone DEF TypeInv, InBuf

(* The number of references to be discarded. *)
LEMMA PendingFacts ==
  ASSUME TypeInv, NEW f
  PROVE  Pending(f) \in Nat /\ (Pending(f) = 0 <=> ~ToDo("unp_discard", f))
BY CountFinite DEF TypeInv, Pending, ToDo

(* A marked file is a process's, or is being closed, or is in the buffer   *)
(* of another one.                                                         *)
LEMMA MarkedBy ==
  ASSUME TypeInv, Grounded, NEW f \in fmark
  PROVE  Held(f) \/ BeingClosed(f) \/ InBuf(f) > 0
<1> SUFFICES ASSUME ~Held(f), ~BeingClosed(f), ~(InBuf(f) > 0) PROVE FALSE
  OBVIOUS
<1>1. InBuf(f) = 0 /\ \A s \in Files : ~Has(so_rcv[s], f)
  BY InBufFacts
<1>2. Files \ {f} \in SUBSET Files
  OBVIOUS
<1>3. Enclosed(Files \ {f})
  BY <1>1 DEF Enclosed, TypeInv
<1> QED BY <1>2, <1>3 DEF Grounded

-----------------------------------------------------------------------------
(* System calls begin when no work is left.                                *)

(* The invariant between system calls. *)
IdleInv ==
  /\ ~unp_gcing /\ fmark = {} /\ fdefer = {} /\ nofdref = {}
  /\ \A f \in Files :
       /\ f \in f_data <=> f_count[f] > 0
       /\ so_rcv[f] # <<>> => f_count[f] > 0
       /\ Connected(f)
       /\ f \in so_pcb => f_count[f] > 0
       /\ f_count[f] = fds[f] + f_msgcount[f]
       /\ f_msgcount[f] >= InBuf(f)

(* Without work nothing is to be done. *)
LEMMA NoWork ==
  ASSUME NEW mark
  PROVE  /\ ShapeOf(<<>>, mark) /\ Inner(<<>>) /\ <<>> \in Seq(Steps)
         /\ \A e : ~Has(<<>>, e) /\ Count(<<>>, e) = 0
<1>1. DOMAIN <<>> = {} /\ <<>> \in Seq(Steps)
  OBVIOUS
<1>2. \A e : ~Has(<<>>, e)
  BY <1>1 DEF Has
<1>3. \A e : Count(<<>>, e) = 0
  BY <1>1, <1>2, CountFinite
<1>4. ShapeOf(<<>>, mark) /\ Inner(<<>>)
  BY <1>1 DEF ShapeOf, Inner
<1> QED BY <1>1, <1>2, <1>3, <1>4

(* Between system calls the invariant is IdleInv. *)
LEMMA IdleFacts == TypeInv /\ work = <<>> => (Full <=> IdleInv)
<1> SUFFICES ASSUME TypeInv, work = <<>> PROVE Full <=> IdleInv
  OBVIOUS
<1>1. \A what, f : ~AtHead(what, f) /\ ~ToDo(what, f) /\ ~Later(what, f)
  BY NoWork DEF AtHead, ToDo, Later
<1>2. \A f : Pending(f) = 0 /\ ~BeingClosed(f)
  BY <1>1, NoWork DEF Pending, BeingClosed
<1>3. ~Marking /\ ~Sweeping
  BY <1>1 DEF Marking, Sweeping
<1>4. \A f : InBuf(f) \in Nat
  BY InBufFacts
<1>5. ShapeOf(work, fmark)
  BY NoWork
<1>6. ASSUME Full PROVE IdleInv
  <2>1. ~unp_gcing /\ fmark = {} /\ fdefer = {}
    BY <1>3, <1>6 DEF Full, Shape
  <2>2. nofdref = {}
    BY <1>2, <1>6 DEF Full, Sockets, TypeInv
  <2>3. ASSUME NEW f \in Files
        PROVE  /\ f \in f_data <=> f_count[f] > 0
               /\ so_rcv[f] # <<>> => f_count[f] > 0
               /\ Connected(f)
               /\ f \in so_pcb => f_count[f] > 0
    BY <1>6 DEF Full, Sockets
  <2>4. ASSUME NEW f \in Files PROVE f_count[f] = fds[f] + f_msgcount[f]
    BY <1>1, <1>2, <1>6 DEF Full, Balanced, One, TypeInv
  <2>5. ASSUME NEW f \in Files PROVE f_msgcount[f] >= InBuf(f)
    <3>1. Counted(f) \/ Doomed(f)
      BY <1>3, <1>6 DEF Full, RightsCounted
    <3>2. ~Doomed(f)
      BY <1>2 DEF Doomed
    <3> QED BY <1>2, <1>4, <3>1, <3>2 DEF Counted, TypeInv
  <2> QED BY <2>1, <2>2, <2>3, <2>4, <2>5 DEF IdleInv
<1>7. ASSUME IdleInv PROVE Full
  <2>1. Shape
    BY <1>3, <1>5, <1>7 DEF Shape, IdleInv
  <2>2. Sockets
    BY <1>2, <1>7 DEF Sockets, IdleInv
  <2>3. Balanced
    BY <1>1, <1>2, <1>7 DEF Balanced, IdleInv, One, TypeInv
  <2>4. RightsCounted
    BY <1>2, <1>3, <1>4, <1>7 DEF RightsCounted, Counted, IdleInv, TypeInv
  <2>5. LastClose /\ MarkInv /\ SweepInv
    BY <1>1 DEF LastClose, MarkInv, SweepInv
  <2>6. Grounded
    BY <1>7 DEF Grounded, IdleInv
  <2> QED BY <2>1, <2>2, <2>3, <2>4, <2>5, <2>6 DEF Full
<1> QED BY <1>6, <1>7

(* Init *)
LEMMA InitFull == Init => TypeInv /\ Full
<1> SUFFICES ASSUME Init PROVE TypeInv /\ Full
  OBVIOUS
<1>1. TypeInv
  <2>1. <<>> \in Seq(Steps) /\ <<>> \in Seq(Files)
    OBVIOUS
  <2>2. /\ f_count \in [Files -> Nat] /\ f_msgcount \in [Files -> Int] /\ fds \in [Files -> Nat]
        /\ unp_rights \in Int
    BY DEF Init
  <2>3. unp_conn \in [Files -> Files \cup {None}] /\ so_rcv \in [Files -> Seq(Files)]
    BY <2>1 DEF Init
  <2>4. /\ f_data \subseteq Files /\ so_pcb \subseteq Files /\ nofdref \subseteq Files
        /\ unp_gcing \in BOOLEAN /\ fmark \subseteq Files /\ fdefer \subseteq Files
        /\ work \in Seq(Steps) /\ panicked \in BOOLEAN
    BY <2>1, Zenon DEF Init
  <2> QED BY <2>2, <2>3, <2>4 DEF TypeInv
<1>2. \A f \in Files : InBuf(f) = 0
  <2>1. \A s \in Files : \A f : ~Has(so_rcv[s], f)
    BY NoWork DEF Init
  <2> QED BY <1>1, <2>1, InBufFacts
<1>3. IdleInv
  BY <1>2 DEF Init, IdleInv, Connected
<1> QED BY <1>1, <1>3, IdleFacts DEF Init

(* A system call that leaves no work. *)
LEMMA StillIdle == (TypeInv /\ work = <<>> => (Full <=> IdleInv))'
BY IdleFacts, PTL

(* Two new files: nothing refers to a free entry, so that f_msgcount,      *)
(* which falloc() does not set, is 0.                                      *)
LEMMA KeepsSocketpair ==
  ASSUME TypeInv, Full, Socketpair PROVE TypeInv' /\ Full'
<1>1. IdleInv /\ work = <<>> /\ work' = <<>>
  BY IdleFacts DEF Socketpair, Idle
<1>2. PICK f \in Files, g \in Files :
        /\ f < g /\ f_count[f] = 0 /\ f_count[g] = 0
        /\ f_count' = [f_count EXCEPT ![f] = 1, ![g] = 1]
        /\ fds' = [fds EXCEPT ![f] = 1, ![g] = 1]
        /\ f_data' = f_data \cup {f, g} /\ so_pcb' = so_pcb \cup {f, g}
        /\ unp_conn' = [unp_conn EXCEPT ![f] = g, ![g] = f]
        /\ UNCHANGED <<f_msgcount, unp_rights, nofdref, so_rcv, gcvars, work, panicked>>
  BY DEF Socketpair
<1>3. TypeInv'
  BY <1>2 DEF TypeInv, gcvars
<1>4. \A h : InBuf(h) \in Nat /\ InBuf(h)' = InBuf(h)
  BY <1>2, InBufFacts DEF InBuf
<1>5. ASSUME NEW h \in Files
      PROVE  /\ f_count'[h] = fds'[h] + f_msgcount'[h]
             /\ f_msgcount'[h] >= InBuf(h)'
             /\ h \in f_data' <=> f_count'[h] > 0
             /\ h \in so_pcb' => f_count'[h] > 0
             /\ so_rcv'[h] # <<>> => f_count'[h] > 0
  <2>1. /\ f_count[h] = fds[h] + f_msgcount[h] /\ f_msgcount[h] >= InBuf(h) /\ InBuf(h) \in Nat
        /\ h \in f_data <=> f_count[h] > 0
        /\ h \in so_pcb => f_count[h] > 0
        /\ so_rcv[h] # <<>> => f_count[h] > 0
    BY <1>1, <1>4 DEF IdleInv
  <2>2. CASE h \in {f, g}
    <3>1. f_count'[h] = 1 /\ fds'[h] = 1 /\ f_msgcount'[h] = f_msgcount[h] /\ f_count[h] = 0
      BY <1>2, <2>2 DEF TypeInv
    <3> QED BY <1>2, <1>4, <2>1, <2>2, <3>1 DEF TypeInv
  <2>3. CASE h \notin {f, g}
    <3>1. /\ f_count'[h] = f_count[h] /\ fds'[h] = fds[h] /\ f_msgcount'[h] = f_msgcount[h]
          /\ so_rcv'[h] = so_rcv[h]
      BY <1>2, <2>3 DEF TypeInv
    <3> QED BY <1>2, <1>4, <2>1, <2>3, <3>1
  <2> QED BY <2>2, <2>3
<1>6. ASSUME NEW h \in Files PROVE Connected(h)'
  <2>1. f \notin so_pcb /\ g \notin so_pcb /\ f # g
    BY <1>1, <1>2 DEF IdleInv, Files
  <2>2. Connected(h)
    BY <1>1 DEF IdleInv
  <2> QED BY <1>2, <2>1, <2>2 DEF Connected, TypeInv
<1>7. IdleInv'
  BY <1>1, <1>2, <1>5, <1>6 DEF IdleInv, gcvars
<1> QED BY <1>1, <1>3, <1>7, StillIdle

(* One buffer changes. *)
LEMMA InBufChange ==
  ASSUME TypeInv, NEW s \in Files, NEW q \in Seq(Files), so_rcv' = [so_rcv EXCEPT ![s] = q], NEW f
  PROVE  /\ InBuf(f)' + Count(so_rcv[s], f) = InBuf(f) + Count(q, f)
         /\ InBuf(f)' \in Nat /\ InBuf(f) \in Nat
         /\ Count(so_rcv[s], f) \in Nat /\ Count(q, f) \in Nat
<1>1. so_rcv \in [Files -> Seq(Files)] /\ so_rcv[s] \in Seq(Files)
  BY DEF TypeInv
<1>2. so_rcv' \in [Files -> Seq(Files)]
  BY <1>1
<1>3. InBuf(f)' = Cardinality(Places(so_rcv', Files, f)) /\ InBuf(f)' \in Nat
  BY <1>2, PlacesFinite DEF InBuf
<1>4. InBuf(f) = Cardinality(Places(so_rcv, Files, f)) /\ InBuf(f) \in Nat
  BY <1>1, PlacesFinite DEF InBuf
<1>5. Count(so_rcv[s], f) \in Nat /\ Count(q, f) \in Nat
  BY <1>1, CountFinite
<1>6. Cardinality(Places([so_rcv EXCEPT ![s] = q], Files, f)) + Count(so_rcv[s], f) =
        Cardinality(Places(so_rcv, Files, f)) + Count(q, f)
  BY <1>1, PlacesChange
<1> QED BY <1>3, <1>4, <1>5, <1>6

(* One more descriptor. *)
LEMMA KeepsDup ==
  ASSUME TypeInv, Full, NEW f \in Files, Dup(f) PROVE TypeInv' /\ Full'
<1>1. IdleInv /\ work = <<>> /\ work' = <<>>
  BY IdleFacts DEF Dup, Idle
<1>2. TypeInv'
  BY DEF Dup, TypeInv, sockets, gcvars
<1>3. \A h : InBuf(h) \in Nat /\ InBuf(h)' = InBuf(h)
  BY InBufFacts DEF InBuf, Dup, sockets
<1>4. \A h \in Files : Connected(h)'
  BY <1>1 DEF IdleInv, Connected, Dup, sockets
<1>5. IdleInv'
  BY <1>1, <1>3, <1>4 DEF IdleInv, Dup, TypeInv, Held, sockets, gcvars
<1> QED BY <1>1, <1>2, <1>5, StillIdle

(* The references that are lost make f_msgcount too large, which is safe. *)
LEMMA KeepsSendtoFails ==
  ASSUME TypeInv, Full, NEW f \in Files, SendtoFails(f) PROVE TypeInv' /\ Full'
<1>1. IdleInv /\ work = <<>> /\ work' = <<>>
  BY IdleFacts DEF SendtoFails, Idle
<1>2. TypeInv'
  BY DEF SendtoFails, unp_internalize, TypeInv, sockets, gcvars
<1>3. \A h : InBuf(h) \in Nat /\ InBuf(h)' = InBuf(h)
  BY InBufFacts DEF InBuf, SendtoFails, sockets
<1>4. \A h \in Files : Connected(h)'
  BY <1>1 DEF IdleInv, Connected, SendtoFails, sockets
<1>5. IdleInv'
  BY <1>1, <1>3, <1>4
     DEF IdleInv, SendtoFails, unp_internalize, TypeInv, Held, sockets, gcvars
<1> QED BY <1>1, <1>2, <1>5, StillIdle

(* A right goes into the peer's buffer, and is counted. *)
LEMMA KeepsSendmsg ==
  ASSUME TypeInv, Full, NEW s \in Files, NEW f \in Files, Sendmsg(s, f) PROVE TypeInv' /\ Full'
<1> DEFINE p == unp_conn[s]
           q == Append(so_rcv[p], f)
<1>1. IdleInv /\ work = <<>> /\ work' = <<>>
  BY IdleFacts DEF Sendmsg, Idle
<1>2. p \in Files /\ p \in so_pcb /\ p # None
  BY <1>1 DEF Sendmsg, IdleInv, Connected, TypeInv
<1>3. /\ so_rcv[p] \in Seq(Files) /\ q \in Seq(Files) /\ so_rcv' = [so_rcv EXCEPT ![p] = q]
      /\ <<f>> \in Seq(Files) /\ q = so_rcv[p] \o <<f>>
  BY <1>2 DEF Sendmsg, TypeInv
<1>a. /\ f_count' = [f_count EXCEPT ![f] = f_count[f] + 1] /\ fds' = fds
      /\ f_msgcount' = [f_msgcount EXCEPT ![f] = f_msgcount[f] + 1] /\ unp_rights' = unp_rights + 1
      /\ Held(f)
      /\ UNCHANGED <<fds, f_data, so_pcb, nofdref, unp_conn, unp_gcing, fmark, fdefer, work, panicked>>
  BY DEF Sendmsg, unp_internalize, gcvars
<1> HIDE DEF p, q
<1>4. ASSUME NEW h PROVE Count(q, h) = Count(so_rcv[p], h) + One(f = h)
  <2>1. Count(<<f>>, h) = One(f = h)
    BY CountSingle
  <2>2. Count(so_rcv[p] \o <<f>>, h) = Count(so_rcv[p], h) + Count(<<f>>, h)
    BY <1>3, CountConcat
  <2> QED BY <1>3, <2>1, <2>2
<1>5. ASSUME NEW h PROVE InBuf(h)' = InBuf(h) + One(f = h) /\ InBuf(h) \in Nat
  <2>1. /\ InBuf(h)' + Count(so_rcv[p], h) = InBuf(h) + Count(q, h)
        /\ InBuf(h)' \in Nat /\ InBuf(h) \in Nat
        /\ Count(so_rcv[p], h) \in Nat /\ Count(q, h) \in Nat
    BY <1>2, <1>3, InBufChange
  <2> QED BY <1>4, <2>1 DEF One
<1>6. TypeInv'
  <2>1. so_rcv' \in [Files -> Seq(Files)]
    BY <1>2, <1>3 DEF TypeInv
  <2>2. f_count' \in [Files -> Nat] /\ f_msgcount' \in [Files -> Int] /\ unp_rights' \in Int
    BY <1>a DEF TypeInv
  <2> QED BY <1>a, <2>1, <2>2 DEF TypeInv
<1>7. \A h \in Files : Connected(h)'
  BY <1>1, <1>a DEF IdleInv, Connected
<1>8. ASSUME NEW h \in Files
      PROVE  f_count'[h] = fds'[h] + f_msgcount'[h] /\ f_msgcount'[h] >= InBuf(h)'
  <2>1. f_count[h] = fds[h] + f_msgcount[h] /\ f_msgcount[h] >= InBuf(h)
    BY <1>1 DEF IdleInv
  <2>2. /\ f_count'[h] = f_count[h] + One(f = h) /\ f_msgcount'[h] = f_msgcount[h] + One(f = h)
        /\ fds'[h] = fds[h] /\ f_count[h] \in Nat /\ fds[h] \in Nat /\ f_msgcount[h] \in Int
        /\ One(f = h) \in Nat
    BY <1>a DEF TypeInv, One
  <2> QED BY <1>5, <2>1, <2>2
<1>9. ASSUME NEW h \in Files
      PROVE  /\ h \in f_data' <=> f_count'[h] > 0
             /\ so_rcv'[h] # <<>> => f_count'[h] > 0
             /\ h \in so_pcb' => f_count'[h] > 0
  <2>1. f_count[f] > 0
    <3>1. f_count[f] = fds[f] + f_msgcount[f] /\ f_msgcount[f] >= InBuf(f) /\ InBuf(f) \in Nat
      BY <1>1, <1>5 DEF IdleInv
    <3> QED BY <1>a, <3>1 DEF Held, TypeInv
  <2>2. f_count'[h] > 0 <=> f_count[h] > 0
    BY <1>a, <2>1 DEF TypeInv
  <2>3. so_rcv'[h] # <<>> => so_rcv[h] # <<>> \/ h = p
    BY <1>3 DEF TypeInv
  <2>4. f_count[p] > 0
    BY <1>1, <1>2 DEF IdleInv
  <2> QED BY <1>1, <1>a, <2>2, <2>3, <2>4 DEF IdleInv
<1>10. IdleInv'
  BY <1>1, <1>a, <1>7, <1>8, <1>9 DEF IdleInv
<1> QED BY <1>1, <1>6, <1>10, StillIdle

(* A message is taken out of the buffer of s. *)
LEMMA ReceivedFacts ==
  ASSUME TypeInv, Full, NEW s \in Files, Received(s), NEW f, f = Head(so_rcv[s])
  PROVE  /\ IdleInv /\ work = <<>> /\ f \in Files /\ f_count[f] > 0
         /\ so_rcv' \in [Files -> Seq(Files)]
         /\ \A h : InBuf(h) = InBuf(h)' + One(f = h) /\ InBuf(h)' \in Nat
         /\ \A h \in Files : so_rcv'[h] # <<>> => so_rcv[h] # <<>>
         /\ UNCHANGED <<f_data, so_pcb, nofdref, unp_conn, unp_gcing, fmark, fdefer, panicked>>
         /\ \A h \in Files : Connected(h)'
<1> DEFINE q == Tail(so_rcv[s])
<1>1. IdleInv /\ work = <<>>
  BY IdleFacts DEF Received, Idle
<1>2. /\ so_rcv[s] \in Seq(Files) /\ so_rcv[s] # <<>> /\ q \in Seq(Files)
      /\ f \in Files /\ f = so_rcv[s][1] /\ so_rcv' = [so_rcv EXCEPT ![s] = q]
  BY DEF Received, TypeInv
<1>3. UNCHANGED <<f_data, so_pcb, nofdref, unp_conn, unp_gcing, fmark, fdefer, panicked>>
  BY DEF Received, gcvars
<1>4. ASSUME NEW h PROVE InBuf(h) = InBuf(h)' + One(f = h) /\ InBuf(h)' \in Nat
  <2>1. Count(so_rcv[s], h) = One(f = h) + Count(q, h)
    BY <1>2, CountTail
  <2> HIDE DEF q
  <2>2. /\ InBuf(h)' + Count(so_rcv[s], h) = InBuf(h) + Count(q, h)
        /\ InBuf(h)' \in Nat /\ InBuf(h) \in Nat
        /\ Count(so_rcv[s], h) \in Nat /\ Count(q, h) \in Nat
    BY <1>2, InBufChange
  <2> QED BY <2>1, <2>2 DEF One
<1> HIDE DEF q
<1>5. so_rcv' \in [Files -> Seq(Files)] /\ \A h \in Files : so_rcv'[h] # <<>> => so_rcv[h] # <<>>
  BY <1>2 DEF TypeInv
<1>6. f_count[f] > 0
  <2>1. InBuf(f) > 0
    BY <1>4 DEF One
  <2>2. f_count[f] = fds[f] + f_msgcount[f] /\ f_msgcount[f] >= InBuf(f) /\ InBuf(f) \in Nat
    BY <1>1, <1>2, InBufFacts DEF IdleInv
  <2>3. fds[f] \in Nat /\ f_msgcount[f] \in Int
    BY <1>2 DEF TypeInv
  <2> QED BY <2>1, <2>2, <2>3
<1>7. \A h \in Files : Connected(h)'
  BY <1>1, <1>3 DEF IdleInv, Connected
<1> QED BY <1>1, <1>2, <1>3, <1>4, <1>5, <1>6, <1>7

(* A right leaves the buffer and stays counted. *)
LEMMA KeepsRead ==
  ASSUME TypeInv, Full, NEW s \in Files, Read(s) PROVE TypeInv' /\ Full'
<1> DEFINE f == Head(so_rcv[s])
<1>1. /\ IdleInv /\ work = <<>> /\ f \in Files /\ f_count[f] > 0
      /\ so_rcv' \in [Files -> Seq(Files)]
      /\ \A h : InBuf(h) = InBuf(h)' + One(f = h) /\ InBuf(h)' \in Nat
      /\ \A h \in Files : so_rcv'[h] # <<>> => so_rcv[h] # <<>>
      /\ UNCHANGED <<f_data, so_pcb, nofdref, unp_conn, unp_gcing, fmark, fdefer, panicked>>
      /\ \A h \in Files : Connected(h)'
  BY ReceivedFacts DEF Read
<1>2. UNCHANGED <<f_count, f_msgcount, unp_rights, fds, work>>
  BY DEF Read, counts
<1> HIDE DEF f
<1>3. TypeInv'
  BY <1>1, <1>2 DEF TypeInv
<1>4. ASSUME NEW h \in Files PROVE f_msgcount'[h] >= InBuf(h)'
  <2>1. f_msgcount[h] >= InBuf(h) /\ InBuf(h) = InBuf(h)' + One(f = h) /\ InBuf(h)' \in Nat
    BY <1>1 DEF IdleInv
  <2> QED BY <1>2, <2>1 DEF One, TypeInv
<1>5. IdleInv'
  BY <1>1, <1>2, <1>4 DEF IdleInv
<1> QED BY <1>1, <1>2, <1>3, <1>5, StillIdle

(* A right becomes a descriptor. *)
LEMMA KeepsRecvmsg ==
  ASSUME TypeInv, Full, NEW s \in Files, Recvmsg(s) PROVE TypeInv' /\ Full'
<1> DEFINE f == Head(so_rcv[s])
<1>1. /\ IdleInv /\ work = <<>> /\ f \in Files /\ f_count[f] > 0
      /\ so_rcv' \in [Files -> Seq(Files)]
      /\ \A h : InBuf(h) = InBuf(h)' + One(f = h) /\ InBuf(h)' \in Nat
      /\ \A h \in Files : so_rcv'[h] # <<>> => so_rcv[h] # <<>>
      /\ UNCHANGED <<f_data, so_pcb, nofdref, unp_conn, unp_gcing, fmark, fdefer, panicked>>
      /\ \A h \in Files : Connected(h)'
  BY ReceivedFacts DEF Recvmsg
<1>2. /\ fds' = [fds EXCEPT ![f] = fds[f] + 1]
      /\ f_msgcount' = [f_msgcount EXCEPT ![f] = f_msgcount[f] - 1]
      /\ unp_rights' = unp_rights - 1 /\ UNCHANGED <<f_count, work>>
  BY DEF Recvmsg
<1> HIDE DEF f
<1>3. TypeInv'
  <2>1. fds' \in [Files -> Nat] /\ f_msgcount' \in [Files -> Int] /\ unp_rights' \in Int
    BY <1>1, <1>2 DEF TypeInv
  <2> QED BY <1>1, <1>2, <2>1 DEF TypeInv
<1>4. ASSUME NEW h \in Files
      PROVE  f_count'[h] = fds'[h] + f_msgcount'[h] /\ f_msgcount'[h] >= InBuf(h)'
  <2>1. /\ f_count[h] = fds[h] + f_msgcount[h] /\ f_msgcount[h] >= InBuf(h)
        /\ InBuf(h) = InBuf(h)' + One(f = h) /\ InBuf(h)' \in Nat
    BY <1>1 DEF IdleInv
  <2>2. /\ fds'[h] = fds[h] + One(f = h) /\ f_msgcount'[h] = f_msgcount[h] - One(f = h)
        /\ f_count'[h] = f_count[h] /\ One(f = h) \in Nat
        /\ f_count[h] \in Nat /\ fds[h] \in Nat /\ f_msgcount[h] \in Int
    BY <1>1, <1>2, SMTT(30) DEF TypeInv, One
  <2> QED BY <2>1, <2>2
<1>5. IdleInv'
  BY <1>1, <1>2, <1>4 DEF IdleInv
<1> QED BY <1>1, <1>2, <1>3, <1>5, StillIdle

(* A system call that leaves one piece of work. *)
LEMMA OneStep ==
  ASSUME TypeInv', NEW f \in Files, NEW what \in {"unp_discard", "closef"},
         work' = <<Step(what, f)>>,
         ~unp_gcing', fmark' = {}, fdefer' = {}, nofdref' = {},
         \A h \in Files :
           /\ h \in f_data' <=> f_count'[h] > 0
           /\ so_rcv'[h] # <<>> => f_count'[h] > 0
           /\ Connected(h)'
           /\ h \in so_pcb' => f_count'[h] > 0
           /\ f_count'[h] = fds'[h] + f_msgcount'[h] + One(what = "closef" /\ h = f)
           /\ f_msgcount'[h] >= InBuf(h)' + One(what = "unp_discard" /\ h = f)
  PROVE  Full'
<1>1. Step(what, f) \in Steps /\ Step(what, f).do = what
  BY DEF Step, Steps, Calls
<1>2. Fits(Step(what, f), <<>>, {}) /\ work' = <<Step(what, f)>> \o <<>>
  BY <1>1, NoWork DEF Fits
<1>3. /\ ShapeOf(<<>>, {}) /\ Inner(<<>>) /\ <<>> \in Seq(Steps)
      /\ \A d, h : ~Has(<<>>, Step(d, h)) /\ Count(<<>>, Step(d, h)) = 0
  BY NoWork
<1>4. /\ ShapeOf(work', {}) /\ work' # <<>> /\ work'[1] = Step(what, f) /\ Tail(work') = <<>>
      /\ \A d, h : Has(work', Step(d, h)) <=> Step(what, f) = Step(d, h)
      /\ \A d, h : Count(work', Step(d, h)) = One(Step(what, f) = Step(d, h))
  <2>1. work' # <<>> /\ work'[1] = Step(what, f) /\ Tail(work') = <<>>
    OBVIOUS
  <2>2. ShapeOf(work', {})
    BY <1>1, <1>2, <1>3, ShapePush
  <2> QED BY <2>1, <2>2, CountSingle
<1>5. \A d, h : /\ AtHead(d, h)' <=> d = what /\ h = f
                /\ ToDo(d, h)' <=> d = what /\ h = f
                /\ ~Later(d, h)'
  BY <1>3, <1>4, StepEq DEF AtHead, ToDo, Later
<1>6. \A h : Pending(h)' = One(what = "unp_discard" /\ h = f)
  BY <1>4, StepEq DEF Pending, One
<1>7. \A h : ~BeingClosed(h)'
  BY <1>5 DEF BeingClosed
<1>8. ~Marking' /\ ~Sweeping'
  BY <1>5 DEF Marking, Sweeping
<1>9. Shape'
  BY <1>4, <1>8 DEF Shape
<1>10. Sockets'
  BY <1>7 DEF Sockets
<1>11. Balanced'
  <2> SUFFICES ASSUME NEW h \in Files
               PROVE  f_count'[h] = fds'[h] + f_msgcount'[h] + One(AtHead("closef", h)')
                                      + One(BeingClosed(h)')
    BY DEF Balanced
  <2>1. AtHead("closef", h)' <=> what = "closef" /\ h = f
    BY <1>5
  <2>2. fds'[h] \in Nat /\ f_msgcount'[h] \in Int
    BY DEF TypeInv
  <2> QED BY <1>7, <2>1, <2>2 DEF One
<1>12. RightsCounted'
  BY <1>6, <1>8 DEF RightsCounted, Counted
<1>13. LastClose' /\ MarkInv' /\ SweepInv'
  BY <1>5 DEF LastClose, MarkInv, SweepInv
<1>14. Grounded'
  BY DEF Grounded
<1> QED BY <1>9, <1>10, <1>11, <1>12, <1>13, <1>14 DEF Full

(* A right is taken out of the buffer to be discarded. *)
LEMMA KeepsRecvmsgFull ==
  ASSUME TypeInv, Full, NEW s \in Files, RecvmsgFull(s) PROVE TypeInv' /\ Full'
<1> DEFINE f == Head(so_rcv[s])
<1>1. /\ IdleInv /\ work = <<>> /\ f \in Files /\ f_count[f] > 0
      /\ so_rcv' \in [Files -> Seq(Files)]
      /\ \A h : InBuf(h) = InBuf(h)' + One(f = h) /\ InBuf(h)' \in Nat
      /\ \A h \in Files : so_rcv'[h] # <<>> => so_rcv[h] # <<>>
      /\ UNCHANGED <<f_data, so_pcb, nofdref, unp_conn, unp_gcing, fmark, fdefer, panicked>>
      /\ \A h \in Files : Connected(h)'
  BY ReceivedFacts DEF RecvmsgFull
<1>2. /\ UNCHANGED <<f_count, f_msgcount, unp_rights, fds>>
      /\ work' = <<Step("unp_discard", f)>>
  BY DEF RecvmsgFull, counts
<1> HIDE DEF f
<1>3. TypeInv'
  <2>1. work' \in Seq(Steps)
    BY <1>1, <1>2 DEF Step, Steps, Calls
  <2> QED BY <1>1, <1>2, <2>1 DEF TypeInv
<1>4. ASSUME NEW h \in Files
      PROVE  /\ f_msgcount'[h] >= InBuf(h)' + One(h = f)
             /\ f_count'[h] = fds'[h] + f_msgcount'[h] + 0
  <2>1. /\ f_msgcount[h] >= InBuf(h) /\ InBuf(h) = InBuf(h)' + One(f = h)
        /\ f_count[h] = fds[h] + f_msgcount[h]
    BY <1>1 DEF IdleInv
  <2> QED BY <1>2, <2>1 DEF One, TypeInv
<1>6. \A h \in Files :
        /\ h \in f_data' <=> f_count'[h] > 0
        /\ so_rcv'[h] # <<>> => f_count'[h] > 0
        /\ Connected(h)'
        /\ h \in so_pcb' => f_count'[h] > 0
        /\ f_count'[h] = fds'[h] + f_msgcount'[h] + One("unp_discard" = "closef" /\ h = f)
        /\ f_msgcount'[h] >= InBuf(h)' + One("unp_discard" = "unp_discard" /\ h = f)
  BY <1>1, <1>2, <1>4 DEF IdleInv, One
<1>7. ~unp_gcing' /\ fmark' = {} /\ fdefer' = {} /\ nofdref' = {}
  BY <1>1 DEF IdleInv
<1> QED BY <1>1, <1>2, <1>3, <1>6, <1>7, OneStep

(* A descriptor is given back, and closef() gets its reference. *)
LEMMA KeepsClose ==
  ASSUME TypeInv, Full, NEW f \in Files, Close(f) PROVE TypeInv' /\ Full'
<1>1. IdleInv /\ work = <<>>
  BY IdleFacts DEF Close, Idle
<1>2. /\ fds' = [fds EXCEPT ![f] = fds[f] - 1] /\ fds[f] > 0
      /\ UNCHANGED <<f_count, f_msgcount, unp_rights, f_data, so_pcb, nofdref, unp_conn, so_rcv,
                     unp_gcing, fmark, fdefer, panicked>>
      /\ work' = <<Step("closef", f)>>
  BY DEF Close, counts, sockets, gcvars, Held
<1>3. TypeInv'
  <2>1. work' \in Seq(Steps)
    BY <1>2 DEF Step, Steps, Calls
  <2>2. fds' \in [Files -> Nat]
    BY <1>2 DEF TypeInv
  <2> QED BY <1>2, <2>1, <2>2 DEF TypeInv
<1>4. \A h : InBuf(h) \in Nat /\ InBuf(h)' = InBuf(h)
  BY <1>2, InBufFacts DEF InBuf
<1>5. ASSUME NEW h \in Files
      PROVE  /\ f_msgcount'[h] >= InBuf(h)' + 0
             /\ f_count'[h] = fds'[h] + f_msgcount'[h] + One(h = f)
  <2>1. f_msgcount[h] >= InBuf(h) /\ f_count[h] = fds[h] + f_msgcount[h]
    BY <1>1 DEF IdleInv
  <2>2. fds'[h] = fds[h] - One(h = f) /\ fds[h] \in Nat /\ f_msgcount[h] \in Int
    BY <1>2 DEF One, TypeInv
  <2> QED BY <1>2, <1>4, <2>1, <2>2 DEF One
<1>6. \A h \in Files : Connected(h)'
  BY <1>1, <1>2 DEF IdleInv, Connected
<1>7. \A h \in Files :
        /\ h \in f_data' <=> f_count'[h] > 0
        /\ so_rcv'[h] # <<>> => f_count'[h] > 0
        /\ Connected(h)'
        /\ h \in so_pcb' => f_count'[h] > 0
        /\ f_count'[h] = fds'[h] + f_msgcount'[h] + One("closef" = "closef" /\ h = f)
        /\ f_msgcount'[h] >= InBuf(h)' + One("closef" = "unp_discard" /\ h = f)
  BY <1>1, <1>2, <1>5, <1>6 DEF IdleInv, One
<1>8. ~unp_gcing' /\ fmark' = {} /\ fdefer' = {} /\ nofdref' = {}
  BY <1>1, <1>2 DEF IdleInv
<1> QED BY <1>2, <1>3, <1>7, <1>8, OneStep

(* The system calls. *)
LEMMA KeepsSyscall ==
  ASSUME TypeInv, Full, Syscall PROVE TypeInv' /\ Full'
BY KeepsSocketpair, KeepsDup, KeepsSendtoFails, KeepsClose, KeepsRecvmsg, KeepsRecvmsgFull,
   KeepsRead, KeepsSendmsg DEF Syscall

-----------------------------------------------------------------------------
(* Steps of the call under way.                                            *)

(* What is done now, and what is left. *)
LEMMA HeadFacts ==
  ASSUME TypeInv, Shape, NEW c, Doing(c), NEW g, g = Head(work).f, NEW t, t = Tail(work)
  PROVE  /\ work # <<>> /\ work[1] = Step(c, g) /\ Step(c, g) \in Steps
         /\ (c \in Calls => g \in Files) /\ (c \in Loops => g \in Turns)
         /\ t \in Seq(Steps) /\ ShapeOf(t, fmark) /\ Inner(t)
         /\ \A d, f : AtHead(d, f) <=> d = c /\ f = g
         /\ \A d, f : ToDo(d, f) <=> (d = c /\ f = g) \/ Has(t, Step(d, f))
         /\ \A d, f : Later(d, f) <=> Has(t, Step(d, f))
         /\ \A f : /\ Pending(f) = One(c = "unp_discard" /\ f = g) + Count(t, Step("unp_discard", f))
                   /\ Count(t, Step("unp_discard", f)) \in Nat
<1>1. work # <<>> /\ work \in Seq(Steps) /\ work[1] \in Steps /\ Head(work) = work[1]
  BY DEF Doing, TypeInv
<1>2. work[1] = Step(c, g)
  BY <1>1, StepIs DEF Doing
<1>2a. (c \in Calls => g \in Files) /\ (c \in Loops => g \in Turns)
  BY <1>1, <1>2 DEF Step, Steps, Calls, Loops, Turns
<1>3. ShapeOf(work, fmark)
  BY DEF Shape
<1>4. t \in Seq(Steps) /\ ShapeOf(t, fmark) /\ Inner(t)
  BY <1>1, <1>3, ShapeTail
<1>5. ASSUME NEW e
      PROVE  /\ Has(work, e) <=> work[1] = e \/ Has(t, e)
             /\ Count(work, e) = One(work[1] = e) + Count(t, e) /\ Count(t, e) \in Nat
  BY <1>1, <1>4, CountTail, CountFinite
<1>6. ASSUME NEW d, NEW f
      PROVE  /\ AtHead(d, f) <=> d = c /\ f = g
             /\ ToDo(d, f) <=> (d = c /\ f = g) \/ Has(t, Step(d, f))
             /\ Later(d, f) <=> Has(t, Step(d, f))
  <2>1. work[1] = Step(d, f) <=> d = c /\ f = g
    BY <1>2, StepEq
  <2> QED BY <1>1, <1>5, <2>1 DEF AtHead, ToDo, Later
<1>7. ASSUME NEW f
      PROVE  /\ Pending(f) = One(c = "unp_discard" /\ f = g) + Count(t, Step("unp_discard", f))
             /\ Count(t, Step("unp_discard", f)) \in Nat
  <2>1. work[1] = Step("unp_discard", f) <=> c = "unp_discard" /\ f = g
    BY <1>2, StepEq
  <2> QED BY <1>5, <2>1 DEF Pending, One
<1> QED BY <1>1, <1>2, <1>2a, <1>4, <1>6, <1>7

(* It is done. *)
LEMMA PoppedFacts ==
  ASSUME NEW t \in Seq(Steps), NEW mark, ShapeOf(t, mark), Inner(t), work' = t
  PROVE  /\ work' \in Seq(Steps) /\ ShapeOf(work', mark)
         /\ \A f : ~AtHead("closef", f)' /\ ~AtHead("detach", f)' /\ ~AtHead("mark", f)'
         /\ \A d, f : ToDo(d, f)' <=> Has(t, Step(d, f))
         /\ \A d, f : Later(d, f)' => Has(t, Step(d, f))
         /\ \A f : Pending(f)' = Count(t, Step("unp_discard", f))
         /\ t = <<>> \/ t[1].do # "sweep" => \A n : ~AtHead("sweep", n)'
<1>1. ASSUME t # <<>>
      PROVE  1 \in DOMAIN t /\ \A d, f : Has(Tail(t), Step(d, f)) => Has(t, Step(d, f))
  <2>1. 1 \in DOMAIN t
    BY <1>1
  <2>2. \A d, f : Has(Tail(t), Step(d, f)) => Has(t, Step(d, f))
    BY <1>1, CountTail
  <2> QED BY <2>1, <2>2
<1>2. \A f : ~AtHead("closef", f)' /\ ~AtHead("detach", f)' /\ ~AtHead("mark", f)'
  BY <1>1, StepEq DEF AtHead, Inner
<1>3. t = <<>> \/ t[1].do # "sweep" => \A n : ~AtHead("sweep", n)'
  BY StepEq DEF AtHead
<1>4. \A d, f : ToDo(d, f)' <=> Has(t, Step(d, f))
  BY DEF ToDo
<1>5. \A d, f : Later(d, f)' => Has(t, Step(d, f))
  BY <1>1 DEF Later
<1>6. \A f : Pending(f)' = Count(t, Step("unp_discard", f))
  BY DEF Pending
<1> QED BY <1>2, <1>3, <1>4, <1>5, <1>6

(* Something else has to be done first. *)
LEMMA PushedFacts ==
  ASSUME NEW t \in Seq(Steps), NEW mark, ShapeOf(t, mark), Inner(t), NEW c, NEW g,
         Step(c, g) \in Steps, Fits(Step(c, g), t, mark), work' = <<Step(c, g)>> \o t
  PROVE  /\ work' \in Seq(Steps) /\ ShapeOf(work', mark)
         /\ \A d, f : AtHead(d, f)' <=> d = c /\ f = g
         /\ \A d, f : ToDo(d, f)' <=> (d = c /\ f = g) \/ Has(t, Step(d, f))
         /\ \A d, f : Later(d, f)' <=> Has(t, Step(d, f))
         /\ \A f : Pending(f)' = One(c = "unp_discard" /\ f = g) + Count(t, Step("unp_discard", f))
<1>1. work' \in Seq(Steps) /\ work' # <<>> /\ work'[1] = Step(c, g) /\ Tail(work') = t
  OBVIOUS
<1>2. ShapeOf(work', mark)
  BY ShapePush
<1>3. ASSUME NEW e
      PROVE  /\ Has(work', e) <=> work'[1] = e \/ Has(t, e)
             /\ Count(work', e) = One(work'[1] = e) + Count(t, e)
  <2>1. /\ Has(work', e) <=> work'[1] = e \/ Has(Tail(work'), e)
        /\ Count(work', e) = One(work'[1] = e) + Count(Tail(work'), e)
    BY <1>1, CountTail
  <2> QED BY <1>1, <2>1
<1>4. ASSUME NEW d, NEW f
      PROVE  /\ AtHead(d, f)' <=> d = c /\ f = g
             /\ ToDo(d, f)' <=> (d = c /\ f = g) \/ Has(t, Step(d, f))
             /\ Later(d, f)' <=> Has(t, Step(d, f))
  <2>1. work'[1] = Step(d, f) <=> d = c /\ f = g
    BY <1>1, StepEq
  <2> QED BY <1>1, <1>3, <2>1 DEF AtHead, ToDo, Later
<1>5. ASSUME NEW f
      PROVE  Pending(f)' = One(c = "unp_discard" /\ f = g) + Count(t, Step("unp_discard", f))
  <2>1. work'[1] = Step("unp_discard", f) <=> c = "unp_discard" /\ f = g
    BY <1>1, StepEq
  <2> QED BY <1>3, <2>1 DEF Pending, One
<1> QED BY <1>1, <1>2, <1>4, <1>5

(* The buffers are as they were. *)
LEMMA InBufSame ==
  ASSUME TypeInv, so_rcv' = so_rcv
  PROVE  \A f : InBuf(f) \in Nat /\ InBuf(f)' = InBuf(f)
BY InBufFacts DEF InBuf

(* The marks stay, and the reasons for them. *)
LEMMA GroundedStays ==
  ASSUME TypeInv, Grounded, fmark' = fmark,
         \A f \in fmark : Held(f) \/ BeingClosed(f) => Held(f)' \/ BeingClosed(f)',
         \A s \in fmark : so_rcv'[s] = so_rcv[s]
  PROVE  Grounded'
<1> SUFFICES ASSUME NEW X \in SUBSET Files, Enclosed(X)' PROVE fmark \subseteq X
  BY DEF Grounded
<1>1. Enclosed(X)
  BY DEF Enclosed
<1> QED BY <1>1 DEF Grounded

(* A step that closes files and does not begin or end a collection. *)
LEMMA ClosingStep ==
  ASSUME TypeInv, Full, UNCHANGED <<unp_gcing, fmark, fdefer, fds>>, ShapeOf(work', fmark),
         \A n : /\ ToDo("sweep", n)' <=> ToDo("sweep", n)
                /\ ~AtHead("mark", n) /\ ~AtHead("mark", n)'
                /\ ~AtHead("sweep", n) /\ ~AtHead("sweep", n)',
         \A f \in fmark : (BeingClosed(f) => BeingClosed(f)') /\ so_rcv'[f] = so_rcv[f],
         \A f \in Files : f_count[f] = 0 => f_count'[f] = 0
  PROVE  /\ ~Marking /\ (Sweeping' <=> Sweeping)
         /\ Shape' /\ Grounded' /\ MarkInv' /\ SweepInv'
<1>1. ~Marking /\ ~Marking' /\ (Sweeping' <=> Sweeping)
  BY DEF Marking, Sweeping
<1>2. Shape'
  BY <1>1 DEF Shape, Full
<1>3. Grounded'
  BY GroundedStays DEF Held, Full
<1>4. MarkInv'
  BY DEF MarkInv
<1>5. SweepInv'
  BY DEF SweepInv, Full, TypeInv
<1> QED BY <1>1, <1>2, <1>3, <1>4, <1>5

(* What the shape of the work says of both. *)
LEMMA HeadShape ==
  ASSUME TypeInv, Shape, NEW c, Doing(c), NEW g, g = Head(work).f
  PROVE  /\ work \in Seq(Steps) /\ work # <<>> /\ ShapeOf(work, fmark)
         /\ work[1] = Step(c, g) /\ work[1].do = c /\ work[1].f = g
<1>1. work # <<>> /\ work[1] = Step(c, g) /\ work \in Seq(Steps) /\ ShapeOf(work, fmark)
  BY HeadFacts DEF TypeInv, Shape
<1>2. work[1].do = c /\ work[1].f = g
  BY <1>1, StepEq
<1> QED BY <1>1, <1>2

(* Only a file that is drained comes before a sweep. *)
LEMMA BelowCall ==
  ASSUME TypeInv, Shape, NEW c, Doing(c), c \notin {"drain", "sweep"}
  PROVE  Tail(work) = <<>> \/ Tail(work)[1].do # "sweep"
BY HeadShape, ShapeFacts

(* What was begun before the collection: there is one sweep, and the files *)
(* being closed are marked.                                                *)
LEMMA BelowSweep ==
  ASSUME TypeInv, Shape, Doing("sweep")
  PROVE  /\ \A n : ~Has(Tail(work), Step("sweep", n))
         /\ \A f : BeingClosed(f) \/ ToDo("discard", f) => f \in fmark
BY HeadShape, ShapeFacts DEF ToDo, BeingClosed

(* The sweep that drains a file goes on with the next. *)
LEMMA BelowDrain ==
  ASSUME TypeInv, Shape, Doing("drain"), NEW g, g = Head(work).f
  PROVE  /\ Tail(work) # <<>> /\ Tail(work)[1] = Step("sweep", g + 1) /\ g \notin fmark
         /\ \A n : ToDo("sweep", n) => n = g + 1
         /\ \A f : BeingClosed(f) \/ ToDo("discard", f) => f \in fmark
BY HeadShape, ShapeFacts DEF ToDo, BeingClosed

(* soclose() goes on to discard. *)
LEMMA BelowDetach ==
  ASSUME TypeInv, Shape, Doing("detach"), NEW g, g = Head(work).f
  PROVE  Tail(work) # <<>> /\ Tail(work)[1] = Step("discard", g)
BY HeadShape, ShapeFacts

(* From there it goes to the end of closef(). *)
LEMMA BelowDiscard ==
  ASSUME TypeInv, Shape, Doing("discard"), NEW g, g = Head(work).f
  PROVE  /\ Tail(work) # <<>> /\ Tail(work)[1] = Step("closed", g)
         /\ ~Has(Tail(work), Step("discard", g))
         /\ g \notin fmark \/ ~Sweeping
BY HeadShape, ShapeFacts DEF Sweeping, ToDo

(* A file is closed once at a time. *)
LEMMA BelowClosed ==
  ASSUME TypeInv, Shape, Doing("closed"), NEW g, g = Head(work).f
  PROVE  /\ ~Has(Tail(work), Step("closed", g)) /\ ~ToDo("discard", g)
         /\ g \notin fmark \/ ~Sweeping
BY HeadShape, ShapeFacts DEF Sweeping, ToDo

(* A socket is emptied because its file is being closed. *)
LEMMA DiscardCloses ==
  ASSUME TypeInv, Shape, NEW f, ToDo("discard", f)
  PROVE  BeingClosed(f)
<1>1. work # <<>> /\ work \in Seq(Steps) /\ ShapeOf(work, fmark)
  BY DEF ToDo, Has, TypeInv, Shape
<1> QED BY <1>1, ShapeFacts DEF ToDo, BeingClosed

(* Nothing is swept. *)
LEMMA NoSweep ==
  ASSUME NEW t \in Seq(Steps), \A n \in Turns : ~Has(t, Step("sweep", n))
  PROVE  \A i \in DOMAIN t : t[i].do # "sweep"
<1> SUFFICES ASSUME NEW i \in DOMAIN t, t[i].do = "sweep" PROVE FALSE
  OBVIOUS
<1>1. t[i] \in Steps
  OBVIOUS
<1>2. t[i] = Step("sweep", t[i].f) /\ t[i].f \in Turns
  BY <1>1 DEF Step, Steps, Calls, Turns
<1> QED BY <1>2 DEF Has

(* closef() gives back a reference that is not the last. *)
LEMMA KeepsClosefMore ==
  ASSUME TypeInv, Full, NEW f, f = Head(work).f, Closef, f_count[f] > 1
  PROVE  TypeInv' /\ Full'
<1> DEFINE t == Tail(work)
<1>2. Doing("closef") /\ Shape /\ f \in Files /\ f_count[f] \in Nat
  <2>1. Doing("closef") /\ Shape /\ "closef" \in Calls
    BY DEF Closef, Full, Calls
  <2>2. f \in Files
    BY <2>1, HeadFacts
  <2> QED BY <2>1, <2>2 DEF TypeInv
<1>1. /\ Doing("closef") /\ f_count' = [f_count EXCEPT ![f] = f_count[f] - 1] /\ work' = <<>> \o t
      /\ UNCHANGED <<f_msgcount, unp_rights, fds, f_data, so_pcb, nofdref, unp_conn, so_rcv,
                     unp_gcing, fmark, fdefer, panicked>>
  <2>1. Doing("closef") /\ ~(f_count[f] < 1)
    BY <1>2
  <2> QED BY <2>1 DEF Closef, Todo, sockets, gcvars
<1>3. /\ t \in Seq(Steps) /\ ShapeOf(t, fmark) /\ Inner(t)
      /\ \A d, h : AtHead(d, h) <=> d = "closef" /\ h = f
      /\ \A d, h : ToDo(d, h) <=> (d = "closef" /\ h = f) \/ Has(t, Step(d, h))
      /\ \A d, h : Later(d, h) <=> Has(t, Step(d, h))
      /\ \A h : /\ Pending(h) = One("closef" = "unp_discard" /\ h = f) + Count(t, Step("unp_discard", h))
                /\ Count(t, Step("unp_discard", h)) \in Nat
  BY <1>1, <1>2, HeadFacts
<1>4. t = <<>> \/ t[1].do # "sweep"
  BY <1>2, BelowCall
<1> HIDE DEF t
<1>5. work' = t
  BY <1>1, <1>3
<1>6. /\ work' \in Seq(Steps) /\ ShapeOf(work', fmark)
      /\ \A h : ~AtHead("closef", h)' /\ ~AtHead("detach", h)' /\ ~AtHead("mark", h)'
      /\ \A d, h : ToDo(d, h)' <=> Has(t, Step(d, h))
      /\ \A d, h : Later(d, h)' => Has(t, Step(d, h))
      /\ \A h : Pending(h)' = Count(t, Step("unp_discard", h))
      /\ \A n : ~AtHead("sweep", n)'
  BY <1>3, <1>4, <1>5, PoppedFacts
<1>7. TypeInv'
  <2>1. f_count' \in [Files -> Nat]
    BY <1>1, <1>2 DEF TypeInv
  <2> QED BY <1>1, <1>6, <2>1 DEF TypeInv
<1>8. \A h : /\ BeingClosed(h)' <=> BeingClosed(h)
             /\ ToDo("discard", h)' <=> ToDo("discard", h)
             /\ ToDo("sweep", h)' <=> ToDo("sweep", h)
             /\ Pending(h)' = Pending(h) /\ InBuf(h) \in Nat /\ InBuf(h)' = InBuf(h)
             /\ Pending(h) \in Nat
  BY <1>1, <1>3, <1>6, InBufSame DEF BeingClosed, One
<1>9. ~BeingClosed(f) /\ \A h \in so_pcb : ~BeingClosed(h)
  BY <1>2, <1>3 DEF Full, Sockets, TypeInv
<1>10. \A h \in Files : f_count'[h] > 0 <=> f_count[h] > 0
  BY <1>1, <1>2 DEF TypeInv
<1>11. (Sweeping' <=> Sweeping) /\ Shape' /\ Grounded' /\ MarkInv' /\ SweepInv'
  <2>1. \A h \in Files : f_count[h] = 0 => f_count'[h] = 0
    BY <1>1, <1>2 DEF TypeInv
  <2> QED BY <1>1, <1>3, <1>6, <1>8, <2>1, ClosingStep
<1>12. Sockets'
  <2> SUFFICES ASSUME NEW h \in Files
               PROVE  /\ h \in f_data' <=> f_count'[h] > 0
                      /\ so_rcv'[h] # <<>> => f_count'[h] > 0
                      /\ Connected(h)'
                      /\ h \in so_pcb' => f_count'[h] > 0
                      /\ h \in so_pcb' /\ BeingClosed(h)' => AtHead("detach", h)'
                      /\ h \in nofdref' => BeingClosed(h)' /\ ~ToDo("discard", h)' /\ so_rcv'[h] = <<>>
                      /\ BeingClosed(h)' => f_count'[h] = 1 /\ (h \in nofdref' \/ ToDo("discard", h)')
    BY DEF Sockets
  <2>1. Connected(h)'
    BY <1>1 DEF Connected, Full, Sockets
  <2>2. BeingClosed(h) => f_count'[h] = f_count[h]
    BY <1>1, <1>9 DEF TypeInv
  <2> QED BY <1>1, <1>8, <1>9, <1>10, <2>1, <2>2 DEF Full, Sockets
<1>13. Balanced'
  <2> SUFFICES ASSUME NEW h \in Files
               PROVE  f_count'[h] = fds'[h] + f_msgcount'[h] + One(AtHead("closef", h)')
                                      + One(BeingClosed(h)')
    BY DEF Balanced
  <2>1. f_count[h] = fds[h] + f_msgcount[h] + One(AtHead("closef", h)) + One(BeingClosed(h))
    BY DEF Full, Balanced
  <2>2. /\ f_count'[h] = f_count[h] - One(AtHead("closef", h)) /\ One(AtHead("closef", h)') = 0
        /\ One(BeingClosed(h)') = One(BeingClosed(h))
        /\ One(AtHead("closef", h)) \in Nat /\ One(BeingClosed(h)) \in Nat
    BY <1>1, <1>2, <1>3, <1>6, <1>8 DEF TypeInv, One
  <2>3. f_count[h] \in Nat /\ fds[h] \in Nat /\ f_msgcount[h] \in Int
    BY DEF TypeInv
  <2> QED BY <1>1, <2>1, <2>2, <2>3
<1>14. RightsCounted'
  BY <1>1, <1>8, <1>10, <1>11 DEF RightsCounted, Counted, Doomed, Full, TypeInv
<1>15. LastClose'
  BY <1>1, <1>3, <1>6, <1>8 DEF LastClose, Full
<1> QED BY <1>7, <1>11, <1>12, <1>13, <1>14, <1>15 DEF Full

(* What is to be done when something comes first. *)
LEMMA HasPush ==
  ASSUME NEW t \in Seq(Steps), NEW x \in Steps, NEW e
  PROVE  /\ Has(<<x>> \o t, e) <=> x = e \/ Has(t, e)
         /\ Count(<<x>> \o t, e) = One(x = e) + Count(t, e)
<1>1. <<x>> \in Seq(Steps)
  OBVIOUS
<1>2. Count(<<x>>, e) = One(x = e) /\ (Has(<<x>>, e) <=> x = e)
  BY CountSingle
<1>3. /\ Count(<<x>> \o t, e) = Count(<<x>>, e) + Count(t, e)
      /\ Has(<<x>> \o t, e) <=> Has(<<x>>, e) \/ Has(t, e)
  BY <1>1, CountConcat
<1> QED BY <1>2, <1>3

(* Two pieces of work come first. *)
LEMMA PushTwo ==
  ASSUME NEW t \in Seq(Steps), NEW x \in Steps, NEW y \in Steps
  PROVE  <<x, y>> \o t = <<x>> \o (<<y>> \o t)
<1>1. <<x>> \in Seq(Steps) /\ <<y>> \in Seq(Steps) /\ <<x>> \o <<y>> = <<x, y>>
  <2> DEFINE a == <<x>>
             b == <<y>>
             q == a \o b
  <2>1. a \in Seq(Steps) /\ b \in Seq(Steps) /\ Len(a) = 1 /\ Len(b) = 1 /\ a[1] = x /\ b[1] = y
    OBVIOUS
  <2> HIDE DEF a, b
  <2>2. /\ q \in Seq(Steps) /\ Len(q) = 2
        /\ \A i \in 1 .. 2 : q[i] = IF i <= 1 THEN a[i] ELSE b[i - 1]
    <3>1. /\ a \o b \in Seq(Steps) /\ Len(a \o b) = Len(a) + Len(b)
          /\ \A i \in 1 .. Len(a) + Len(b) : (a \o b)[i] =
                   IF i <= Len(a) THEN a[i] ELSE b[i - Len(a)]
      BY <2>1, ConcatProperties, Zenon
    <3>2. 1 + 1 = 2
      OBVIOUS
    <3> QED BY <2>1, <3>1, <3>2, Zenon
  <2>3. q[1] = x /\ q[2] = y
    BY <2>1, <2>2
  <2> HIDE DEF q
  <2>4. q = <<x, y>>
    <3>1. <<x, y>> \in Seq(Steps) /\ Len(<<x, y>>) = 2 /\ <<x, y>>[1] = x /\ <<x, y>>[2] = y
      OBVIOUS
    <3>2. \A i \in 1 .. Len(q) : q[i] = <<x, y>>[i]
      BY <2>2, <2>3, <3>1
    <3> QED BY <2>2, <3>1, <3>2, SeqEqual
  <2> QED BY <2>1, <2>4 DEF a, b, q
<1>2. (<<x>> \o <<y>>) \o t = <<x>> \o (<<y>> \o t)
  BY <1>1, ConcatAssociative
<1> QED BY <1>1, <1>2

(* What comes first is on top. *)
LEMMA HeadOfPush ==
  ASSUME NEW t \in Seq(Steps), NEW x \in Steps, NEW v, v = <<x>> \o t
  PROVE  v \in Seq(Steps) /\ v # <<>> /\ v[1] = x /\ Tail(v) = t
OBVIOUS

(* closef() of the last reference: the socket is closed. *)
LEMMA ClosefLast ==
  ASSUME TypeInv, Full, NEW f, f = Head(work).f, Closef, f_count[f] = 1, NEW t, t = Tail(work)
  PROVE  /\ Doing("closef") /\ f \in Files /\ t \in Seq(Steps)
         /\ work' = <<Step("detach", f)>> \o (<<Step("discard", f)>> \o (<<Step("closed", f)>> \o t))
         /\ UNCHANGED <<f_count, f_msgcount, unp_rights, fds, f_data, so_pcb, nofdref, unp_conn,
                        so_rcv, unp_gcing, fmark, fdefer, panicked>>
         /\ \A c \in {"detach", "discard", "closed"} : Step(c, f) \in Steps
         /\ TypeInv'
<1>1. Doing("closef") /\ Shape /\ "closef" \in Calls
  BY DEF Closef, Full, Calls
<1>2. f \in Files /\ t \in Seq(Steps)
  BY <1>1, HeadFacts
<1>3. f \in f_data
  BY <1>2 DEF Full, Sockets
<1>4. /\ work' = (<<Step("detach", f), Step("discard", f)>> \o <<Step("closed", f)>>) \o t
      /\ UNCHANGED <<f_count, f_msgcount, unp_rights, fds, f_data, so_pcb, nofdref, unp_conn,
                     so_rcv, unp_gcing, fmark, fdefer, panicked>>
  BY <1>3 DEF Closef, Todo, sockets, gcvars
<1>5. \A c \in {"detach", "discard", "closed"} : Step(c, f) \in Steps
  BY <1>2 DEF Step, Steps, Calls
<1>6. ASSUME NEW x \in Steps, NEW y \in Steps, NEW z \in Steps
      PROVE  (<<x, y>> \o <<z>>) \o t = <<x>> \o (<<y>> \o (<<z>> \o t))
  <2>1. <<x, y>> \in Seq(Steps) /\ <<z>> \in Seq(Steps) /\ <<z>> \o t \in Seq(Steps)
    BY <1>2
  <2>2. (<<x, y>> \o <<z>>) \o t = <<x, y>> \o (<<z>> \o t)
    BY <1>2, <2>1, ConcatAssociative
  <2> QED BY <2>1, <2>2, PushTwo
<1>7. work' = <<Step("detach", f)>> \o (<<Step("discard", f)>> \o (<<Step("closed", f)>> \o t))
  <2>1. Step("detach", f) \in Steps /\ Step("discard", f) \in Steps /\ Step("closed", f) \in Steps
    BY <1>5
  <2> QED BY <1>4, <1>6, <2>1, SMTT(30)
<1>8. work' \in Seq(Steps)
  BY <1>2, <1>5, <1>7
<1>9. TypeInv'
  BY <1>4, <1>8 DEF TypeInv
<1> QED BY <1>1, <1>2, <1>4, <1>5, <1>7, <1>9

(* It is being closed already, by a closef() whose discarding led here. *)
LEMMA ClosefTwice ==
  ASSUME TypeInv, Full, NEW f, f = Head(work).f, Closef, f_count[f] = 1, BeingClosed(f)
  PROVE  TypeInv' /\ Imminent'
<1> DEFINE t == Tail(work)
           u == <<Step("closed", f)>> \o t
<1>1. /\ Doing("closef") /\ f \in Files /\ t \in Seq(Steps)
      /\ work' = <<Step("detach", f)>> \o (<<Step("discard", f)>> \o u)
      /\ UNCHANGED <<so_pcb, nofdref>>
      /\ \A c \in {"detach", "discard", "closed"} : Step(c, f) \in Steps
      /\ TypeInv'
  BY ClosefLast
<1>2. /\ \A d, h : AtHead(d, h) <=> d = "closef" /\ h = f
      /\ \A d, h : ToDo(d, h) <=> (d = "closef" /\ h = f) \/ Has(t, Step(d, h))
      /\ \A d, h : Later(d, h) <=> Has(t, Step(d, h))
  BY <1>1, HeadFacts DEF Full
<1>3. u \in Seq(Steps)
  BY <1>1
<1> HIDE DEF t, u
<1>4. /\ work' # <<>> /\ work'[1] = Step("detach", f)
      /\ Tail(work') # <<>> /\ Tail(work')[1] = Step("discard", f)
  <2> DEFINE v == <<Step("discard", f)>> \o u
  <2>1. Step("detach", f) \in Steps /\ Step("discard", f) \in Steps
    BY <1>1
  <2>2. v \in Seq(Steps) /\ v # <<>> /\ v[1] = Step("discard", f)
    BY <1>3, <2>1, HeadOfPush
  <2> HIDE DEF v
  <2>3. work' # <<>> /\ work'[1] = Step("detach", f) /\ Tail(work') = v
    <3>1. work' = <<Step("detach", f)>> \o v
      BY <1>1 DEF v
    <3> QED BY <2>1, <2>2, <3>1, HeadOfPush
  <2> QED BY <2>2, <2>3
<1>5. f \in nofdref
  <2>1. SUFFICES ASSUME ToDo("discard", f) PROVE FALSE
    BY <1>1 DEF Full, Sockets
  <2>2. Later("discard", f)
    BY <1>2, <2>1
  <2> QED BY <1>1, <1>2, <2>2 DEF Full, LastClose
<1>6. f \notin so_pcb
  BY <1>1, <1>2 DEF Full, Sockets
<1> QED BY <1>1, <1>4, <1>5, <1>6 DEF Imminent, AtHead

(* It is not: nothing else refers to the file, or the collector runs and   *)
(* takes it.                                                               *)
LEMMA ClosefOnce ==
  ASSUME TypeInv, Full, NEW f, f = Head(work).f, Closef, f_count[f] = 1, ~BeingClosed(f)
  PROVE  TypeInv' /\ Full'
<1> DEFINE t == Tail(work)
           u1 == <<Step("closed", f)>> \o t
           u2 == <<Step("discard", f)>> \o u1
<1>1. /\ Doing("closef") /\ f \in Files /\ t \in Seq(Steps)
      /\ work' = <<Step("detach", f)>> \o u2
      /\ UNCHANGED <<f_count, f_msgcount, unp_rights, fds, f_data, so_pcb, nofdref, unp_conn,
                     so_rcv, unp_gcing, fmark, fdefer, panicked>>
      /\ \A c \in {"detach", "discard", "closed"} : Step(c, f) \in Steps
      /\ TypeInv'
  BY ClosefLast
<1>2. Shape /\ Sockets /\ Balanced /\ RightsCounted /\ LastClose /\ Grounded
  BY DEF Full
<1>3. /\ ShapeOf(t, fmark) /\ Inner(t)
      /\ \A d, h : AtHead(d, h) <=> d = "closef" /\ h = f
      /\ \A d, h : ToDo(d, h) <=> (d = "closef" /\ h = f) \/ Has(t, Step(d, h))
      /\ \A d, h : Later(d, h) <=> Has(t, Step(d, h))
      /\ \A h : /\ Pending(h) = One("closef" = "unp_discard" /\ h = f) + Count(t, Step("unp_discard", h))
                /\ Count(t, Step("unp_discard", h)) \in Nat
  <2>1. ShapeOf(t, fmark) /\ Inner(t) /\ \A d, h : AtHead(d, h) <=> d = "closef" /\ h = f
    BY <1>1, <1>2, HeadFacts
  <2>2. /\ \A d, h : ToDo(d, h) <=> (d = "closef" /\ h = f) \/ Has(t, Step(d, h))
        /\ \A d, h : Later(d, h) <=> Has(t, Step(d, h))
    BY <1>1, <1>2, HeadFacts
  <2>3. \A h : /\ Pending(h) = One("closef" = "unp_discard" /\ h = f) + Count(t, Step("unp_discard", h))
              /\ Count(t, Step("unp_discard", h)) \in Nat
    BY <1>1, <1>2, HeadFacts
  <2> QED BY <2>1, <2>2, <2>3
<1>4. t = <<>> \/ t[1].do # "sweep"
  BY <1>1, <1>2, BelowCall
<1>5. \A h : InBuf(h) \in Nat /\ InBuf(h)' = InBuf(h) /\ Pending(h) \in Nat
  BY <1>1, <1>3, InBufSame, PendingFacts
<1>6. fds[f] \in Nat /\ f_msgcount[f] \in Int /\ fds[f] + f_msgcount[f] = 0
  <2>1. fds[f] \in Nat /\ f_msgcount[f] \in Int
    BY <1>1 DEF TypeInv
  <2>2. f_count[f] = fds[f] + f_msgcount[f] + One(AtHead("closef", f)) + One(BeingClosed(f))
    BY <1>1, <1>2 DEF Balanced
  <2>3. One(AtHead("closef", f)) = 1 /\ One(BeingClosed(f)) = 0
    BY <1>3 DEF One
  <2> QED BY <2>1, <2>2, <2>3
<1>7. Counted(f) => fds[f] = 0 /\ InBuf(f) = 0 /\ Pending(f) = 0
  <2>1. InBuf(f) \in Nat /\ Pending(f) \in Nat
    BY <1>5
  <2> SUFFICES ASSUME f_msgcount[f] >= InBuf(f) + Pending(f)
               PROVE  fds[f] = 0 /\ InBuf(f) = 0 /\ Pending(f) = 0
    BY DEF Counted
  <2>2. f_msgcount[f] = 0 - fds[f]
    BY <1>6
  <2> QED BY <1>6, <2>1, <2>2
<1>8. Sweeping => f \notin fmark
  <2> SUFFICES ASSUME Sweeping, f \in fmark PROVE FALSE
    OBVIOUS
  <2>1. fds[f] = 0 /\ InBuf(f) = 0
    BY <1>1, <1>2, <1>7 DEF RightsCounted
  <2>2. Held(f) \/ BeingClosed(f) \/ InBuf(f) > 0
    BY <1>2, MarkedBy
  <2> QED BY <2>1, <2>2 DEF Held
<1>9. ~Sweeping => \A i \in DOMAIN t : t[i].do # "sweep"
  <2> SUFFICES ASSUME ~Sweeping PROVE \A n \in Turns : ~Has(t, Step("sweep", n))
    BY <1>1, NoSweep
  <2> QED BY <1>3 DEF Sweeping
<1> HIDE DEF t, u1, u2
<1>10. Step("detach", f) \in Steps /\ Step("discard", f) \in Steps /\ Step("closed", f) \in Steps
  BY <1>1
<1>11. /\ u1 \in Seq(Steps) /\ ShapeOf(u1, fmark) /\ Inner(u1)
       /\ \A e : (Has(u1, e) <=> Step("closed", f) = e \/ Has(t, e))
                 /\ Count(u1, e) = One(Step("closed", f) = e) + Count(t, e)
       /\ u1 # <<>> /\ u1[1] = Step("closed", f) /\ Tail(u1) = t
  <2>1. Fits(Step("closed", f), t, fmark)
    <3>1. ~Has(t, Step("closed", f))
      BY <1>3 DEF BeingClosed
    <3> QED BY <1>4, <1>8, <1>9, <3>1, StepEq DEF Fits
  <2>2. u1 \in Seq(Steps) /\ ShapeOf(u1, fmark) /\ Inner(u1)
    BY <1>1, <1>3, <1>10, <2>1, ShapePush, StepEq DEF u1
  <2> QED BY <1>1, <1>10, <2>2, HasPush, HeadOfPush DEF u1
<1>12. /\ u2 \in Seq(Steps) /\ ShapeOf(u2, fmark) /\ Inner(u2)
       /\ \A e : (Has(u2, e) <=> Step("discard", f) = e \/ Has(u1, e))
                 /\ Count(u2, e) = One(Step("discard", f) = e) + Count(u1, e)
       /\ u2 # <<>> /\ u2[1] = Step("discard", f)
  <2>1. Fits(Step("discard", f), u1, fmark)
    <3>1. ~Sweeping => \A i \in DOMAIN u1 : u1[i].do # "sweep"
      <4> SUFFICES ASSUME ~Sweeping PROVE \A n \in Turns : ~Has(u1, Step("sweep", n))
        BY <1>11, NoSweep
      <4> QED BY <1>3, <1>11, StepEq DEF Sweeping
    <3> QED BY <1>8, <1>11, <3>1, StepEq DEF Fits
  <2>2. u2 \in Seq(Steps) /\ ShapeOf(u2, fmark) /\ Inner(u2)
    BY <1>10, <1>11, <2>1, ShapePush, StepEq DEF u2
  <2> QED BY <1>10, <1>11, <2>2, HasPush, HeadOfPush DEF u2
<1>13. /\ ShapeOf(work', fmark)
       /\ \A d, h : AtHead(d, h)' <=> d = "detach" /\ h = f
       /\ \A d, h : ToDo(d, h)' <=> (d = "detach" /\ h = f) \/ Has(u2, Step(d, h))
       /\ \A d, h : Later(d, h)' <=> Has(u2, Step(d, h))
       /\ \A h : Pending(h)' =
                   One("detach" = "unp_discard" /\ h = f) + Count(u2, Step("unp_discard", h))
  <2>1. Fits(Step("detach", f), u2, fmark)
    BY <1>12, StepEq DEF Fits
  <2> QED BY <1>1, <1>10, <1>12, <2>1, PushedFacts
<1>14. \A h : /\ BeingClosed(h)' <=> h = f \/ BeingClosed(h)
              /\ ToDo("discard", h)' <=> h = f \/ ToDo("discard", h)
              /\ Later("discard", h)' <=> h = f \/ Later("discard", h)
              /\ ToDo("sweep", h)' <=> ToDo("sweep", h)
              /\ Pending(h)' = Pending(h)
  <2>1. \A d, h : Has(u2, Step(d, h)) <=>
                    \/ d = "discard" /\ h = f
                    \/ d = "closed" /\ h = f
                    \/ Has(t, Step(d, h))
    BY <1>11, <1>12, StepEq
  <2>2. \A h : Count(u2, Step("unp_discard", h)) = Count(t, Step("unp_discard", h))
    BY <1>3, <1>11, <1>12, StepEq DEF One
  <2> QED BY <1>3, <1>13, <2>1, <2>2 DEF BeingClosed, One
<1>15. (Sweeping' <=> Sweeping) /\ Shape' /\ Grounded' /\ MarkInv' /\ SweepInv'
  BY <1>1, <1>3, <1>13, <1>14, ClosingStep
<1>16. Sockets'
  <2>1. \A h \in so_pcb : ~BeingClosed(h)
    BY <1>2, <1>3 DEF Sockets, TypeInv
  <2>2. \A h \in Files : Connected(h)'
    BY <1>1, <1>2 DEF Connected, Sockets
  <2>3. f \notin nofdref
    BY <1>1, <1>2 DEF Sockets
  <2> QED BY <1>1, <1>2, <1>13, <1>14, <2>1, <2>2, <2>3 DEF Sockets
<1>17. Balanced'
  <2> SUFFICES ASSUME NEW h \in Files
               PROVE  f_count'[h] = fds'[h] + f_msgcount'[h] + One(AtHead("closef", h)')
                                      + One(BeingClosed(h)')
    BY DEF Balanced
  <2>1. f_count[h] = fds[h] + f_msgcount[h] + One(AtHead("closef", h)) + One(BeingClosed(h))
    BY <1>2 DEF Balanced
  <2>2. CASE h = f
    <3>1. One(AtHead("closef", h)) = 1 /\ One(AtHead("closef", h)') = 0
          /\ One(BeingClosed(h)') = 1 /\ One(BeingClosed(h)) = 0
      BY <1>3, <1>13, <1>14, <2>2 DEF One
    <3> QED BY <1>1, <1>6, <2>1, <2>2, <3>1
  <2>3. CASE h # f
    <3>1. One(AtHead("closef", h)) = One(AtHead("closef", h)')
          /\ One(BeingClosed(h)') = One(BeingClosed(h))
      BY <1>3, <1>13, <1>14, <2>3 DEF One
    <3> QED BY <1>1, <2>1, <3>1
  <2> QED BY <2>2, <2>3
<1>18. RightsCounted'
  BY <1>1, <1>2, <1>5, <1>14, <1>15 DEF RightsCounted, Counted, Doomed
<1>19. LastClose'
  <2> SUFFICES ASSUME NEW h \in Files, Later("discard", h)'
               PROVE  \/ AtHead("detach", h)' /\ unp_gcing'
                      \/ InBuf(h)' = 0 /\ Pending(h)' = 0 /\ ~AtHead("closef", h)'
    BY DEF LastClose
  <2>1. CASE h # f
    BY <1>2, <1>3, <1>5, <1>13, <1>14, <2>1 DEF LastClose
  <2>2. CASE h = f /\ unp_gcing
    BY <1>1, <1>13, <2>2
  <2>3. CASE h = f /\ ~unp_gcing
    <3>1. Counted(f)
      BY <1>1, <1>2, <2>3 DEF Shape, RightsCounted, Doomed
    <3> QED BY <1>5, <1>7, <1>13, <1>14, <2>3, <3>1
  <2> QED BY <2>1, <2>2, <2>3
<1> QED BY <1>1, <1>15, <1>16, <1>17, <1>18, <1>19 DEF Full

(* The whole of closef(). *)
LEMMA KeepsClosef ==
  ASSUME TypeInv, Full, ~panicked, Closef PROVE TypeInv' /\ (panicked' \/ Imminent' \/ Full')
<1> DEFINE f == Head(work).f
<1>1. f_count[f] \in Nat
  <2>1. Doing("closef") /\ Shape /\ "closef" \in Calls
    BY DEF Closef, Full, Calls
  <2>2. f \in Files
    BY <2>1, HeadFacts
  <2> QED BY <2>2 DEF TypeInv
<1>2. CASE f_count[f] < 1
  <2>1. panicked' = TRUE
        /\ UNCHANGED <<f_count, f_msgcount, unp_rights, fds, f_data, so_pcb, nofdref, unp_conn,
                       so_rcv, unp_gcing, fmark, fdefer, work>>
    BY <1>2 DEF Closef, Panic, counts, sockets, gcvars
  <2> QED BY <2>1 DEF TypeInv
<1>3. CASE f_count[f] = 1
  BY <1>3, ClosefTwice, ClosefOnce
<1>4. CASE f_count[f] > 1
  BY <1>4, KeepsClosefMore
<1> HIDE DEF f
<1> QED BY <1>1, <1>2, <1>3, <1>4

(* unp_discard() gives back a reference that the file may not have. *)
LEMMA Keeps_unp_discard ==
  ASSUME TypeInv, Full, unp_discard PROVE TypeInv' /\ (Imminent' \/ Full')
<1> DEFINE f == Head(work).f
           t == Tail(work)
<1>1. /\ Doing("unp_discard") /\ f_msgcount' = [f_msgcount EXCEPT ![f] = f_msgcount[f] - 1]
      /\ unp_rights' = unp_rights - 1 /\ work' = <<Step("closef", f)>> \o t
      /\ UNCHANGED <<f_count, fds, f_data, so_pcb, nofdref, unp_conn, so_rcv,
                     unp_gcing, fmark, fdefer, panicked>>
  BY DEF unp_discard, Todo, sockets, gcvars
<1>2. Shape /\ Sockets /\ Balanced /\ RightsCounted /\ LastClose /\ Grounded
  BY DEF Full
<1>3. f \in Files
  <2>1. "unp_discard" \in Calls
    BY DEF Calls
  <2> QED BY <1>1, <1>2, <2>1, HeadFacts
<1>4. /\ t \in Seq(Steps) /\ ShapeOf(t, fmark) /\ Inner(t)
      /\ \A d, h : AtHead(d, h) <=> d = "unp_discard" /\ h = f
      /\ \A d, h : ToDo(d, h) <=> (d = "unp_discard" /\ h = f) \/ Has(t, Step(d, h))
      /\ \A d, h : Later(d, h) <=> Has(t, Step(d, h))
      /\ \A h : /\ Pending(h) = One("unp_discard" = "unp_discard" /\ h = f)
                                  + Count(t, Step("unp_discard", h))
                /\ Count(t, Step("unp_discard", h)) \in Nat
  BY <1>1, <1>2, HeadFacts
<1>5. t = <<>> \/ t[1].do # "sweep"
  BY <1>1, <1>2, BelowCall
<1> HIDE DEF f, t
<1>6. /\ work' \in Seq(Steps) /\ ShapeOf(work', fmark)
      /\ \A d, h : AtHead(d, h)' <=> d = "closef" /\ h = f
      /\ \A d, h : ToDo(d, h)' <=> (d = "closef" /\ h = f) \/ Has(t, Step(d, h))
      /\ \A d, h : Later(d, h)' <=> Has(t, Step(d, h))
      /\ \A h : Pending(h)' =
                  One("closef" = "unp_discard" /\ h = f) + Count(t, Step("unp_discard", h))
  <2>1. Step("closef", f) \in Steps
    BY <1>3 DEF Step, Steps, Calls
  <2>2. Fits(Step("closef", f), t, fmark)
    BY <1>5, StepEq DEF Fits
  <2> QED BY <1>1, <1>4, <2>1, <2>2, PushedFacts
<1>7. TypeInv'
  <2>1. f_msgcount' \in [Files -> Int] /\ unp_rights' \in Int
    BY <1>1, <1>3 DEF TypeInv
  <2> QED BY <1>1, <1>6, <2>1 DEF TypeInv
<1>8. \A h : /\ BeingClosed(h)' <=> BeingClosed(h)
             /\ ToDo("discard", h)' <=> ToDo("discard", h)
             /\ Later("discard", h)' <=> Later("discard", h)
             /\ ToDo("sweep", h)' <=> ToDo("sweep", h)
             /\ Pending(h) = Pending(h)' + One(h = f) /\ Pending(h)' \in Nat
             /\ InBuf(h) \in Nat /\ InBuf(h)' = InBuf(h)
  <2>1. \A h : InBuf(h) \in Nat /\ InBuf(h)' = InBuf(h)
    BY <1>1, InBufSame
  <2> QED BY <1>4, <1>6, <2>1 DEF BeingClosed, One
<1>9. CASE f_count[f] = 0
  <2>1. PICK h \in Files : h = f
    BY <1>3
  <2>2. AtHead("closef", h)' /\ f_count'[h] = 0
    BY <1>1, <1>6, <1>9, <2>1
  <2> QED BY <1>7, <2>2 DEF Imminent
<1>10. CASE f_count[f] # 0
  <2>1. (Sweeping' <=> Sweeping) /\ Shape' /\ Grounded' /\ MarkInv' /\ SweepInv'
    BY <1>1, <1>4, <1>6, <1>8, ClosingStep
  <2>2. Sockets'
    <3>1. \A h \in so_pcb : ~BeingClosed(h)
      BY <1>2, <1>4 DEF Sockets, TypeInv
    <3>2. \A h \in Files : Connected(h)'
      BY <1>1, <1>2 DEF Connected, Sockets
    <3> QED BY <1>1, <1>2, <1>8, <3>1, <3>2 DEF Sockets
  <2>3. \A h \in Files : /\ f_msgcount'[h] = f_msgcount[h] - One(h = f)
                         /\ f_msgcount[h] \in Int /\ fds[h] \in Nat /\ f_count[h] \in Nat
    BY <1>1, <1>3 DEF TypeInv, One
  <2>4. Balanced'
    <3> SUFFICES ASSUME NEW h \in Files
                 PROVE  f_count'[h] = fds'[h] + f_msgcount'[h] + One(AtHead("closef", h)')
                                        + One(BeingClosed(h)')
      BY DEF Balanced
    <3>1. f_count[h] = fds[h] + f_msgcount[h] + One(AtHead("closef", h)) + One(BeingClosed(h))
      BY <1>2 DEF Balanced
    <3>2. /\ One(AtHead("closef", h)) = 0 /\ One(AtHead("closef", h)') = One(h = f)
          /\ One(BeingClosed(h)') = One(BeingClosed(h))
          /\ One(h = f) \in Nat /\ One(BeingClosed(h)) \in Nat
      BY <1>4, <1>6, <1>8 DEF One
    <3> QED BY <1>1, <2>3, <3>1, <3>2
  <2>5. \A h \in Files : (Counted(h)' <=> Counted(h)) /\ (Doomed(h) => Doomed(h)')
    <3> SUFFICES ASSUME NEW h \in Files
                 PROVE  (Counted(h)' <=> Counted(h)) /\ (Doomed(h) => Doomed(h)')
      OBVIOUS
    <3>1. /\ Pending(h) = Pending(h)' + One(h = f) /\ Pending(h)' \in Nat
          /\ InBuf(h) \in Nat /\ InBuf(h)' = InBuf(h) /\ One(h = f) \in {0, 1}
          /\ f_msgcount'[h] = f_msgcount[h] - One(h = f) /\ f_msgcount[h] \in Int
      BY <1>8, <2>3 DEF One
    <3>2. Counted(h)' <=> Counted(h)
      BY <3>1 DEF Counted
    <3>3. Doomed(h) => Doomed(h)'
      <4>1. Doomed(h) => h # f
        BY <1>10 DEF Doomed
      <4> QED BY <1>1, <3>1, <4>1 DEF Doomed, One
    <3> QED BY <3>2, <3>3
  <2>6. RightsCounted'
    BY <1>1, <1>2, <2>1, <2>5 DEF RightsCounted
  <2>7. LastClose'
    <3> SUFFICES ASSUME NEW h \in Files, Later("discard", h)'
                 PROVE  InBuf(h)' = 0 /\ Pending(h)' = 0 /\ ~AtHead("closef", h)'
      BY DEF LastClose
    <3>1. InBuf(h) = 0 /\ Pending(h) = 0
      BY <1>2, <1>4, <1>8 DEF LastClose
    <3>2. Pending(h) = Pending(h)' + One(h = f) /\ Pending(h)' \in Nat /\ InBuf(h)' = InBuf(h)
      BY <1>8
    <3>3. h # f
      BY <3>1, <3>2 DEF One
    <3> QED BY <1>6, <3>1, <3>2, <3>3 DEF One
  <2> QED BY <1>7, <2>1, <2>2, <2>4, <2>6, <2>7 DEF Full
<1> QED BY <1>9, <1>10

(* The part of the invariant about sockets, after a step that leaves       *)
(* f_count, f_data, nofdref and the buffers alone.                         *)
LEMMA SocketsStay ==
  ASSUME TypeInv, Sockets, UNCHANGED <<f_count, f_data, nofdref, so_rcv>>, so_pcb' \subseteq so_pcb,
         \A h \in Files : Connected(h)',
         \A h \in so_pcb' : ~BeingClosed(h),
         \A h : /\ BeingClosed(h)' <=> BeingClosed(h)
                /\ ToDo("discard", h)' <=> ToDo("discard", h)
  PROVE  Sockets'
BY DEF Sockets

(* The counts and what is being closed stay. *)
LEMMA BalancedStays ==
  ASSUME TypeInv, Balanced, UNCHANGED <<f_count, f_msgcount, fds>>,
         \A h : /\ BeingClosed(h)' <=> BeingClosed(h)
                /\ AtHead("closef", h)' <=> AtHead("closef", h)
  PROVE  Balanced'
<1> SUFFICES ASSUME NEW h \in Files
             PROVE  f_count'[h] = fds'[h] + f_msgcount'[h] + One(AtHead("closef", h)')
                                    + One(BeingClosed(h)')
  BY DEF Balanced
<1>1. f_count[h] = fds[h] + f_msgcount[h] + One(AtHead("closef", h)) + One(BeingClosed(h))
  BY DEF Balanced
<1>2. /\ One(AtHead("closef", h)') = One(AtHead("closef", h))
      /\ One(BeingClosed(h)') = One(BeingClosed(h))
  BY DEF One
<1> QED BY <1>1, <1>2

(* unp_detach() of f: the peer of f has none any more. *)
LEMMA DetachedConnected ==
  ASSUME TypeInv, Sockets, NEW f \in Files, so_pcb' = so_pcb \ {f},
         unp_conn' = [g \in Files |-> IF g \in {f, unp_conn[f]} THEN None ELSE unp_conn[g]]
  PROVE  \A h \in Files : Connected(h)'
<1> SUFFICES ASSUME NEW h \in Files, unp_conn'[h] # None
             PROVE  h \in so_pcb' /\ unp_conn'[h] \in so_pcb' /\ unp_conn'[unp_conn'[h]] = h
  BY DEF Connected
<1>1. h # f /\ h # unp_conn[f] /\ unp_conn'[h] = unp_conn[h]
  OBVIOUS
<1>2. h \in so_pcb /\ unp_conn[h] \in so_pcb /\ unp_conn[unp_conn[h]] = h
  BY <1>1 DEF Sockets, Connected
<1>3. unp_conn[h] # f
  BY <1>1, <1>2
<1>4. unp_conn[h] # unp_conn[f]
  <2> SUFFICES ASSUME unp_conn[h] = unp_conn[f] PROVE FALSE
    OBVIOUS
  <2>1. unp_conn[f] # None
    BY <1>1
  <2>2. unp_conn[unp_conn[f]] = f
    BY <2>1 DEF Sockets, Connected
  <2> QED BY <1>1, <1>2, <2>2
<1>5. unp_conn[h] \in Files
  BY <1>2 DEF TypeInv
<1> QED BY <1>1, <1>2, <1>3, <1>4, <1>5

(* soclose() as far as unp_detach(), without a collection. *)
LEMMA KeepsDetachOnly ==
  ASSUME TypeInv, Full, NEW f, f = Head(work).f, Detach,
         f \notin so_pcb \/ ~(unp_rights # 0 /\ ~unp_gcing)
  PROVE  TypeInv' /\ Full'
<1> DEFINE t == Tail(work)
<1>1. /\ Doing("detach") /\ work' = <<>> \o t /\ so_pcb' = so_pcb \ {f}
      /\ UNCHANGED <<f_count, f_msgcount, unp_rights, fds, f_data, nofdref, so_rcv,
                     unp_gcing, fmark, fdefer, panicked>>
  BY DEF Detach, Todo, counts, gcvars, TypeInv
<1>2. Shape /\ Sockets /\ Balanced /\ RightsCounted /\ LastClose /\ Grounded
  BY DEF Full
<1>3. f \in Files
  <2>1. "detach" \in Calls
    BY DEF Calls
  <2> QED BY <1>1, <1>2, <2>1, HeadFacts
<1>4. /\ t \in Seq(Steps) /\ ShapeOf(t, fmark) /\ Inner(t)
      /\ \A d, h : AtHead(d, h) <=> d = "detach" /\ h = f
      /\ \A d, h : ToDo(d, h) <=> (d = "detach" /\ h = f) \/ Has(t, Step(d, h))
      /\ \A d, h : Later(d, h) <=> Has(t, Step(d, h))
      /\ \A h : /\ Pending(h) = One("detach" = "unp_discard" /\ h = f)
                                  + Count(t, Step("unp_discard", h))
                /\ Count(t, Step("unp_discard", h)) \in Nat
  BY <1>1, <1>2, HeadFacts
<1>5. t # <<>> /\ t[1] = Step("discard", f)
  BY <1>1, <1>2, BelowDetach
<1> HIDE DEF t
<1>6. work' = t
  BY <1>1, <1>4
<1>7. /\ work' \in Seq(Steps) /\ ShapeOf(work', fmark)
      /\ \A h : ~AtHead("closef", h)' /\ ~AtHead("detach", h)' /\ ~AtHead("mark", h)'
      /\ \A d, h : ToDo(d, h)' <=> Has(t, Step(d, h))
      /\ \A d, h : Later(d, h)' => Has(t, Step(d, h))
      /\ \A h : Pending(h)' = Count(t, Step("unp_discard", h))
      /\ \A n : ~AtHead("sweep", n)'
  <2>1. t[1].do # "sweep"
    BY <1>5, StepEq
  <2> QED BY <1>4, <1>6, <2>1, PoppedFacts
<1>8. ~Later("discard", f)'
  <2>1. ~Has(Tail(t), t[1])
    BY <1>4, <1>5, StepEq, ShapeFacts
  <2> QED BY <1>5, <1>6, <2>1 DEF Later
<1>9. (\A h \in Files : Connected(h)') /\ unp_conn' \in [Files -> Files \cup {None}]
  <2>1. CASE f \notin so_pcb
    <3>1. unp_conn' = unp_conn /\ so_pcb' = so_pcb
      BY <1>1, <2>1 DEF Detach
    <3> QED BY <1>2, <3>1 DEF Sockets, Connected, TypeInv
  <2>2. CASE f \in so_pcb
    <3>1. unp_conn' = [g \in Files |-> IF g \in {f, unp_conn[f]} THEN None ELSE unp_conn[g]]
      BY <2>2 DEF Detach
    <3> QED BY <1>1, <1>2, <1>3, <3>1, DetachedConnected DEF TypeInv
  <2> QED BY <2>1, <2>2
<1>10. TypeInv'
  BY <1>1, <1>7, <1>9 DEF TypeInv
<1>11. \A h : /\ BeingClosed(h)' <=> BeingClosed(h)
              /\ ToDo("discard", h)' <=> ToDo("discard", h)
              /\ ToDo("sweep", h)' <=> ToDo("sweep", h)
              /\ Pending(h)' = Pending(h) /\ InBuf(h)' = InBuf(h)
  BY <1>1, <1>4, <1>7, InBufSame DEF BeingClosed, One
<1>12. (Sweeping' <=> Sweeping) /\ Shape' /\ Grounded' /\ MarkInv' /\ SweepInv'
  BY <1>1, <1>4, <1>7, <1>11, ClosingStep
<1>13. Sockets'
  <2>1. \A h \in so_pcb' : ~BeingClosed(h)
    BY <1>1, <1>2, <1>4 DEF Sockets, TypeInv
  <2> QED BY <1>1, <1>2, <1>9, <1>11, <2>1, SocketsStay
<1>14. Balanced'
  BY <1>1, <1>2, <1>4, <1>7, <1>11, BalancedStays
<1>15. RightsCounted'
  BY <1>1, <1>2, <1>11, <1>12 DEF RightsCounted, Counted, Doomed
<1>16. LastClose'
  BY <1>2, <1>4, <1>7, <1>8, <1>11 DEF LastClose
<1> QED BY <1>10, <1>12, <1>13, <1>14, <1>15, <1>16 DEF Full

(* unp_detach() that starts unp_gc(). *)
LEMMA KeepsDetachGC ==
  ASSUME TypeInv, Full, NEW f, f = Head(work).f, Detach,
         f \in so_pcb, unp_rights # 0 /\ ~unp_gcing
  PROVE  TypeInv' /\ Full'
<1> DEFINE t == Tail(work)
<1>1. /\ Doing("detach") /\ work' = <<Step("mark", 1)>> \o t /\ so_pcb' = so_pcb \ {f}
      /\ unp_conn' = [g \in Files |-> IF g \in {f, unp_conn[f]} THEN None ELSE unp_conn[g]]
      /\ unp_gcing' = TRUE
      /\ UNCHANGED <<f_count, f_msgcount, unp_rights, fds, f_data, nofdref, so_rcv,
                     fmark, fdefer, panicked>>
  BY DEF Detach, Todo, counts, TypeInv
<1>2. Shape /\ Sockets /\ Balanced /\ RightsCounted /\ LastClose /\ Grounded
  BY DEF Full
<1>3. f \in Files
  <2>1. "detach" \in Calls
    BY DEF Calls
  <2> QED BY <1>1, <1>2, <2>1, HeadFacts
<1>4. /\ t \in Seq(Steps) /\ ShapeOf(t, fmark) /\ Inner(t)
      /\ \A d, h : AtHead(d, h) <=> d = "detach" /\ h = f
      /\ \A d, h : ToDo(d, h) <=> (d = "detach" /\ h = f) \/ Has(t, Step(d, h))
      /\ \A d, h : Later(d, h) <=> Has(t, Step(d, h))
      /\ \A h : /\ Pending(h) = One("detach" = "unp_discard" /\ h = f)
                                  + Count(t, Step("unp_discard", h))
                /\ Count(t, Step("unp_discard", h)) \in Nat
  BY <1>1, <1>2, HeadFacts
<1>5. t = <<>> \/ t[1].do # "sweep"
  BY <1>1, <1>2, BelowCall
<1>6. fmark = {} /\ fdefer = {} /\ ~Sweeping /\ ~Marking
  BY <1>2 DEF Shape
<1> HIDE DEF t
<1>7. /\ work' \in Seq(Steps) /\ ShapeOf(work', fmark)
      /\ \A d, h : AtHead(d, h)' <=> d = "mark" /\ h = 1
      /\ \A d, h : ToDo(d, h)' <=> (d = "mark" /\ h = 1) \/ Has(t, Step(d, h))
      /\ \A d, h : Later(d, h)' <=> Has(t, Step(d, h))
      /\ \A h : Pending(h)' =
                  One("mark" = "unp_discard" /\ h = 1) + Count(t, Step("unp_discard", h))
  <2>1. Step("mark", 1) \in Steps
    BY DEF Step, Steps, Loops
  <2>2. Fits(Step("mark", 1), t, fmark)
    BY <1>5, StepEq DEF Fits
  <2> QED BY <1>1, <1>4, <2>1, <2>2, PushedFacts
<1>8. TypeInv'
  <2>1. unp_conn' \in [Files -> Files \cup {None}]
    BY <1>1 DEF TypeInv
  <2> QED BY <1>1, <1>7, <2>1 DEF TypeInv
<1>9. \A h : /\ BeingClosed(h)' <=> BeingClosed(h)
             /\ ToDo("discard", h)' <=> ToDo("discard", h)
             /\ ToDo("sweep", h)' <=> ToDo("sweep", h)
             /\ Later("discard", h)' <=> Later("discard", h)
             /\ Pending(h)' = Pending(h) /\ InBuf(h)' = InBuf(h)
  BY <1>1, <1>4, <1>7, InBufSame DEF BeingClosed, One
<1>10. Marking' /\ ~Sweeping'
  <2>1. 1 \in Turns
    BY DEF Turns
  <2> QED BY <1>6, <1>7, <1>9, <2>1 DEF Marking, Sweeping
<1>11. Shape'
  BY <1>1, <1>7, <1>10 DEF Shape
<1>12. Grounded' /\ SweepInv'
  BY <1>1, <1>6, <1>10 DEF Grounded, SweepInv, Sweeping
<1>13. MarkInv'
  <2>1. \A h \in Files : ~(h < 1)
    BY DEF Files
  <2> QED BY <1>1, <1>6, <1>7, <2>1 DEF MarkInv
<1>14. Sockets'
  <2>1. \A h \in so_pcb' : ~BeingClosed(h)
    BY <1>1, <1>2, <1>4 DEF Sockets, TypeInv
  <2>2. \A h \in Files : Connected(h)'
    BY <1>1, <1>2, <1>3, DetachedConnected
  <2> QED BY <1>1, <1>2, <1>9, <2>1, <2>2, SocketsStay
<1>15. Balanced'
  BY <1>1, <1>2, <1>4, <1>7, <1>9, BalancedStays
<1>16. RightsCounted'
  BY <1>1, <1>2, <1>6, <1>9, <1>10 DEF RightsCounted, Counted, Doomed
<1>17. LastClose'
  BY <1>2, <1>4, <1>7, <1>9 DEF LastClose
<1> QED BY <1>8, <1>11, <1>12, <1>13, <1>14, <1>15, <1>16, <1>17 DEF Full

(* unp_detach(), with and without a collection. *)
LEMMA KeepsDetach ==
  ASSUME TypeInv, Full, Detach PROVE TypeInv' /\ Full'
BY KeepsDetachOnly, KeepsDetachGC

(* The rights of a buffer, to be discarded. *)
LEMMA DiscardsOf ==
  ASSUME NEW q \in Seq(Files), NEW d, d = [i \in DOMAIN q |-> Step("unp_discard", q[i])]
  PROVE  /\ d \in Seq(Steps) /\ DOMAIN d = DOMAIN q /\ \A i \in DOMAIN d : d[i].do = "unp_discard"
         /\ \A f : Count(d, Step("unp_discard", f)) = Count(q, f)
         /\ \A c, f : c # "unp_discard" => ~Has(d, Step(c, f))
<1>1. Len(q) \in Nat /\ DOMAIN q = 1 .. Len(q)
  BY LenProperties
<1>2. \A i \in DOMAIN q : Step("unp_discard", q[i]) \in Steps
  BY DEF Step, Steps, Calls
<1>3. d \in Seq(Steps)
  <2>1. d \in [1 .. Len(q) -> Steps]
    BY <1>1, <1>2
  <2> QED BY <1>1, <2>1, SeqDef
<1>4. DOMAIN d = DOMAIN q /\ \A i \in DOMAIN d : d[i] = Step("unp_discard", q[i])
  OBVIOUS
<1>5. \A i \in DOMAIN d : d[i].do = "unp_discard"
  BY <1>4, StepEq
<1>6. ASSUME NEW f PROVE Count(d, Step("unp_discard", f)) = Count(q, f)
  <2>1. {i \in DOMAIN d : d[i] = Step("unp_discard", f)} = {i \in DOMAIN q : q[i] = f}
    BY <1>4, StepEq
  <2> QED BY <2>1 DEF Count
<1>7. \A c, f : c # "unp_discard" => ~Has(d, Step(c, f))
  BY <1>4, StepEq DEF Has
<1> QED BY <1>3, <1>4, <1>5, <1>6, <1>7

(* sofree() and sorflush(): the rights in the buffer become work. *)
LEMMA KeepsDiscard ==
  ASSUME TypeInv, Full, NEW f, f = Head(work).f, Discard PROVE TypeInv' /\ (panicked' \/ Full')
<1> DEFINE t == Tail(work)
           q == so_rcv[f]
           d == [i \in DOMAIN q |-> Step("unp_discard", q[i])]
<1>1. Doing("discard") /\ "discard" \in Calls
  BY DEF Discard, Calls
<1>2. Shape /\ Sockets /\ Balanced /\ RightsCounted /\ LastClose /\ Grounded
  BY DEF Full
<1>3. f \in Files
  BY <1>1, <1>2, HeadFacts
<1>4. /\ t \in Seq(Steps) /\ ShapeOf(t, fmark) /\ Inner(t)
      /\ \A c, h : AtHead(c, h) <=> c = "discard" /\ h = f
      /\ \A c, h : ToDo(c, h) <=> (c = "discard" /\ h = f) \/ Has(t, Step(c, h))
      /\ \A c, h : Later(c, h) <=> Has(t, Step(c, h))
      /\ \A h : /\ Pending(h) = One("discard" = "unp_discard" /\ h = f)
                                  + Count(t, Step("unp_discard", h))
                /\ Count(t, Step("unp_discard", h)) \in Nat
  BY <1>1, <1>2, HeadFacts
<1>5. /\ t # <<>> /\ t[1] = Step("closed", f) /\ ~Has(t, Step("discard", f))
      /\ f \notin fmark \/ ~Sweeping
  BY <1>1, <1>2, BelowDiscard
<1>6. f \notin nofdref
  BY <1>2, <1>3, <1>4 DEF Sockets
<1>7. /\ nofdref' = nofdref \cup {f} /\ so_rcv' = [so_rcv EXCEPT ![f] = <<>>] /\ work' = d \o t
      /\ UNCHANGED <<f_count, f_msgcount, unp_rights, fds, f_data, so_pcb, unp_conn,
                     unp_gcing, fmark, fdefer, panicked>>
  BY <1>6 DEF Discard, Todo, counts, gcvars
<1>8. q \in Seq(Files) /\ <<>> \in Seq(Files)
  BY <1>3 DEF TypeInv
<1>9. /\ d \in Seq(Steps) /\ DOMAIN d = DOMAIN q /\ \A i \in DOMAIN d : d[i].do = "unp_discard"
      /\ \A h : Count(d, Step("unp_discard", h)) = Count(q, h)
      /\ \A c, h : c # "unp_discard" => ~Has(d, Step(c, h))
  BY <1>8, DiscardsOf
<1> HIDE DEF t, d
<1>10. work' \in Seq(Steps) /\ ShapeOf(work', fmark)
  <2>1. t[1].do # "sweep"
    BY <1>5, StepEq
  <2> QED BY <1>4, <1>7, <1>9, <2>1, ShapeDiscards
<1>11. \A e : /\ Has(work', e) <=> Has(d, e) \/ Has(t, e)
              /\ Count(work', e) = Count(d, e) + Count(t, e)
  BY <1>4, <1>7, <1>9, CountConcat
<1>12. work' # <<>> /\ \A c, h : AtHead(c, h)' => c \in {"unp_discard", "closed"}
  <2>1. CASE d = <<>>
    <3>1. work' = t
      BY <1>4, <1>7, <2>1
    <3> QED BY <1>5, <3>1, StepEq DEF AtHead
  <2>2. CASE d # <<>>
    <3>1. 1 \in DOMAIN d /\ work' # <<>> /\ work'[1] = d[1]
      BY <1>4, <1>7, <1>9, <2>2
    <3> QED BY <1>9, <3>1, StepEq DEF AtHead
  <2> QED BY <2>1, <2>2
<1>13. \A h : /\ BeingClosed(h)' <=> BeingClosed(h)
              /\ ToDo("discard", h)' <=> ToDo("discard", h) /\ h # f
              /\ ToDo("sweep", h)' <=> ToDo("sweep", h)
              /\ Later("discard", h)' => Later("discard", h) /\ h # f
  <2>1. \A c, h : c # "unp_discard" => (ToDo(c, h)' <=> Has(t, Step(c, h)))
    BY <1>9, <1>11 DEF ToDo
  <2>2. \A h : Later("discard", h)' => ToDo("discard", h)'
    BY <1>10, <1>12, CountTail DEF Later, ToDo
  <2> QED BY <1>4, <1>5, <2>1, <2>2 DEF BeingClosed
<1>14. ASSUME NEW h
       PROVE  /\ InBuf(h)' + Pending(h)' = InBuf(h) + Pending(h)
              /\ InBuf(h)' \in Nat /\ Pending(h)' \in Nat /\ InBuf(h) \in Nat /\ Pending(h) \in Nat
              /\ InBuf(h)' <= InBuf(h)
  <2>1. /\ InBuf(h)' + Count(q, h) = InBuf(h) + Count(<<>>, h)
        /\ InBuf(h)' \in Nat /\ InBuf(h) \in Nat /\ Count(q, h) \in Nat
    BY <1>3, <1>7, <1>8, InBufChange
  <2>2. Count(<<>>, h) = 0
    BY NoWork
  <2>3. Pending(h)' = Count(q, h) + Count(t, Step("unp_discard", h))
    BY <1>9, <1>11 DEF Pending
  <2>4. Pending(h) = Count(t, Step("unp_discard", h)) /\ Count(t, Step("unp_discard", h)) \in Nat
    BY <1>4 DEF One
  <2> QED BY <2>1, <2>2, <2>3, <2>4
<1>15. f \notin fmark
  <2>1. ~Marking
    BY <1>4 DEF Marking
  <2> QED BY <1>2, <1>5, <2>1 DEF Shape
<1>16. so_rcv' \in [Files -> Seq(Files)] /\ so_rcv'[f] = <<>>
       /\ \A h \in Files : h # f => so_rcv'[h] = so_rcv[h]
  BY <1>3, <1>7, <1>8 DEF TypeInv
<1>17. TypeInv'
  BY <1>3, <1>7, <1>10, <1>16 DEF TypeInv
<1>18. (Sweeping' <=> Sweeping) /\ Shape' /\ Grounded' /\ MarkInv' /\ SweepInv'
  <2>1. \A h \in fmark : so_rcv'[h] = so_rcv[h]
    BY <1>15, <1>16 DEF TypeInv
  <2>2. \A n : /\ ToDo("sweep", n)' <=> ToDo("sweep", n)
               /\ ~AtHead("mark", n) /\ ~AtHead("mark", n)'
               /\ ~AtHead("sweep", n) /\ ~AtHead("sweep", n)'
    BY <1>4, <1>12, <1>13
  <2> QED BY <1>7, <1>10, <1>13, <2>1, <2>2, ClosingStep
<1>19. Sockets'
  <2>1. \A h \in so_pcb : ~BeingClosed(h)
    BY <1>2, <1>4 DEF Sockets, TypeInv
  <2>2. \A h \in Files : Connected(h)'
    BY <1>2, <1>7 DEF Sockets, Connected
  <2>3. BeingClosed(f)
    BY <1>1, <1>2, <1>4, DiscardCloses
  <2> SUFFICES ASSUME NEW h \in Files
               PROVE  /\ h \in f_data' <=> f_count'[h] > 0
                      /\ so_rcv'[h] # <<>> => f_count'[h] > 0
                      /\ Connected(h)'
                      /\ h \in so_pcb' => f_count'[h] > 0
                      /\ h \in so_pcb' /\ BeingClosed(h)' => AtHead("detach", h)'
                      /\ h \in nofdref' => BeingClosed(h)' /\ ~ToDo("discard", h)' /\ so_rcv'[h] = <<>>
                      /\ BeingClosed(h)' => f_count'[h] = 1 /\ (h \in nofdref' \/ ToDo("discard", h)')
    BY DEF Sockets
  <2> QED BY <1>2, <1>3, <1>7, <1>13, <1>16, <2>1, <2>2, <2>3 DEF Sockets
<1>20. Balanced'
  BY <1>2, <1>4, <1>7, <1>12, <1>13, BalancedStays
<1>21. RightsCounted'
  <2>1. ASSUME NEW h \in Files PROVE (Counted(h)' <=> Counted(h)) /\ (Doomed(h) => Doomed(h)')
    BY <1>7, <1>14 DEF Counted, Doomed
  <2> QED BY <1>2, <1>7, <1>18, <2>1 DEF RightsCounted
<1>22. LastClose'
  <2> SUFFICES ASSUME NEW h \in Files, Later("discard", h)'
               PROVE  InBuf(h)' = 0 /\ Pending(h)' = 0 /\ ~AtHead("closef", h)'
    BY DEF LastClose
  <2>1. InBuf(h) = 0 /\ Pending(h) = 0
    BY <1>2, <1>4, <1>13 DEF LastClose
  <2>2. InBuf(h)' + Pending(h)' = InBuf(h) + Pending(h) /\ InBuf(h)' \in Nat /\ Pending(h)' \in Nat
    BY <1>14
  <2>3. InBuf(h)' = 0 /\ Pending(h)' = 0
    BY <2>1, <2>2
  <2> QED BY <1>12, <2>3
<1> QED BY <1>17, <1>18, <1>19, <1>20, <1>21, <1>22 DEF Full

(* The end of the last closef(). *)
LEMMA KeepsClosed ==
  ASSUME TypeInv, Full, NEW f, f = Head(work).f, Closed PROVE TypeInv' /\ Full'
<1> DEFINE t == Tail(work)
<1>1. Doing("closed") /\ "closed" \in Calls
  BY DEF Closed, Calls
<1>2. Shape /\ Sockets /\ Balanced /\ RightsCounted /\ LastClose /\ Grounded
  BY DEF Full
<1>3. f \in Files
  BY <1>1, <1>2, HeadFacts
<1>4. /\ t \in Seq(Steps) /\ ShapeOf(t, fmark) /\ Inner(t)
      /\ \A c, h : AtHead(c, h) <=> c = "closed" /\ h = f
      /\ \A c, h : ToDo(c, h) <=> (c = "closed" /\ h = f) \/ Has(t, Step(c, h))
      /\ \A c, h : Later(c, h) <=> Has(t, Step(c, h))
      /\ \A h : /\ Pending(h) = One("closed" = "unp_discard" /\ h = f)
                                  + Count(t, Step("unp_discard", h))
                /\ Count(t, Step("unp_discard", h)) \in Nat
  BY <1>1, <1>2, HeadFacts
<1>5. /\ ~Has(t, Step("closed", f)) /\ ~ToDo("discard", f)
      /\ f \notin fmark \/ ~Sweeping
  BY <1>1, <1>2, BelowClosed
<1>6. t = <<>> \/ t[1].do # "sweep"
  BY <1>1, <1>2, BelowCall
<1>7. /\ nofdref' = nofdref \ {f} /\ f_data' = f_data \ {f} /\ f_count' = [f_count EXCEPT ![f] = 0]
      /\ work' = <<>> \o t
      /\ UNCHANGED <<f_msgcount, unp_rights, fds, so_pcb, unp_conn, so_rcv,
                     unp_gcing, fmark, fdefer, panicked>>
  BY DEF Closed, Todo, gcvars
<1> HIDE DEF t
<1>8. work' = t
  BY <1>4, <1>7
<1>9. /\ work' \in Seq(Steps) /\ ShapeOf(work', fmark)
      /\ \A h : ~AtHead("closef", h)' /\ ~AtHead("detach", h)' /\ ~AtHead("mark", h)'
      /\ \A c, h : ToDo(c, h)' <=> Has(t, Step(c, h))
      /\ \A c, h : Later(c, h)' => Has(t, Step(c, h))
      /\ \A h : Pending(h)' = Count(t, Step("unp_discard", h))
      /\ \A n : ~AtHead("sweep", n)'
  BY <1>4, <1>6, <1>8, PoppedFacts
<1>10. \A h : /\ BeingClosed(h)' <=> BeingClosed(h) /\ h # f
              /\ ToDo("discard", h)' <=> ToDo("discard", h)
              /\ ToDo("sweep", h)' <=> ToDo("sweep", h)
              /\ Later("discard", h)' => Later("discard", h)
              /\ Pending(h)' = Pending(h) /\ InBuf(h)' = InBuf(h)
  BY <1>4, <1>5, <1>7, <1>9, InBufSame DEF BeingClosed, One
<1>11. BeingClosed(f) /\ f_count[f] = 1 /\ f \in nofdref /\ so_rcv[f] = <<>> /\ f \notin so_pcb
  <2>1. BeingClosed(f)
    BY <1>4 DEF BeingClosed
  <2> QED BY <1>2, <1>3, <1>4, <1>5, <2>1 DEF Sockets
<1>12. TypeInv'
  <2>1. f_count' \in [Files -> Nat]
    BY <1>3, <1>7 DEF TypeInv
  <2> QED BY <1>7, <1>9, <2>1 DEF TypeInv
<1>13. f_count'[f] = 0 /\ \A h \in Files : h # f => f_count'[h] = f_count[h]
  BY <1>3, <1>7 DEF TypeInv
<1>14. f \notin fmark
  <2>1. ~Marking
    BY <1>4 DEF Marking
  <2> QED BY <1>2, <1>5, <2>1 DEF Shape
<1>15. (Sweeping' <=> Sweeping) /\ Shape' /\ Grounded' /\ MarkInv' /\ SweepInv'
  <2>1. \A h \in Files : f_count[h] = 0 => f_count'[h] = 0
    BY <1>13
  <2>2. \A h \in fmark : (BeingClosed(h) => BeingClosed(h)') /\ so_rcv'[h] = so_rcv[h]
    BY <1>7, <1>10, <1>14
  <2>3. \A n : /\ ToDo("sweep", n)' <=> ToDo("sweep", n)
               /\ ~AtHead("mark", n) /\ ~AtHead("mark", n)'
               /\ ~AtHead("sweep", n) /\ ~AtHead("sweep", n)'
    BY <1>4, <1>9, <1>10
  <2> QED BY <1>7, <1>9, <2>1, <2>2, <2>3, ClosingStep
<1>16. Sockets'
  <2>1. \A h \in so_pcb : ~BeingClosed(h)
    BY <1>2, <1>4 DEF Sockets, TypeInv
  <2>2. \A h \in Files : Connected(h)'
    BY <1>2, <1>7 DEF Sockets, Connected
  <2> SUFFICES ASSUME NEW h \in Files
               PROVE  /\ h \in f_data' <=> f_count'[h] > 0
                      /\ so_rcv'[h] # <<>> => f_count'[h] > 0
                      /\ Connected(h)'
                      /\ h \in so_pcb' => f_count'[h] > 0
                      /\ h \in so_pcb' /\ BeingClosed(h)' => AtHead("detach", h)'
                      /\ h \in nofdref' => BeingClosed(h)' /\ ~ToDo("discard", h)' /\ so_rcv'[h] = <<>>
                      /\ BeingClosed(h)' => f_count'[h] = 1 /\ (h \in nofdref' \/ ToDo("discard", h)')
    BY DEF Sockets
  <2> QED BY <1>2, <1>3, <1>7, <1>10, <1>11, <1>13, <2>1, <2>2 DEF Sockets
<1>17. Balanced'
  <2> SUFFICES ASSUME NEW h \in Files
               PROVE  f_count'[h] = fds'[h] + f_msgcount'[h] + One(AtHead("closef", h)')
                                      + One(BeingClosed(h)')
    BY DEF Balanced
  <2>1. f_count[h] = fds[h] + f_msgcount[h] + One(AtHead("closef", h)) + One(BeingClosed(h))
    BY <1>2 DEF Balanced
  <2>2. /\ One(AtHead("closef", h)) = 0 /\ One(AtHead("closef", h)') = 0
        /\ One(BeingClosed(h)') = IF h = f THEN 0 ELSE One(BeingClosed(h))
        /\ One(BeingClosed(f)) = 1
    BY <1>4, <1>9, <1>10, <1>11 DEF One
  <2>3. fds[h] \in Nat /\ f_msgcount[h] \in Int
    BY DEF TypeInv
  <2> QED BY <1>7, <1>11, <1>13, <2>1, <2>2, <2>3
<1>18. RightsCounted'
  <2>1. ASSUME NEW h \in Files PROVE (Counted(h)' <=> Counted(h)) /\ (Doomed(h) => Doomed(h)')
    BY <1>7, <1>10, <1>11, <1>13 DEF Counted, Doomed
  <2> QED BY <1>2, <1>7, <1>15, <2>1 DEF RightsCounted
<1>19. LastClose'
  BY <1>2, <1>4, <1>9, <1>10 DEF LastClose
<1> QED BY <1>12, <1>15, <1>16, <1>17, <1>18, <1>19 DEF Full

-----------------------------------------------------------------------------
(* unp_gc().                                                               *)

(* The loops change neither counts nor sockets. *)
LEMMA LoopStep ==
  ASSUME TypeInv, Full, UNCHANGED <<counts, fds, sockets>>,
         \A h : /\ BeingClosed(h)' <=> BeingClosed(h)
                /\ ToDo("discard", h)' <=> ToDo("discard", h)
                /\ ~AtHead("closef", h) /\ ~AtHead("closef", h)'
                /\ ~AtHead("detach", h)
                /\ Later("discard", h)' => Later("discard", h) /\ Pending(h)' = Pending(h)
  PROVE  /\ Sockets' /\ Balanced' /\ LastClose'
         /\ \A h : InBuf(h) \in Nat /\ InBuf(h)' = InBuf(h)
<1>1. UNCHANGED <<f_count, f_msgcount, unp_rights, fds, f_data, so_pcb, nofdref, unp_conn, so_rcv>>
  BY DEF counts, sockets
<1>2. \A h : InBuf(h) \in Nat /\ InBuf(h)' = InBuf(h)
  BY <1>1, InBufSame
<1>3. Sockets'
  <2>1. \A h \in so_pcb' : ~BeingClosed(h)
    BY <1>1 DEF Full, Sockets, TypeInv
  <2>2. \A h \in Files : Connected(h)'
    BY <1>1 DEF Full, Sockets, Connected
  <2> QED BY <1>1, <2>1, <2>2, SocketsStay DEF Full
<1>4. Balanced'
  BY <1>1, BalancedStays DEF Full
<1>5. LastClose'
  BY <1>2 DEF LastClose, Full
<1> QED BY <1>2, <1>3, <1>4, <1>5

(* A file being closed, or a process's, has references that are not from   *)
(* messages; an unmarked file has none when the marking is done.           *)
LEMMA NotOnlyMessages ==
  ASSUME TypeInv, Full, NEW f \in Files, ~AtHead("closef", f)
  PROVE  /\ f_count[f] = fds[f] + f_msgcount[f] + One(BeingClosed(f))
         /\ BeingClosed(f) => f_count[f] # 0 /\ f_count[f] # f_msgcount[f]
         /\ f_count[f] # f_msgcount[f] => Held(f) \/ BeingClosed(f)
         /\ f_count[f] = f_msgcount[f] => fds[f] = 0 /\ ~BeingClosed(f)
         /\ fds[f] \in Nat /\ f_msgcount[f] \in Int /\ f_count[f] \in Nat
<1>1. fds[f] \in Nat /\ f_msgcount[f] \in Int /\ f_count[f] \in Nat
  BY DEF TypeInv
<1>2. f_count[f] = fds[f] + f_msgcount[f] + One(AtHead("closef", f)) + One(BeingClosed(f))
  BY DEF Full, Balanced
<1>3. One(AtHead("closef", f)) = 0 /\ (BeingClosed(f) => One(BeingClosed(f)) = 1)
      /\ (~BeingClosed(f) => One(BeingClosed(f)) = 0)
  BY DEF One
<1>4. BeingClosed(f) => f_count[f] = 1
  BY DEF Full, Sockets
<1> QED BY <1>1, <1>2, <1>3, <1>4 DEF Held

(* What the marking loop knows. *)
LEMMA MarkFacts ==
  ASSUME TypeInv, Full, Mark, NEW n, n = Head(work).f, NEW t, t = Tail(work)
  PROVE  /\ Doing("mark") /\ n \in Turns /\ t \in Seq(Steps) /\ ShapeOf(t, fmark) /\ Inner(t)
         /\ \A c, h : AtHead(c, h) <=> c = "mark" /\ h = n
         /\ \A c, h : ToDo(c, h) <=> (c = "mark" /\ h = n) \/ Has(t, Step(c, h))
         /\ \A c, h : Later(c, h) <=> Has(t, Step(c, h))
         /\ \A h : Pending(h) = Count(t, Step("unp_discard", h))
         /\ Marking /\ ~Sweeping /\ unp_gcing
         /\ \A i \in DOMAIN t : t[i].do # "sweep"
         /\ fdefer \subseteq fmark
         /\ \A s \in fmark \ fdefer : \A f \in Files : Has(so_rcv[s], f) => f \in fmark
         /\ \A f \in Files : f < n /\ f_count[f] # 0 /\ f_count[f] # f_msgcount[f] => f \in fmark
         /\ UNCHANGED <<counts, fds, sockets, unp_gcing, panicked>>
<1>1. Doing("mark") /\ Shape /\ "mark" \in Loops /\ UNCHANGED <<counts, fds, sockets, unp_gcing, panicked>>
  BY DEF Mark, Full, Loops
<1>2. n \in Turns
  BY <1>1, HeadFacts
<1>3. /\ t \in Seq(Steps) /\ ShapeOf(t, fmark) /\ Inner(t)
      /\ \A c, h : AtHead(c, h) <=> c = "mark" /\ h = n
      /\ \A c, h : ToDo(c, h) <=> (c = "mark" /\ h = n) \/ Has(t, Step(c, h))
      /\ \A c, h : Later(c, h) <=> Has(t, Step(c, h))
      /\ \A h : /\ Pending(h) = One("mark" = "unp_discard" /\ h = n) + Count(t, Step("unp_discard", h))
                /\ Count(t, Step("unp_discard", h)) \in Nat
  BY <1>1, HeadFacts
<1>4. Marking /\ ~Sweeping /\ unp_gcing
  BY <1>1, <1>2, <1>3 DEF Marking, Shape
<1>5. \A i \in DOMAIN t : t[i].do # "sweep"
  BY <1>3, <1>4, NoSweep DEF Sweeping
<1>6. \A h : Pending(h) = Count(t, Step("unp_discard", h))
  BY <1>3 DEF One
<1>7. /\ fdefer \subseteq fmark
      /\ \A s \in fmark \ fdefer : \A f \in Files : Has(so_rcv[s], f) => f \in fmark
      /\ \A f \in Files : f < n /\ f_count[f] # 0 /\ f_count[f] # f_msgcount[f] => f \in fmark
  BY <1>2, <1>3 DEF Full, MarkInv
<1> QED BY <1>1, <1>2, <1>3, <1>4, <1>5, <1>6, <1>7

(* The loop goes on, with more marks or as many. *)
LEMMA MarkTurn ==
  ASSUME TypeInv, Full, Mark, NEW m \in Turns, work' = <<Step("mark", m)>> \o Tail(work),
         fmark \subseteq fmark', fmark' \subseteq Files, fdefer' \subseteq fmark',
         \A s \in fmark' \ fdefer' : \A f \in Files : Has(so_rcv[s], f) => f \in fmark',
         \A f \in Files : f < m /\ f_count[f] # 0 /\ f_count[f] # f_msgcount[f] => f \in fmark',
         Grounded'
  PROVE  TypeInv' /\ Full'
<1> DEFINE t == Tail(work)
           n == Head(work).f
<1>1. /\ t \in Seq(Steps) /\ ShapeOf(t, fmark) /\ Inner(t)
      /\ \A c, h : AtHead(c, h) <=> c = "mark" /\ h = n
      /\ \A c, h : ToDo(c, h) <=> (c = "mark" /\ h = n) \/ Has(t, Step(c, h))
      /\ \A c, h : Later(c, h) <=> Has(t, Step(c, h))
      /\ \A h : Pending(h) = Count(t, Step("unp_discard", h))
      /\ Marking /\ ~Sweeping /\ unp_gcing
      /\ \A i \in DOMAIN t : t[i].do # "sweep"
      /\ UNCHANGED <<counts, fds, sockets, unp_gcing, panicked>>
  BY MarkFacts
<1> HIDE DEF t, n
<1>2. ShapeOf(t, fmark')
  <2>1. \A k : ~Has(t, Step("sweep", k))
    BY <1>1, StepEq DEF Has
  <2> QED BY <1>1, <2>1, ShapeMark
<1>3. /\ work' \in Seq(Steps) /\ ShapeOf(work', fmark')
      /\ \A c, h : AtHead(c, h)' <=> c = "mark" /\ h = m
      /\ \A c, h : ToDo(c, h)' <=> (c = "mark" /\ h = m) \/ Has(t, Step(c, h))
      /\ \A c, h : Later(c, h)' <=> Has(t, Step(c, h))
      /\ \A h : Pending(h)' = One("mark" = "unp_discard" /\ h = m) + Count(t, Step("unp_discard", h))
  <2>1. Step("mark", m) \in Steps
    BY DEF Step, Steps, Loops, Turns
  <2>2. t = <<>> \/ t[1].do # "sweep"
    <3>1. t # <<>> => 1 \in DOMAIN t
      BY <1>1
    <3> QED BY <1>1, <3>1
  <2>3. Fits(Step("mark", m), t, fmark')
    BY <2>2, StepEq DEF Fits
  <2>4. work' = <<Step("mark", m)>> \o t
    BY DEF t
  <2> QED BY <1>1, <1>2, <2>1, <2>3, <2>4, PushedFacts
<1>4. \A h : /\ BeingClosed(h)' <=> BeingClosed(h)
             /\ ToDo("discard", h)' <=> ToDo("discard", h)
             /\ ToDo("sweep", h)' <=> ToDo("sweep", h)
             /\ Later("discard", h)' <=> Later("discard", h)
             /\ Pending(h)' = Pending(h)
  <2>1. \A h : Pending(h)' = Pending(h)
    <3> SUFFICES ASSUME NEW h PROVE Pending(h)' = Pending(h)
      OBVIOUS
    <3>1. Count(t, Step("unp_discard", h)) \in Nat
      BY <1>1, CountFinite
    <3> QED BY <1>1, <1>3, <3>1 DEF One
  <2> QED BY <1>1, <1>3, <2>1 DEF BeingClosed
<1>5. Sockets' /\ Balanced' /\ LastClose' /\ \A h : InBuf(h) \in Nat /\ InBuf(h)' = InBuf(h)
  BY <1>1, <1>3, <1>4, LoopStep
<1>6. Marking' /\ ~Sweeping'
  BY <1>1, <1>3, <1>4 DEF Marking, Sweeping
<1>7. Shape'
  BY <1>1, <1>3, <1>6 DEF Shape
<1>8. RightsCounted'
  BY <1>1, <1>4, <1>5, <1>6 DEF RightsCounted, Full, Counted, Doomed, counts
<1>9. SweepInv'
  BY <1>6 DEF SweepInv, Sweeping
<1>10. MarkInv'
  BY <1>1, <1>3 DEF MarkInv, counts, sockets
<1>11. TypeInv'
  BY <1>1, <1>3 DEF TypeInv, counts, sockets
<1> QED BY <1>5, <1>7, <1>8, <1>9, <1>10, <1>11 DEF Full

(* The range of a buffer is what it holds. *)
LEMMA RangeHas ==
  ASSUME NEW q \in Seq(Files)
  PROVE  Range(q) \subseteq Files /\ \A h : h \in Range(q) <=> Has(q, h)
BY DEF Range, Has

(* A file is scanned: what its buffer holds is marked for a reason. *)
LEMMA GroundedScan ==
  ASSUME TypeInv, Full, NEW f \in Files, UNCHANGED <<fds, so_rcv>>,
         \A h : BeingClosed(h)' <=> BeingClosed(h),
         f \in fmark \/ Held(f) \/ BeingClosed(f),
         fmark' = fmark \cup {f} \cup Range(so_rcv[f])
  PROVE  Grounded'
<1> SUFFICES ASSUME NEW X \in SUBSET Files, Enclosed(X)' PROVE fmark' \subseteq X
  BY DEF Grounded
<1>1. Enclosed(X)
  BY DEF Enclosed, Held
<1>2. fmark \subseteq X
  BY <1>1 DEF Full, Grounded
<1>3. f \in X
  BY <1>2 DEF Enclosed, Held
<1>4. so_rcv[f] \in Seq(Files)
  BY DEF TypeInv
<1>5. Range(so_rcv[f]) \subseteq X
  BY <1>3, <1>4, RangeHas DEF Enclosed
<1> QED BY <1>2, <1>3, <1>5

(* A turn of the marking loop closes nothing. *)
LEMMA MarkMoves ==
  ASSUME TypeInv, Full, Mark, NEW m \in Turns, work' = <<Step("mark", m)>> \o Tail(work)
  PROVE  \A h : BeingClosed(h)' <=> BeingClosed(h)
<1> DEFINE t == Tail(work)
<1>1. t \in Seq(Steps) /\ \A c, h : ToDo(c, h) <=> (c = "mark" /\ h = Head(work).f) \/ Has(t, Step(c, h))
  BY MarkFacts
<1>2. Step("mark", m) \in Steps
  BY DEF Step, Steps, Loops, Turns
<1> HIDE DEF t
<1>3. \A e : Has(work', e) <=> Step("mark", m) = e \/ Has(t, e)
  BY <1>1, <1>2, HasPush DEF t
<1> QED BY <1>1, <1>3, StepEq DEF BeingClosed, ToDo

(* The sweep goes on, or begins, at file k. *)
LEMMA SweepPushed ==
  ASSUME NEW t \in Seq(Steps), ShapeOf(t, fmark), Inner(t), NEW k \in Turns,
         \A i \in DOMAIN t : /\ t[i].do # "sweep"
                             /\ t[i].do \in {"closed", "discard"} => t[i].f \in fmark,
         work' = <<Step("sweep", k)>> \o t
  PROVE  /\ work' \in Seq(Steps) /\ ShapeOf(work', fmark)
         /\ \A c, h : AtHead(c, h)' <=> c = "sweep" /\ h = k
         /\ \A c, h : ToDo(c, h)' <=> (c = "sweep" /\ h = k) \/ Has(t, Step(c, h))
         /\ \A c, h : Later(c, h)' <=> Has(t, Step(c, h))
         /\ \A h : Pending(h)' = Count(t, Step("unp_discard", h))
<1>1. Step("sweep", k) \in Steps
  BY DEF Step, Steps, Loops, Turns
<1>2. Fits(Step("sweep", k), t, fmark)
  <2>1. t = <<>> \/ t[1].do # "sweep"
    <3>1. t # <<>> => 1 \in DOMAIN t
      OBVIOUS
    <3> QED BY <3>1
  <2> QED BY <2>1, StepEq DEF Fits
<1>3. /\ work' \in Seq(Steps) /\ ShapeOf(work', fmark)
      /\ \A c, h : AtHead(c, h)' <=> c = "sweep" /\ h = k
      /\ \A c, h : ToDo(c, h)' <=> (c = "sweep" /\ h = k) \/ Has(t, Step(c, h))
      /\ \A c, h : Later(c, h)' <=> Has(t, Step(c, h))
      /\ \A h : Pending(h)' = One("sweep" = "unp_discard" /\ h = k) + Count(t, Step("unp_discard", h))
  BY <1>1, <1>2, PushedFacts
<1>4. \A h : Pending(h)' = Count(t, Step("unp_discard", h))
  <2> SUFFICES ASSUME NEW h PROVE Pending(h)' = Count(t, Step("unp_discard", h))
    OBVIOUS
  <2>1. Count(t, Step("unp_discard", h)) \in Nat
    BY CountFinite
  <2> QED BY <1>3, <2>1 DEF One
<1> QED BY <1>3, <1>4

(* Marking ends: every file that is being closed is marked, and no process *)
(* has an unmarked one.                                                    *)
LEMMA MarkEnds ==
  ASSUME TypeInv, Full, Mark, Head(work).f > NFILE, fdefer = {} PROVE TypeInv' /\ Full'
<1> DEFINE t == Tail(work)
           n == Head(work).f
<1>1. /\ Doing("mark") /\ n \in Turns /\ t \in Seq(Steps) /\ ShapeOf(t, fmark) /\ Inner(t)
      /\ \A c, h : AtHead(c, h) <=> c = "mark" /\ h = n
      /\ \A c, h : ToDo(c, h) <=> (c = "mark" /\ h = n) \/ Has(t, Step(c, h))
      /\ \A c, h : Later(c, h) <=> Has(t, Step(c, h))
      /\ \A h : Pending(h) = Count(t, Step("unp_discard", h))
      /\ Marking /\ ~Sweeping /\ unp_gcing
      /\ \A i \in DOMAIN t : t[i].do # "sweep"
      /\ \A s \in fmark \ fdefer : \A f \in Files : Has(so_rcv[s], f) => f \in fmark
      /\ \A f \in Files : f < n /\ f_count[f] # 0 /\ f_count[f] # f_msgcount[f] => f \in fmark
      /\ UNCHANGED <<counts, fds, sockets, unp_gcing, panicked>>
  BY MarkFacts
<1>2. work' = <<Step("sweep", 1)>> \o t /\ UNCHANGED <<fmark, fdefer>>
  BY DEF Mark, Todo
<1> HIDE DEF t
<1>3. \A f \in Files : f_count[f] # 0 /\ f_count[f] # f_msgcount[f] => f \in fmark
  <2>1. \A f \in Files : f < n
    BY <1>1 DEF Files, Turns
  <2> QED BY <1>1, <2>1
<1> HIDE DEF n
<1>4. \A f \in Files : BeingClosed(f) => f \in fmark
  BY <1>1, <1>3, NotOnlyMessages
<1>5. \A i \in DOMAIN t : t[i].do \in {"closed", "discard"} => t[i].f \in fmark
  <2> SUFFICES ASSUME NEW i \in DOMAIN t, t[i].do \in {"closed", "discard"} PROVE t[i].f \in fmark
    OBVIOUS
  <2>1. t[i] \in Steps
    BY <1>1
  <2>2. t[i] = Step(t[i].do, t[i].f) /\ t[i].f \in Files
    BY <2>1 DEF Step, Steps, Loops
  <2>3. ToDo(t[i].do, t[i].f)
    BY <1>1, <2>2 DEF Has
  <2>4. BeingClosed(t[i].f)
    <3>1. CASE t[i].do = "closed"
      BY <2>3, <3>1 DEF BeingClosed
    <3>2. CASE t[i].do = "discard"
      BY <2>3, <3>2, DiscardCloses DEF Full
    <3> QED BY <3>1, <3>2
  <2> QED BY <1>4, <2>2, <2>4
<1>6. /\ work' \in Seq(Steps) /\ ShapeOf(work', fmark)
      /\ \A c, h : AtHead(c, h)' <=> c = "sweep" /\ h = 1
      /\ \A c, h : ToDo(c, h)' <=> (c = "sweep" /\ h = 1) \/ Has(t, Step(c, h))
      /\ \A c, h : Later(c, h)' <=> Has(t, Step(c, h))
      /\ \A h : Pending(h)' = Count(t, Step("unp_discard", h))
  <2>1. PICK k \in Turns : k = 1
    BY DEF Turns
  <2>2. t \in Seq(Steps) /\ ShapeOf(t, fmark) /\ Inner(t)
    BY <1>1
  <2>3. work' = <<Step("sweep", k)>> \o t
    BY <1>2, <2>1
  <2>4. \A i \in DOMAIN t : /\ t[i].do # "sweep"
                            /\ t[i].do \in {"closed", "discard"} => t[i].f \in fmark
    BY <1>1, <1>5
  <2> QED BY <2>1, <2>2, <2>3, <2>4, SweepPushed
<1>7. \A h : /\ BeingClosed(h)' <=> BeingClosed(h)
             /\ ToDo("discard", h)' <=> ToDo("discard", h)
             /\ Later("discard", h)' <=> Later("discard", h)
             /\ Pending(h)' = Pending(h)
  <2>1. \A h : Pending(h)' = Pending(h)
    <3> SUFFICES ASSUME NEW h PROVE Pending(h)' = Pending(h)
      OBVIOUS
    <3>1. Count(t, Step("unp_discard", h)) \in Nat
      BY <1>1, CountFinite
    <3> QED BY <1>1, <1>6, <3>1 DEF One
  <2> QED BY <1>1, <1>6, <2>1 DEF BeingClosed
<1>8. Sockets' /\ Balanced' /\ LastClose' /\ \A h : InBuf(h) \in Nat /\ InBuf(h)' = InBuf(h)
  BY <1>1, <1>6, <1>7, LoopStep
<1>9. ~Marking' /\ Sweeping'
  <2>1. 1 \in Turns
    BY DEF Turns
  <2> QED BY <1>6, <2>1 DEF Marking, Sweeping
<1>10. Shape'
  BY <1>1, <1>2, <1>6, <1>9 DEF Shape
<1>11. RightsCounted'
  <2> SUFFICES ASSUME NEW f \in fmark PROVE Counted(f)'
    BY <1>2, <1>9 DEF RightsCounted
  <2>1. f \in Files
    BY DEF TypeInv
  <2>2. ~Doomed(f)
    <3> SUFFICES ASSUME Doomed(f) PROVE FALSE
      OBVIOUS
    <3>1. Held(f) \/ BeingClosed(f) \/ InBuf(f) > 0
      BY MarkedBy DEF Full
    <3>2. BeingClosed(f) => f_count[f] = 1
      BY <2>1 DEF Full, Sockets
    <3> QED BY <3>1, <3>2 DEF Doomed, Held
  <2>3. Counted(f)
    BY <1>1, <2>1, <2>2 DEF Full, RightsCounted
  <2> QED BY <1>1, <1>7, <1>8, <2>3 DEF Counted, counts
<1>12. Grounded'
  BY <1>1, <1>2, <1>7, GroundedStays DEF Full, Held, sockets
<1>13. MarkInv'
  BY <1>6 DEF MarkInv
<1>14. SweepInv'
  <2>1. \A f \in Files : ~(f < 1)
    BY DEF Files
  <2>2. \A k : ToDo("sweep", k)' => k = 1
    BY <1>1, <1>6, StepEq DEF Has
  <2>3. \A s \in fmark : \A f \in Files : Has(so_rcv[s], f) => f \in fmark
    BY <1>1
  <2>4. ASSUME NEW f \in Files, f \notin fmark PROVE fds[f] = 0
    <3>1. ~AtHead("closef", f)
      BY <1>1
    <3>2. /\ f_count[f] = fds[f] + f_msgcount[f] + One(BeingClosed(f))
          /\ f_count[f] = f_msgcount[f] => fds[f] = 0
          /\ fds[f] \in Nat /\ f_msgcount[f] \in Int /\ f_count[f] \in Nat
      BY <3>1, NotOnlyMessages
    <3>3. f_count[f] = 0 \/ f_count[f] = f_msgcount[f]
      BY <1>3, <2>4
    <3>4. CASE f_count[f] = 0
      <4>1. CASE Doomed(f)
        BY <4>1 DEF Doomed
      <4>2. CASE Counted(f)
        <5>1. InBuf(f) \in Nat /\ Pending(f) \in Nat
          BY InBufFacts, PendingFacts
        <5>2. f_msgcount[f] >= 0
          BY <3>2, <4>2, <5>1 DEF Counted
        <5>3. One(BeingClosed(f)) \in Nat
          BY DEF One
        <5> QED BY <3>2, <3>4, <5>2, <5>3
      <4> QED BY <1>1, <4>1, <4>2 DEF Full, RightsCounted
    <3> QED BY <3>2, <3>3, <3>4
  <2> QED BY <1>1, <1>2, <2>1, <2>2, <2>3, <2>4 DEF SweepInv, sockets
<1>15. TypeInv'
  BY <1>1, <1>2, <1>6 DEF TypeInv, counts, sockets
<1> QED BY <1>8, <1>10, <1>11, <1>12, <1>13, <1>14, <1>15 DEF Full

(* A turn of the marking loop: it ends, begins again, looks into a         *)
(* deferred file, marks a file, or goes on.                                *)
LEMMA KeepsMark ==
  ASSUME TypeInv, Full, NEW n, n = Head(work).f, Mark PROVE TypeInv' /\ Full'
<1>1. /\ n \in Turns /\ Marking /\ ~Sweeping
      /\ fdefer \subseteq fmark /\ fmark \subseteq Files
      /\ \A h : ~AtHead("closef", h)
      /\ \A s \in fmark \ fdefer : \A f \in Files : Has(so_rcv[s], f) => f \in fmark
      /\ \A f \in Files : f < n /\ f_count[f] # 0 /\ f_count[f] # f_msgcount[f] => f \in fmark
      /\ UNCHANGED <<counts, fds, sockets, unp_gcing, panicked>>
  <2>1. PICK t : t = Tail(work)
    OBVIOUS
  <2>2. /\ n \in Turns /\ Marking /\ ~Sweeping /\ fdefer \subseteq fmark
        /\ \A c, h : AtHead(c, h) <=> c = "mark" /\ h = n
    BY <2>1, MarkFacts
  <2>3. /\ \A s \in fmark \ fdefer : \A f \in Files : Has(so_rcv[s], f) => f \in fmark
        /\ \A f \in Files : f < n /\ f_count[f] # 0 /\ f_count[f] # f_msgcount[f] => f \in fmark
        /\ UNCHANGED <<counts, fds, sockets, unp_gcing, panicked>>
    BY <2>1, MarkFacts
  <2>4. fmark \subseteq Files
    BY DEF TypeInv
  <2> QED BY <2>2, <2>3, <2>4
<1>2. CASE n > NFILE
  <2>1. CASE fdefer = {}
    BY <1>2, <2>1, MarkEnds
  <2>2. CASE fdefer # {}
    <3>1. work' = <<Step("mark", 1)>> \o Tail(work) /\ UNCHANGED <<fmark, fdefer>> /\ 1 \in Turns
      BY <1>2, <2>2 DEF Mark, Todo, Turns
    <3>2. \A f \in Files : ~(f < 1)
      BY DEF Files
    <3>3. Grounded'
      <4>1. \A h : BeingClosed(h)' <=> BeingClosed(h)
        BY <1>1, <3>1, MarkMoves
      <4> QED BY <1>1, <3>1, <4>1, GroundedStays DEF Full, Held, sockets
    <3> QED BY <1>1, <3>1, <3>2, <3>3, MarkTurn
  <2> QED BY <2>1, <2>2
<1>3. CASE ~(n > NFILE)
  <2>1. n \in Files /\ n + 1 \in Turns /\ \A f \in Files : f < n + 1 => f < n \/ f = n
    BY <1>1, <1>3 DEF Files, Turns
  <2>2. work' = <<Step("mark", n + 1)>> \o Tail(work)
    BY <1>3 DEF Mark, Todo
  <2>3. \A h : BeingClosed(h)' <=> BeingClosed(h)
    BY <1>1, <2>1, <2>2, MarkMoves
  <2>4. /\ so_rcv[n] \in Seq(Files) /\ Range(so_rcv[n]) \subseteq Files
        /\ \A h : h \in Range(so_rcv[n]) <=> Has(so_rcv[n], h)
    BY <2>1, RangeHas DEF TypeInv
  <2>5. f_count[n] # 0 => n \in f_data
    BY <2>1 DEF Full, Sockets, TypeInv
  <2>6. UNCHANGED <<fds, so_rcv>>
    BY <1>1 DEF sockets
  <2>7. CASE f_count[n] # 0 /\ n \in fdefer
    <3>1. /\ fmark' = fmark \cup (Range(so_rcv[n]) \ fmark)
          /\ fdefer' = (fdefer \ {n}) \cup (Range(so_rcv[n]) \ fmark)
      BY <1>3, <2>5, <2>7 DEF Mark, Scan
    <3>2. fmark' = fmark \cup {n} \cup Range(so_rcv[n]) /\ n \in fmark
      BY <1>1, <2>7, <3>1
    <3>3. Grounded'
      BY <2>1, <2>3, <2>6, <3>2, GroundedScan
    <3>4. fmark \subseteq fmark' /\ fmark' \subseteq Files /\ fdefer' \subseteq fmark'
      BY <1>1, <2>4, <3>1
    <3>5. \A s \in fmark' \ fdefer' : \A f \in Files : Has(so_rcv[s], f) => f \in fmark'
      BY <1>1, <2>4, <3>1
    <3>6. \A f \in Files : f < n + 1 /\ f_count[f] # 0 /\ f_count[f] # f_msgcount[f] => f \in fmark'
      BY <1>1, <2>1, <3>2
    <3> QED BY <2>1, <2>2, <3>3, <3>4, <3>5, <3>6, MarkTurn
  <2>8. CASE ~(f_count[n] # 0 /\ n \in fdefer)
             /\ f_count[n] # 0 /\ n \notin fmark /\ f_count[n] # f_msgcount[n]
    <3>1. /\ fmark' = (fmark \cup {n}) \cup (Range(so_rcv[n]) \ (fmark \cup {n}))
          /\ fdefer' = fdefer \cup (Range(so_rcv[n]) \ (fmark \cup {n}))
      BY <1>3, <2>5, <2>8 DEF Mark, Scan
    <3>2. fmark' = fmark \cup {n} \cup Range(so_rcv[n])
      BY <3>1
    <3>3. Grounded'
      <4>1. Held(n) \/ BeingClosed(n)
        BY <1>1, <2>1, <2>8, NotOnlyMessages
      <4> QED BY <2>1, <2>3, <2>6, <3>2, <4>1, GroundedScan
    <3>4. fmark \subseteq fmark' /\ fmark' \subseteq Files /\ fdefer' \subseteq fmark'
      BY <1>1, <2>1, <2>4, <3>1
    <3>5. \A s \in fmark' \ fdefer' : \A f \in Files : Has(so_rcv[s], f) => f \in fmark'
      BY <1>1, <2>4, <3>1
    <3>6. \A f \in Files : f < n + 1 /\ f_count[f] # 0 /\ f_count[f] # f_msgcount[f] => f \in fmark'
      BY <1>1, <2>1, <3>2
    <3> QED BY <2>1, <2>2, <3>3, <3>4, <3>5, <3>6, MarkTurn
  <2>9. CASE ~(f_count[n] # 0 /\ n \in fdefer)
             /\ ~(f_count[n] # 0 /\ n \notin fmark /\ f_count[n] # f_msgcount[n])
    <3>1. UNCHANGED <<fmark, fdefer>>
      BY <1>3, <2>9 DEF Mark
    <3>2. Grounded'
      BY <1>1, <2>3, <2>6, <3>1, GroundedStays DEF Full, Held
    <3>3. \A f \in Files : f < n + 1 /\ f_count[f] # 0 /\ f_count[f] # f_msgcount[f] => f \in fmark'
      BY <1>1, <2>1, <2>9, <3>1
    <3> QED BY <1>1, <2>1, <2>2, <3>1, <3>2, <3>3, MarkTurn
  <2> QED BY <2>7, <2>8, <2>9
<1> QED BY <1>2, <1>3

(* What the last loop knows. *)
LEMMA SweepFacts ==
  ASSUME TypeInv, Full, Sweep, NEW n, n = Head(work).f, NEW t, t = Tail(work)
  PROVE  /\ Doing("sweep") /\ n \in Turns /\ t \in Seq(Steps) /\ ShapeOf(t, fmark) /\ Inner(t)
         /\ \A c, h : AtHead(c, h) <=> c = "sweep" /\ h = n
         /\ \A c, h : ToDo(c, h) <=> (c = "sweep" /\ h = n) \/ Has(t, Step(c, h))
         /\ \A c, h : Later(c, h) <=> Has(t, Step(c, h))
         /\ \A h : Pending(h) = Count(t, Step("unp_discard", h))
         /\ Sweeping /\ ~Marking /\ unp_gcing
         /\ \A i \in DOMAIN t : /\ t[i].do # "sweep"
                                /\ t[i].do \in {"closed", "discard"} => t[i].f \in fmark
         /\ \A f : BeingClosed(f) \/ ToDo("discard", f) => f \in fmark
         /\ \A s \in fmark : \A f \in Files : Has(so_rcv[s], f) => f \in fmark
         /\ \A f \in Files \ fmark : fds[f] = 0 /\ (f < n => f_count[f] = 0)
         /\ UNCHANGED <<counts, fds, sockets, panicked>>
<1>1. Doing("sweep") /\ Shape /\ "sweep" \in Loops /\ UNCHANGED <<counts, fds, sockets, panicked>>
  BY DEF Sweep, Full, Loops
<1>2. n \in Turns
  BY <1>1, HeadFacts
<1>3. /\ t \in Seq(Steps) /\ ShapeOf(t, fmark) /\ Inner(t)
      /\ \A c, h : AtHead(c, h) <=> c = "sweep" /\ h = n
      /\ \A c, h : ToDo(c, h) <=> (c = "sweep" /\ h = n) \/ Has(t, Step(c, h))
      /\ \A c, h : Later(c, h) <=> Has(t, Step(c, h))
      /\ \A h : /\ Pending(h) = One("sweep" = "unp_discard" /\ h = n) + Count(t, Step("unp_discard", h))
                /\ Count(t, Step("unp_discard", h)) \in Nat
  BY <1>1, HeadFacts
<1>4. Sweeping /\ ~Marking /\ unp_gcing
  BY <1>1, <1>2, <1>3 DEF Marking, Sweeping, Shape
<1>5. /\ \A k : ~Has(t, Step("sweep", k))
      /\ \A f : BeingClosed(f) \/ ToDo("discard", f) => f \in fmark
  BY <1>1, BelowSweep
<1>6. ASSUME NEW i \in DOMAIN t
      PROVE  /\ t[i].do # "sweep"
             /\ t[i].do \in {"closed", "discard"} => t[i].f \in fmark
  <2>1. t[i] \in Steps
    BY <1>3
  <2>2. t[i] = Step(t[i].do, t[i].f)
    BY <2>1, StepIs
  <2>3. Has(t, Step(t[i].do, t[i].f))
    BY <2>2 DEF Has
  <2> QED BY <1>3, <1>5, <2>3 DEF BeingClosed
<1>7. \A h : Pending(h) = Count(t, Step("unp_discard", h))
  BY <1>3 DEF One
<1>8. /\ \A s \in fmark : \A f \in Files : Has(so_rcv[s], f) => f \in fmark
      /\ \A f \in Files \ fmark : fds[f] = 0 /\ (f < n => f_count[f] = 0)
  BY <1>2, <1>3 DEF Full, SweepInv
<1> QED BY <1>1, <1>2, <1>3, <1>4, <1>5, <1>6, <1>7, <1>8

(* The sweep is at its end: what is not marked has no reference. *)
LEMMA SweepEnds ==
  ASSUME TypeInv, Full, Sweep, Head(work).f > NFILE
  PROVE  /\ TypeInv' /\ Full'
         /\ \A f \in Files : f_count[f] # 0 => f \in fmark
         /\ \A h : BeingClosed(h)' <=> BeingClosed(h)
<1> DEFINE t == Tail(work)
           n == Head(work).f
<1>1. /\ n \in Turns /\ t \in Seq(Steps) /\ ShapeOf(t, fmark) /\ Inner(t)
      /\ \A c, h : AtHead(c, h) <=> c = "sweep" /\ h = n
      /\ \A c, h : ToDo(c, h) <=> (c = "sweep" /\ h = n) \/ Has(t, Step(c, h))
      /\ \A c, h : Later(c, h) <=> Has(t, Step(c, h))
      /\ \A h : Pending(h) = Count(t, Step("unp_discard", h))
      /\ Sweeping
      /\ \A i \in DOMAIN t : t[i].do # "sweep"
      /\ UNCHANGED <<counts, fds, sockets, panicked>>
  BY SweepFacts
<1>2. /\ \A f : BeingClosed(f) \/ ToDo("discard", f) => f \in fmark
      /\ \A s \in fmark : \A f \in Files : Has(so_rcv[s], f) => f \in fmark
      /\ \A f \in Files \ fmark : fds[f] = 0 /\ (f < n => f_count[f] = 0)
  BY SweepFacts
<1>3. \A f \in Files \ fmark : fds[f] = 0 /\ f_count[f] = 0
  <2>1. \A f \in Files : f < n
    BY <1>1 DEF Files, Turns
  <2> QED BY <1>2, <2>1
<1>4. work' = t /\ unp_gcing' = FALSE /\ fmark' = {} /\ fdefer' = {}
  <2>1. work' = <<>> \o t /\ unp_gcing' = FALSE /\ fmark' = {} /\ fdefer' = {}
    BY DEF Sweep, Todo
  <2> QED BY <1>1, <2>1
<1> HIDE DEF t, n
<1>5. /\ work' \in Seq(Steps) /\ ShapeOf(work', {})
      /\ \A f : ~AtHead("closef", f)' /\ ~AtHead("detach", f)' /\ ~AtHead("mark", f)'
      /\ \A d, f : ToDo(d, f)' <=> Has(t, Step(d, f))
      /\ \A d, f : Later(d, f)' => Has(t, Step(d, f))
      /\ \A f : Pending(f)' = Count(t, Step("unp_discard", f))
  <2>1. \A k : ~Has(t, Step("sweep", k))
    BY <1>1, StepEq DEF Has
  <2>2. t \in Seq(Steps) /\ ShapeOf(t, fmark) /\ Inner(t)
    BY <1>1
  <2>3. ShapeOf(t, {})
    BY <2>1, <2>2, ShapeMark
  <2> QED BY <1>4, <2>2, <2>3, PoppedFacts
<1>6. \A h : /\ BeingClosed(h)' <=> BeingClosed(h)
             /\ ToDo("discard", h)' <=> ToDo("discard", h)
             /\ Later("discard", h)' => Later("discard", h)
             /\ Pending(h)' = Pending(h)
  BY <1>1, <1>5 DEF BeingClosed
<1>7. Sockets' /\ Balanced' /\ LastClose' /\ \A h : InBuf(h) \in Nat /\ InBuf(h)' = InBuf(h)
  BY <1>1, <1>5, <1>6, LoopStep
<1>8. ~Marking' /\ ~Sweeping'
  <2>1. \A k : ~Has(t, Step("sweep", k))
    BY <1>1, StepEq DEF Has
  <2> QED BY <1>5, <2>1 DEF Marking, Sweeping
<1>9. Shape'
  BY <1>4, <1>5, <1>8 DEF Shape
<1>10. RightsCounted'
  <2> SUFFICES ASSUME NEW f \in Files PROVE Counted(f)' \/ Doomed(f)'
    BY <1>8 DEF RightsCounted
  <2>1. /\ f_count'[f] = f_count[f] /\ f_msgcount'[f] = f_msgcount[f] /\ fds'[f] = fds[f]
        /\ InBuf(f)' = InBuf(f) /\ Pending(f)' = Pending(f)
    BY <1>1, <1>6, <1>7 DEF counts
  <2>2. CASE f \in fmark
    <3>1. Counted(f)
      BY <1>1, <2>2 DEF Full, RightsCounted
    <3> QED BY <2>1, <3>1 DEF Counted
  <2>3. CASE f \notin fmark
    <3>1. fds[f] = 0 /\ f_count[f] = 0 /\ ~BeingClosed(f) /\ ~AtHead("closef", f)
      BY <1>1, <1>2, <1>3, <2>3
    <3>2. f_msgcount[f] = 0
      <4>1. /\ f_count[f] = fds[f] + f_msgcount[f] + One(BeingClosed(f))
            /\ f_msgcount[f] \in Int
        BY <3>1, NotOnlyMessages
      <4>2. One(BeingClosed(f)) = 0
        BY <3>1 DEF One
      <4> QED BY <3>1, <4>1, <4>2
    <3>3. InBuf(f) = 0
      <4> SUFFICES ASSUME NEW s \in Files, Has(so_rcv[s], f) PROVE FALSE
        BY InBufFacts
      <4>1. s \notin fmark
        BY <1>2, <2>3
      <4>2. f_count[s] = 0
        BY <1>3, <4>1
      <4>3. so_rcv[s] # <<>>
        BY DEF Has
      <4> QED BY <4>2, <4>3 DEF Full, Sockets
    <3>4. Pending(f) \in Nat
      BY PendingFacts
    <3> QED BY <2>1, <3>1, <3>2, <3>3, <3>4 DEF Counted, Doomed
  <2> QED BY <2>2, <2>3
<1>11. Grounded' /\ MarkInv' /\ SweepInv'
  BY <1>4, <1>5, <1>8 DEF Grounded, MarkInv, SweepInv, Sweeping
<1>12. TypeInv'
  BY <1>1, <1>4, <1>5 DEF TypeInv, counts, sockets
<1> QED BY <1>3, <1>6, <1>7, <1>9, <1>10, <1>11, <1>12 DEF Full

(* File n is drained before the sweep goes on. *)
LEMMA DrainPushed ==
  ASSUME NEW u \in Seq(Steps), ShapeOf(u, fmark), Inner(u), NEW n \in Files, n \notin fmark,
         u # <<>>, u[1] = Step("sweep", n + 1), work' = <<Step("drain", n)>> \o u
  PROVE  /\ work' \in Seq(Steps) /\ ShapeOf(work', fmark)
         /\ \A c, h : AtHead(c, h)' <=> c = "drain" /\ h = n
         /\ \A c, h : ToDo(c, h)' <=> (c = "drain" /\ h = n) \/ Has(u, Step(c, h))
         /\ \A c, h : Later(c, h)' <=> Has(u, Step(c, h))
         /\ \A h : Pending(h)' = Count(u, Step("unp_discard", h))
<1>1. Step("drain", n) \in Steps
  BY DEF Step, Steps, Calls
<1>2. Fits(Step("drain", n), u, fmark)
  BY StepEq DEF Fits
<1>3. /\ work' \in Seq(Steps) /\ ShapeOf(work', fmark)
      /\ \A c, h : AtHead(c, h)' <=> c = "drain" /\ h = n
      /\ \A c, h : ToDo(c, h)' <=> (c = "drain" /\ h = n) \/ Has(u, Step(c, h))
      /\ \A c, h : Later(c, h)' <=> Has(u, Step(c, h))
      /\ \A h : Pending(h)' = One("drain" = "unp_discard" /\ h = n) + Count(u, Step("unp_discard", h))
  <2>1. PICK x, m : x = "drain" /\ m = n
    OBVIOUS
  <2>2. /\ Step(x, m) \in Steps /\ Fits(Step(x, m), u, fmark)
        /\ work' = <<Step(x, m)>> \o u
    BY <1>1, <1>2, <2>1
  <2>3. /\ work' \in Seq(Steps) /\ ShapeOf(work', fmark)
        /\ \A c, h : AtHead(c, h)' <=> c = x /\ h = m
        /\ \A c, h : ToDo(c, h)' <=> (c = x /\ h = m) \/ Has(u, Step(c, h))
        /\ \A c, h : Later(c, h)' <=> Has(u, Step(c, h))
        /\ \A h : Pending(h)' = One(x = "unp_discard" /\ h = m) + Count(u, Step("unp_discard", h))
    BY <2>2, PushedFacts
  <2> QED BY <2>1, <2>3
<1>4. \A h : Pending(h)' = Count(u, Step("unp_discard", h))
  <2> SUFFICES ASSUME NEW h PROVE Pending(h)' = Count(u, Step("unp_discard", h))
    OBVIOUS
  <2>1. Count(u, Step("unp_discard", h)) \in Nat
    BY CountFinite
  <2> QED BY <1>3, <2>1 DEF One
<1> QED BY <1>3, <1>4

(* The sweep comes to the next file. *)
LEMMA SweepGoesOn ==
  ASSUME TypeInv, Full, Sweep, NEW n, n = Head(work).f, n \in Files,
         UNCHANGED <<unp_gcing, fmark, fdefer>>,
         work' \in Seq(Steps), ShapeOf(work', fmark),
         \A h : /\ BeingClosed(h)' <=> BeingClosed(h)
                /\ ToDo("discard", h)' <=> ToDo("discard", h)
                /\ ~AtHead("closef", h)' /\ ~AtHead("mark", h)'
                /\ Later("discard", h)' => Later("discard", h)
                /\ Pending(h)' = Pending(h)
                /\ ToDo("sweep", h)' <=> h = n + 1,
         n \notin fmark /\ f_count[n] # 0 => ~AtHead("sweep", n + 1)'
  PROVE  TypeInv' /\ Full'
<1>1. PICK t : t = Tail(work)
  OBVIOUS
<1>2. /\ \A c, h : AtHead(c, h) <=> c = "sweep" /\ h = n
      /\ Sweeping /\ unp_gcing
      /\ \A s \in fmark : \A f \in Files : Has(so_rcv[s], f) => f \in fmark
      /\ \A f \in Files \ fmark : fds[f] = 0 /\ (f < n => f_count[f] = 0)
      /\ UNCHANGED <<counts, fds, sockets, panicked>>
  BY <1>1, SweepFacts
<1>3. Sockets' /\ Balanced' /\ LastClose' /\ \A h : InBuf(h) \in Nat /\ InBuf(h)' = InBuf(h)
  BY <1>2, LoopStep
<1>4. ~Marking' /\ Sweeping'
  <2>1. n + 1 \in Turns
    BY DEF Files, Turns
  <2> QED BY <2>1 DEF Marking, Sweeping
<1>5. Shape'
  BY <1>2, <1>4 DEF Shape
<1>6. RightsCounted'
  BY <1>2, <1>3, <1>4 DEF RightsCounted, Full, Counted, counts
<1>7. Grounded'
  BY <1>2, GroundedStays DEF Full, Held, sockets
<1>8. MarkInv'
  BY DEF MarkInv
<1>9. SweepInv'
  <2>1. \A f \in Files : f < n + 1 => f < n \/ f = n
    BY DEF Files
  <2>2. \A f \in Files \ fmark : f < n + 1 /\ (f + 1 = n + 1 => AtHead("sweep", n + 1)') => f_count[f] = 0
    BY <1>2, <2>1
  <2>3. UNCHANGED <<f_count, fds, fmark, so_rcv>>
    BY <1>2 DEF counts, sockets
  <2> SUFFICES ASSUME NEW k \in Turns, ToDo("sweep", k)'
               PROVE  /\ \A s \in fmark : \A f \in Files : Has(so_rcv[s], f) => f \in fmark
                      /\ \A f \in Files \ fmark :
                           /\ fds[f] = 0
                           /\ f < k /\ (f + 1 = k => AtHead("sweep", k)') => f_count[f] = 0
    BY <2>3 DEF SweepInv
  <2>4. k = n + 1
    OBVIOUS
  <2> QED BY <1>2, <2>2, <2>4
<1>10. TypeInv'
  BY <1>2 DEF TypeInv, counts, sockets
<1> QED BY <1>3, <1>5, <1>6, <1>7, <1>8, <1>9, <1>10 DEF Full

(* A turn of the last loop. *)
LEMMA KeepsSweep ==
  ASSUME TypeInv, Full, NEW n, n = Head(work).f, Sweep PROVE TypeInv' /\ Full'
<1>1. PICK t : t = Tail(work)
  OBVIOUS
<1>2. /\ n \in Turns /\ t \in Seq(Steps) /\ ShapeOf(t, fmark) /\ Inner(t)
      /\ \A c, h : ToDo(c, h) <=> (c = "sweep" /\ h = n) \/ Has(t, Step(c, h))
      /\ \A c, h : Later(c, h) <=> Has(t, Step(c, h))
      /\ \A h : Pending(h) = Count(t, Step("unp_discard", h))
  BY <1>1, SweepFacts
<1>3. \A i \in DOMAIN t : /\ t[i].do # "sweep"
                          /\ t[i].do \in {"closed", "discard"} => t[i].f \in fmark
  BY <1>1, SweepFacts
<1>4. \A f : BeingClosed(f) => f \in fmark
  BY <1>1, SweepFacts
<1>5. \A k : ~Has(t, Step("sweep", k))
  BY <1>3, StepEq DEF Has
<1>6. CASE n > NFILE
  BY <1>6, SweepEnds
<1>7. CASE ~(n > NFILE)
  <2>1. n \in Files /\ n + 1 \in Turns
    BY <1>2, <1>7 DEF Turns, Files
  <2>2. /\ work' = ((IF Unreferenced(n) THEN <<Step("drain", n)>> ELSE <<>>)
                      \o <<Step("sweep", n + 1)>>) \o t
        /\ UNCHANGED <<unp_gcing, fmark, fdefer>>
    BY <1>1, <1>7 DEF Sweep, Todo, gcvars
  <2>3. Step("drain", n) \in Steps /\ Step("sweep", n + 1) \in Steps
    BY <2>1 DEF Step, Steps, Calls, Loops, Turns
  <2>4. PICK k \in Turns : k = n + 1
    BY <2>1
  <2>5. CASE ~Unreferenced(n)
    <3>1. work' = <<Step("sweep", k)>> \o t
      <4>1. work' = (<<>> \o <<Step("sweep", k)>>) \o t
        BY <2>2, <2>4, <2>5
      <4>2. \A x \in Steps : <<>> \o <<x>> = <<x>>
        OBVIOUS
      <4> QED BY <2>3, <2>4, <4>1, <4>2
    <3>2. /\ work' \in Seq(Steps) /\ ShapeOf(work', fmark)
          /\ \A c, h : AtHead(c, h)' <=> c = "sweep" /\ h = k
          /\ \A c, h : ToDo(c, h)' <=> (c = "sweep" /\ h = k) \/ Has(t, Step(c, h))
          /\ \A c, h : Later(c, h)' <=> Has(t, Step(c, h))
          /\ \A h : Pending(h)' = Count(t, Step("unp_discard", h))
      BY <1>2, <1>3, <3>1, SweepPushed
    <3>3. \A h : /\ BeingClosed(h)' <=> BeingClosed(h)
                 /\ ToDo("discard", h)' <=> ToDo("discard", h)
                 /\ ~AtHead("closef", h)' /\ ~AtHead("mark", h)'
                 /\ Later("discard", h)' => Later("discard", h)
                 /\ Pending(h)' = Pending(h)
                 /\ ToDo("sweep", h)' <=> h = n + 1
      BY <1>2, <1>5, <2>4, <3>2 DEF BeingClosed
    <3>4. n \notin fmark => f_count[n] = 0
      <4>1. PICK t2 : t2 = Tail(work)
        OBVIOUS
      <4>2. /\ \A f \in Files \ fmark : fds[f] = 0
            /\ \A c, h : AtHead(c, h) <=> c = "sweep" /\ h = n
        BY <4>1, SweepFacts
      <4> SUFFICES ASSUME n \notin fmark PROVE f_count[n] = 0
        OBVIOUS
      <4>3. ~AtHead("closef", n) /\ fds[n] = 0 /\ ~BeingClosed(n)
        BY <1>4, <2>1, <4>2
      <4>4. /\ f_count[n] = fds[n] + f_msgcount[n] + One(BeingClosed(n))
            /\ f_msgcount[n] \in Int /\ f_count[n] \in Nat
        BY <2>1, <4>3, NotOnlyMessages
      <4>5. f_count[n] = f_msgcount[n]
        BY <4>3, <4>4 DEF One
      <4> QED BY <2>5, <4>5 DEF Unreferenced
    <3> QED BY <2>1, <2>2, <3>2, <3>3, <3>4, SweepGoesOn
  <2>6. CASE Unreferenced(n)
    <3> DEFINE u == <<Step("sweep", k)>> \o t
    <3>1. work' = <<Step("drain", n)>> \o u
      <4>1. work' = (<<Step("drain", n)>> \o <<Step("sweep", k)>>) \o t
        BY <2>2, <2>4, <2>6
      <4>2. \A x \in Steps, y \in Steps : (<<x>> \o <<y>>) \o t = <<x>> \o (<<y>> \o t)
        <5> SUFFICES ASSUME NEW x \in Steps, NEW y \in Steps
                     PROVE  (<<x>> \o <<y>>) \o t = <<x>> \o (<<y>> \o t)
          OBVIOUS
        <5>1. <<x>> \in Seq(Steps) /\ <<y>> \in Seq(Steps)
          OBVIOUS
        <5> QED BY <1>2, <5>1, ConcatAssociative
      <4> QED BY <2>3, <2>4, <4>1, <4>2
    <3>2. u \in Seq(Steps) /\ u # <<>> /\ u[1] = Step("sweep", k)
      BY <1>2, <2>3, <2>4, HeadOfPush
    <3>3. ShapeOf(u, fmark) /\ Inner(u)
      <4>1. t = <<>> \/ t[1].do # "sweep"
        <5>1. t # <<>> => 1 \in DOMAIN t
          BY <1>2
        <5> QED BY <1>3, <5>1
      <4>2. Fits(Step("sweep", k), t, fmark)
        BY <1>3, <4>1, StepEq DEF Fits
      <4> QED BY <1>2, <2>3, <2>4, <4>2, ShapePush, StepEq
    <3>4. \A c, h : Has(u, Step(c, h)) <=> (c = "sweep" /\ h = k) \/ Has(t, Step(c, h))
      BY <1>2, <2>3, <2>4, HasPush, StepEq
    <3>5. \A h : Count(u, Step("unp_discard", h)) = Count(t, Step("unp_discard", h))
                 /\ Count(t, Step("unp_discard", h)) \in Nat
      <4> SUFFICES ASSUME NEW h
                   PROVE  Count(u, Step("unp_discard", h)) = Count(t, Step("unp_discard", h))
                          /\ Count(t, Step("unp_discard", h)) \in Nat
        OBVIOUS
      <4>1. Count(t, Step("unp_discard", h)) \in Nat
        BY <1>2, CountFinite
      <4>2. Step("sweep", k) # Step("unp_discard", h)
        BY StepEq
      <4>3. Count(u, Step("unp_discard", h))
              = One(Step("sweep", k) = Step("unp_discard", h)) + Count(t, Step("unp_discard", h))
        BY <1>2, <2>3, <2>4, HasPush
      <4> QED BY <4>1, <4>2, <4>3 DEF One
    <3> HIDE DEF u
    <3>6. n \notin fmark /\ u[1] = Step("sweep", n + 1)
      BY <2>4, <2>6, <3>2 DEF Unreferenced
    <3>7. /\ work' \in Seq(Steps) /\ ShapeOf(work', fmark)
          /\ \A c, h : AtHead(c, h)' <=> c = "drain" /\ h = n
          /\ \A c, h : ToDo(c, h)' <=> (c = "drain" /\ h = n) \/ Has(u, Step(c, h))
          /\ \A c, h : Later(c, h)' <=> Has(u, Step(c, h))
          /\ \A h : Pending(h)' = Count(u, Step("unp_discard", h))
      BY <2>1, <3>1, <3>2, <3>3, <3>6, DrainPushed
    <3>8. \A h : Pending(h)' = Pending(h)
      BY <1>2, <3>5, <3>7
    <3>9. \A h : /\ BeingClosed(h)' <=> BeingClosed(h)
                 /\ ToDo("discard", h)' <=> ToDo("discard", h)
                 /\ ~AtHead("closef", h)' /\ ~AtHead("mark", h)'
                 /\ Later("discard", h)' => Later("discard", h)
                 /\ Pending(h)' = Pending(h)
                 /\ ToDo("sweep", h)' <=> h = n + 1
      BY <1>2, <1>5, <2>4, <3>4, <3>7, <3>8 DEF BeingClosed
    <3> QED BY <2>1, <2>2, <3>7, <3>9, SweepGoesOn
  <2> QED BY <2>5, <2>6
<1> QED BY <1>6, <1>7

(* What the inner loop knows. *)
LEMMA DrainFacts ==
  ASSUME TypeInv, Full, Drain, NEW n, n = Head(work).f, NEW t, t = Tail(work)
  PROVE  /\ Doing("drain") /\ n \in Files /\ n + 1 \in Turns /\ n \notin fmark
         /\ t \in Seq(Steps) /\ ShapeOf(t, fmark) /\ Inner(t)
         /\ \A c, h : AtHead(c, h) <=> c = "drain" /\ h = n
         /\ \A c, h : ToDo(c, h) <=> (c = "drain" /\ h = n) \/ Has(t, Step(c, h))
         /\ \A c, h : Later(c, h) <=> Has(t, Step(c, h))
         /\ \A h : Pending(h) = Count(t, Step("unp_discard", h)) /\ Pending(h) \in Nat
         /\ Sweeping /\ unp_gcing
         /\ \A k : ToDo("sweep", k) <=> k = n + 1
         /\ t # <<>> /\ t[1] = Step("sweep", n + 1)
         /\ \A f : BeingClosed(f) \/ ToDo("discard", f) => f \in fmark
         /\ \A s \in fmark : \A f \in Files : Has(so_rcv[s], f) => f \in fmark
         /\ \A f \in Files \ fmark : fds[f] = 0 /\ (f < n => f_count[f] = 0)
         /\ UNCHANGED <<counts, fds, sockets, gcvars, panicked>>
<1>1. Doing("drain") /\ Shape /\ "drain" \in Calls /\ UNCHANGED <<counts, fds, sockets, gcvars, panicked>>
  BY DEF Drain, Full, Calls
<1>2. n \in Files /\ n + 1 \in Turns
  <2>1. n \in Files
    BY <1>1, HeadFacts
  <2> QED BY <2>1 DEF Files, Turns
<1>3. /\ t \in Seq(Steps) /\ ShapeOf(t, fmark) /\ Inner(t)
      /\ \A c, h : AtHead(c, h) <=> c = "drain" /\ h = n
      /\ \A c, h : ToDo(c, h) <=> (c = "drain" /\ h = n) \/ Has(t, Step(c, h))
      /\ \A c, h : Later(c, h) <=> Has(t, Step(c, h))
      /\ \A h : /\ Pending(h) = One("drain" = "unp_discard" /\ h = n) + Count(t, Step("unp_discard", h))
                /\ Count(t, Step("unp_discard", h)) \in Nat
  BY <1>1, HeadFacts
<1>4. \A h : Pending(h) = Count(t, Step("unp_discard", h)) /\ Pending(h) \in Nat
  BY <1>3 DEF One
<1>5. /\ t # <<>> /\ t[1] = Step("sweep", n + 1) /\ n \notin fmark
      /\ \A k : ToDo("sweep", k) => k = n + 1
      /\ \A f : BeingClosed(f) \/ ToDo("discard", f) => f \in fmark
  BY <1>1, BelowDrain
<1>6. ToDo("sweep", n + 1)
  <2>1. 1 \in DOMAIN t
    BY <1>3, <1>5
  <2>2. Has(t, Step("sweep", n + 1))
    BY <1>5, <2>1 DEF Has
  <2> QED BY <1>3, <2>2
<1>7. Sweeping /\ unp_gcing
  BY <1>1, <1>2, <1>6 DEF Sweeping, Shape
<1>8. /\ \A s \in fmark : \A f \in Files : Has(so_rcv[s], f) => f \in fmark
      /\ \A f \in Files \ fmark :
           /\ fds[f] = 0
           /\ f < n + 1 /\ (f + 1 = n + 1 => AtHead("sweep", n + 1)) => f_count[f] = 0
  BY <1>2, <1>6 DEF Full, SweepInv
<1>9. \A f \in Files \ fmark : fds[f] = 0 /\ (f < n => f_count[f] = 0)
  <2>1. \A f \in Files : f < n => f < n + 1 /\ f + 1 # n + 1
    BY <1>2 DEF Files
  <2> QED BY <1>8, <2>1
<1> QED BY <1>1, <1>2, <1>3, <1>4, <1>5, <1>6, <1>7, <1>8, <1>9

(* What a turn of the inner loop leaves as it is. *)
LEMMA DrainTurn ==
  ASSUME TypeInv, Full, Drain, NEW n, n = Head(work).f,
         work' \in Seq(Steps), ShapeOf(work', fmark),
         \A h : /\ BeingClosed(h)' <=> BeingClosed(h)
                /\ ToDo("discard", h)' <=> ToDo("discard", h)
                /\ ~AtHead("closef", h)' /\ ~AtHead("mark", h)'
                /\ Later("discard", h)' => Later("discard", h)
                /\ h # n => Pending(h)' = Pending(h)
                /\ ToDo("sweep", h)' <=> h = n + 1,
         AtHead("sweep", n + 1)' => f_count[n] = 0
  PROVE  TypeInv' /\ Full'
<1>1. PICK t : t = Tail(work)
  OBVIOUS
<1>2. /\ \A c, h : AtHead(c, h) <=> c = "drain" /\ h = n
      /\ \A c, h : Later(c, h) <=> Has(t, Step(c, h))
      /\ \A c, h : ToDo(c, h) <=> (c = "drain" /\ h = n) \/ Has(t, Step(c, h))
      /\ n \in Files /\ n + 1 \in Turns /\ n \notin fmark
      /\ Sweeping /\ unp_gcing
  BY <1>1, DrainFacts
<1>3. /\ \A f : BeingClosed(f) \/ ToDo("discard", f) => f \in fmark
      /\ \A s \in fmark : \A f \in Files : Has(so_rcv[s], f) => f \in fmark
      /\ \A f \in Files \ fmark : fds[f] = 0 /\ (f < n => f_count[f] = 0)
      /\ UNCHANGED <<counts, fds, sockets, gcvars, panicked>>
  BY <1>1, DrainFacts
<1>4. \A h : Later("discard", h)' => Later("discard", h) /\ Pending(h)' = Pending(h)
  BY <1>2, <1>3
<1>5. Sockets' /\ Balanced' /\ LastClose' /\ \A h : InBuf(h) \in Nat /\ InBuf(h)' = InBuf(h)
  BY <1>2, <1>3, <1>4, LoopStep
<1>6. ~Marking' /\ Sweeping'
  BY <1>2 DEF Marking, Sweeping
<1>7. Shape'
  BY <1>2, <1>3, <1>6 DEF Shape, gcvars
<1>8. RightsCounted'
  BY <1>2, <1>3, <1>5, <1>6 DEF RightsCounted, Full, Counted, counts, gcvars
<1>9. Grounded'
  BY <1>3, GroundedStays DEF Full, Held, sockets, gcvars
<1>10. MarkInv'
  BY DEF MarkInv
<1>11. SweepInv'
  <2>1. \A f \in Files : f < n + 1 => f < n \/ f = n
    BY <1>2 DEF Files
  <2>2. \A f \in Files \ fmark : f < n + 1 /\ (f + 1 = n + 1 => AtHead("sweep", n + 1)') => f_count[f] = 0
    BY <1>3, <2>1
  <2>3. UNCHANGED <<f_count, fds, fmark, so_rcv>>
    BY <1>3 DEF counts, sockets, gcvars
  <2> SUFFICES ASSUME NEW k \in Turns, ToDo("sweep", k)'
               PROVE  /\ \A s \in fmark : \A f \in Files : Has(so_rcv[s], f) => f \in fmark
                      /\ \A f \in Files \ fmark :
                           /\ fds[f] = 0
                           /\ f < k /\ (f + 1 = k => AtHead("sweep", k)') => f_count[f] = 0
    BY <2>3 DEF SweepInv
  <2>4. k = n + 1
    OBVIOUS
  <2> QED BY <1>3, <2>2, <2>4
<1>12. TypeInv'
  BY <1>3 DEF TypeInv, counts, sockets, gcvars
<1> QED BY <1>5, <1>7, <1>8, <1>9, <1>10, <1>11, <1>12 DEF Full

(* A turn of the inner loop. *)
LEMMA KeepsDrain ==
  ASSUME TypeInv, Full, NEW n, n = Head(work).f, Drain PROVE TypeInv' /\ Full'
<1>1. PICK t : t = Tail(work)
  OBVIOUS
<1>2. /\ n \in Files /\ n \notin fmark /\ t \in Seq(Steps) /\ ShapeOf(t, fmark) /\ Inner(t)
      /\ \A c, h : AtHead(c, h) <=> c = "drain" /\ h = n
      /\ \A c, h : ToDo(c, h) <=> (c = "drain" /\ h = n) \/ Has(t, Step(c, h))
      /\ \A c, h : Later(c, h) <=> Has(t, Step(c, h))
      /\ \A h : Pending(h) = Count(t, Step("unp_discard", h)) /\ Pending(h) \in Nat
      /\ \A k : ToDo("sweep", k) <=> k = n + 1
  <2>1. n \in Files /\ n \notin fmark /\ \A c, h : AtHead(c, h) <=> c = "drain" /\ h = n
    BY <1>1, DrainFacts
  <2>5. t \in Seq(Steps) /\ ShapeOf(t, fmark) /\ Inner(t)
    BY <1>1, DrainFacts
  <2>4. \A c, h : ToDo(c, h) <=> (c = "drain" /\ h = n) \/ Has(t, Step(c, h))
    BY <1>1, DrainFacts
  <2>3. \A k : ToDo("sweep", k) <=> k = n + 1
    BY <1>1, DrainFacts
  <2>2. /\ \A c, h : Later(c, h) <=> Has(t, Step(c, h))
        /\ \A h : Pending(h) = Count(t, Step("unp_discard", h)) /\ Pending(h) \in Nat
    BY <1>1, DrainFacts
  <2> QED BY <2>1, <2>2, <2>3, <2>4, <2>5
<1>3. /\ t # <<>> /\ t[1] = Step("sweep", n + 1) /\ Doing("drain")
      /\ \A f : BeingClosed(f) \/ ToDo("discard", f) => f \in fmark
      /\ fds[n] = 0
  BY <1>1, <1>2, DrainFacts
<1>4. f_count[n] = f_msgcount[n]
  <2>1. ~AtHead("closef", n) /\ ~BeingClosed(n)
    BY <1>2, <1>3
  <2>2. /\ f_count[n] = fds[n] + f_msgcount[n] + One(BeingClosed(n))
        /\ f_msgcount[n] \in Int
    BY <1>2, <2>1, NotOnlyMessages
  <2> QED BY <1>3, <2>1, <2>2 DEF One
<1>5. CASE f_msgcount[n] = 0
  <2>1. work' = t
    <3>1. work' = <<>> \o t
      BY <1>1, <1>5 DEF Drain, Todo
    <3> QED BY <1>2, <3>1
  <2>2. /\ work' \in Seq(Steps) /\ ShapeOf(work', fmark)
        /\ \A f : ~AtHead("closef", f)' /\ ~AtHead("detach", f)' /\ ~AtHead("mark", f)'
        /\ \A d, f : ToDo(d, f)' <=> Has(t, Step(d, f))
        /\ \A d, f : Later(d, f)' => Has(t, Step(d, f))
        /\ \A f : Pending(f)' = Count(t, Step("unp_discard", f))
    BY <1>2, <2>1, PoppedFacts
  <2>3. \A h : /\ BeingClosed(h)' <=> BeingClosed(h)
               /\ ToDo("discard", h)' <=> ToDo("discard", h)
               /\ ~AtHead("closef", h)' /\ ~AtHead("mark", h)'
               /\ Later("discard", h)' => Later("discard", h)
               /\ h # n => Pending(h)' = Pending(h)
               /\ ToDo("sweep", h)' <=> h = n + 1
    BY <1>2, <2>2 DEF BeingClosed
  <2> QED BY <1>4, <1>5, <2>2, <2>3, DrainTurn
<1>6. CASE f_msgcount[n] # 0
  <2>1. work' = <<Step("unp_discard", n), Step("drain", n)>> \o t
    BY <1>1, <1>6 DEF Drain, Todo
  <2>2. Step("unp_discard", n) \in Steps /\ Step("drain", n) \in Steps
    BY <1>2 DEF Step, Steps, Calls
  <2>3. /\ work \in Seq(Steps) /\ work # <<>> /\ work[1] = Step("drain", n)
        /\ ShapeOf(work, fmark) /\ Inner(work)
    <3>1. work \in Seq(Steps) /\ work # <<>> /\ work[1] = Step("drain", n) /\ ShapeOf(work, fmark)
      BY <1>3, HeadShape DEF Full
    <3>2. \A i \in DOMAIN work : i = 1 \/ i > 1
      BY <3>1
    <3> QED BY <3>1, <3>2, StepEq DEF ShapeOf, Inner
  <2>4. work' = <<Step("unp_discard", n)>> \o work
    <3>1. work = <<Step("drain", n)>> \o t
      BY <1>1, <2>3
    <3> QED BY <1>2, <2>1, <2>2, <3>1, PushTwo, SMTT(30)
  <2>5. Fits(Step("unp_discard", n), work, fmark)
    BY <2>3, StepEq DEF Fits
  <2>6. /\ work' \in Seq(Steps) /\ ShapeOf(work', fmark)
        /\ \A d, f : AtHead(d, f)' <=> d = "unp_discard" /\ f = n
        /\ \A d, f : ToDo(d, f)' <=> (d = "unp_discard" /\ f = n) \/ Has(work, Step(d, f))
        /\ \A d, f : Later(d, f)' <=> Has(work, Step(d, f))
        /\ \A f : Pending(f)' = One("unp_discard" = "unp_discard" /\ f = n)
                                  + Count(work, Step("unp_discard", f))
    BY <2>2, <2>3, <2>4, <2>5, PushedFacts
  <2>7. \A h : h # n => Pending(h)' = Pending(h)
    BY <1>2, <2>6 DEF One, Pending
  <2>8. \A h : /\ BeingClosed(h)' <=> BeingClosed(h)
               /\ ToDo("discard", h)' <=> ToDo("discard", h)
               /\ ~AtHead("closef", h)' /\ ~AtHead("mark", h)'
               /\ Later("discard", h)' => Later("discard", h)
               /\ h # n => Pending(h)' = Pending(h)
               /\ ToDo("sweep", h)' <=> h = n + 1
    <3>1. \A d, h : ToDo(d, h) <=> Has(work, Step(d, h))
      BY DEF ToDo
    <3> QED BY <1>2, <2>6, <2>7, <3>1 DEF BeingClosed
  <2>9. ~AtHead("sweep", n + 1)'
    BY <2>6
  <2> QED BY <2>6, <2>8, <2>9, DrainTurn
<1> QED BY <1>5, <1>6

-----------------------------------------------------------------------------
(* A reference that is given back twice ends in a panic, at once.          *)

(* After a panic nothing changes. *)
LEMMA HaltedStays ==
  ASSUME TypeInv, panicked, Next PROVE UNCHANGED vars
BY DEF Next, Syscall, Socketpair, Dup, SendtoFails, Close, Recvmsg, RecvmsgFull, Read, Received,
       Sendmsg, Idle, Closef, Detach, Discard, unp_discard, Closed, Mark, Sweep, Drain, Doing, Halted

(* Only the work has changed. *)
LEMMA TypeStays ==
  ASSUME TypeInv, work' \in Seq(Steps), panicked' \in BOOLEAN,
         UNCHANGED <<counts, fds, sockets, gcvars>>
  PROVE  TypeInv'
BY DEF TypeInv, counts, sockets, gcvars

(* The steps from there change nothing but the work. *)
LEMMA ImminentStep ==
  ASSUME TypeInv, Imminent, ~panicked, Next
  PROVE  /\ TypeInv' /\ (panicked' \/ Imminent')
         /\ UNCHANGED <<counts, fds, sockets, gcvars>>
<1>1. PICK f \in Files :
         \/ AtHead("closef", f) /\ f_count[f] = 0
         \/ AtHead("discard", f) /\ f \in nofdref
         \/ /\ AtHead("detach", f) /\ f \in nofdref /\ f \notin so_pcb /\ Tail(work) # <<>>
            /\ Tail(work)[1] = Step("discard", f)
  BY DEF Imminent
<1>2. work # <<>> /\ work \in Seq(Steps) /\ Head(work) = work[1]
  BY <1>1 DEF AtHead, TypeInv
<1>3. Head(work).f = f /\ Head(work).do \in {"closef", "discard", "detach"}
      /\ \A c : AtHead(c, f) <=> Head(work).do = c
  <2>1. \A c : AtHead(c, f) => Head(work).do = c /\ Head(work).f = f
    BY <1>2, StepEq DEF AtHead
  <2>2. PICK c \in {"closef", "discard", "detach"} : AtHead(c, f)
    BY <1>1
  <2>3. \A d : AtHead(d, f) <=> d = c
    BY <2>2, StepEq DEF AtHead
  <2> QED BY <2>1, <2>2, <2>3
<1>4. Closef \/ Detach \/ Discard
  BY <1>2, <1>3 DEF Next, Syscall, Socketpair, Dup, SendtoFails, Close, Recvmsg, RecvmsgFull, Read,
       Received, Sendmsg, Idle, unp_discard, Closed, Mark, Sweep, Drain, Doing, Halted
<1>5. CASE Closef
  <2>1. f_count[f] = 0
    BY <1>1, <1>3, <1>5 DEF Closef, Doing
  <2>2. Panic
    BY <1>3, <1>5, <2>1 DEF Closef
  <2> QED BY <2>2, TypeStays DEF Panic, TypeInv
<1>6. CASE Discard
  <2>1. f \in nofdref
    BY <1>1, <1>3, <1>6 DEF Discard, Doing
  <2>2. Panic
    BY <1>3, <1>6, <2>1 DEF Discard
  <2> QED BY <2>2, TypeStays DEF Panic, TypeInv
<1>7. CASE Detach
  <2>1. f \in nofdref /\ f \notin so_pcb /\ Tail(work) # <<>> /\ Tail(work)[1] = Step("discard", f)
    BY <1>1, <1>3, <1>7 DEF Detach, Doing
  <2>2. work' = <<>> \o Tail(work) /\ UNCHANGED <<counts, fds, sockets, gcvars, panicked>>
    BY <1>3, <1>7, <2>1 DEF Detach, Todo, sockets
  <2>3. Tail(work) \in Seq(Steps) /\ work' = Tail(work)
    BY <1>2, <2>2
  <2>4. AtHead("discard", f)' /\ f \in nofdref'
    BY <2>1, <2>2, <2>3 DEF AtHead, sockets
  <2>5. Imminent'
    BY <2>4 DEF Imminent
  <2> QED BY <2>2, <2>3, <2>5, TypeStays DEF TypeInv
<1> QED BY <1>4, <1>5, <1>6, <1>7

(* The step of the induction. *)
Inv == TypeInv /\ (panicked \/ Imminent \/ Full)

(* Every step keeps it; one that leaves Full changes nothing that          *)
(* KeepsReachable is about.                                                *)
LEMMA InvStep ==
  ASSUME Inv, [Next]_vars
  PROVE  /\ Inv'
         /\ Full' \/ UNCHANGED <<f_count, fds, f_data, nofdref, so_rcv>>
<1> TypeInv
  BY DEF Inv
<1>1. CASE UNCHANGED vars
  <2>1. UNCHANGED <<f_count, f_msgcount, unp_rights, fds, f_data, so_pcb, nofdref, unp_conn, so_rcv,
                    unp_gcing, fmark, fdefer, work, panicked>>
    BY <1>1 DEF vars, counts, sockets, gcvars
  <2>2. TypeInv'
    BY <2>1 DEF TypeInv
  <2>3. Imminent => Imminent'
    BY <2>1 DEF Imminent, AtHead
  <2>4. Full => Full'
    BY <2>1 DEF Full, Shape, Sockets, Connected, Balanced, RightsCounted, Counted, Doomed, LastClose,
                Grounded, Enclosed, MarkInv, SweepInv, Marking, Sweeping, BeingClosed, Pending, InBuf,
                AtHead, ToDo, Later, Held
  <2> QED BY <1>1, <2>1, <2>2, <2>3, <2>4 DEF Inv, vars
<1>2. CASE Next /\ panicked
  BY <1>1, <1>2, HaltedStays
<1>3. CASE Next /\ ~panicked /\ Imminent
  BY <1>3, ImminentStep DEF Inv, counts, sockets
<1>4. CASE Next /\ ~panicked /\ ~Imminent
  <2> Full /\ ~panicked
    BY <1>4 DEF Inv
  <2>0. PICK f : f = Head(work).f
    OBVIOUS
  <2>1. CASE Syscall
    BY <2>1, KeepsSyscall DEF Inv
  <2>2. CASE Closef
    <3>1. CASE f_count[f] > 1
      BY <2>0, <2>2, <3>1, KeepsClosefMore DEF Inv
    <3>2. CASE ~(f_count[f] > 1)
      <4>1. UNCHANGED <<f_count, fds, f_data, nofdref, so_rcv>>
        BY <2>0, <2>2, <3>2 DEF Closef, Panic, counts, sockets
      <4> QED BY <2>2, <4>1, KeepsClosef DEF Inv
    <3> QED BY <3>1, <3>2
  <2>3. CASE Detach
    BY <2>3, KeepsDetach DEF Inv
  <2>4. CASE Discard
    <3>1. UNCHANGED <<f_count, fds, f_data, nofdref, so_rcv>> \/ panicked' = panicked
      BY <2>4 DEF Discard, Panic, counts, sockets
    <3> QED BY <2>0, <2>4, <3>1, KeepsDiscard DEF Inv
  <2>5. CASE unp_discard
    <3>1. UNCHANGED <<f_count, fds, f_data, nofdref, so_rcv>>
      BY <2>5 DEF unp_discard, sockets
    <3> QED BY <2>5, <3>1, Keeps_unp_discard DEF Inv
  <2>6. CASE Closed
    BY <2>0, <2>6, KeepsClosed DEF Inv
  <2>7. CASE Mark
    BY <2>0, <2>7, KeepsMark DEF Inv
  <2>8. CASE Sweep
    BY <2>0, <2>8, KeepsSweep DEF Inv
  <2>9. CASE Drain
    BY <2>0, <2>9, KeepsDrain DEF Inv
  <2>10. CASE Halted
    BY <1>1, <2>10 DEF Halted
  <2> QED BY <1>4, <2>1, <2>2, <2>3, <2>4, <2>5, <2>6, <2>7, <2>8, <2>9, <2>10 DEF Next
<1> QED BY <1>1, <1>2, <1>3, <1>4

-----------------------------------------------------------------------------
(* What can be reached.                                                    *)

(* Induction up to n, for a set of numbers: the prover can instantiate it, *)
(* unlike an induction rule for a predicate.                               *)
LEMMA UpTo ==
  ASSUME NEW n \in Nat, NEW S, 0 \in S,
         \A i \in 0 .. (n - 1) : i \in S => i + 1 \in S
  PROVE  \A i \in 0 .. n : i \in S
<1> DEFINE R == {ss \in Nat \X Nat : ss[1] < ss[2]}
           T == (0 .. n) \ S
<1>1. IsWellFoundedOn(R, Nat)
  BY NatLessThanWellFounded, Zenon DEF OpToRel
<1>2. ASSUME T # {} PROVE FALSE
  <2>1. T \subseteq Nat
    OBVIOUS
  <2>2. PICK x \in T : \A y \in T : ~(<<y, x>> \in R)
    <3> HIDE DEF R, T
    <3> QED BY <1>1, <1>2, <2>1, WFMin, Zenon
  <2>3. \A u, v \in Nat : v < u => <<v, u>> \in R
    OBVIOUS
  <2>4. \A y \in T : ~(y < x)
    BY <2>1, <2>2, <2>3, Zenon
  <2>5. x - 1 \in 0 .. (n - 1) /\ x - 1 \notin T
    BY <2>2, <2>4
  <2> QED BY <2>2, <2>5
<1> QED BY <1>2

(* A set of files and what their buffers hold. *)
Grow(rcv, X) == X \cup UNION {Range(rcv[f]) : f \in X}

(* ReachableFrom(), for any buffers. *)
Closure(rcv, roots) ==
  LET R[n \in 0 .. NFILE] == IF n = 0 THEN roots
                             ELSE R[n - 1] \cup UNION {Range(rcv[f]) : f \in R[n - 1]}
  IN R[NFILE]

Stages(F, rcv, roots, n) == F = [i \in 0 .. n |-> IF i = 0 THEN roots ELSE Grow(rcv, F[i - 1])]

(* The stages on the way to a closure exist. *)
LEMMA StagesExist ==
  ASSUME NEW rcv, NEW roots, NEW n \in Nat
  PROVE  \E F : Stages(F, rcv, roots, n)
<1> DEFINE S == {m \in Nat : \E F : Stages(F, rcv, roots, m)}
<1>1. 0 \in S
  <2>1. Stages([i \in 0 .. 0 |-> roots], rcv, roots, 0)
    BY DEF Stages
  <2> QED BY <2>1
<1>2. ASSUME NEW m \in Nat, m \in S PROVE m + 1 \in S
  <2>1. PICK F : Stages(F, rcv, roots, m)
    BY <1>2
  <2> DEFINE G == [i \in 0 .. (m + 1) |-> IF i <= m THEN F[i] ELSE Grow(rcv, F[m])]
  <2>2. Stages(G, rcv, roots, m + 1)
    BY <2>1 DEF Stages
  <2> QED BY <2>2
<1> HIDE DEF S
<1>3. \A i \in 0 .. n : i \in S
  BY <1>1, <1>2, UpTo
<1> QED BY <1>3 DEF S

(* Closure() is the last of them. *)
LEMMA ClosureStages ==
  ASSUME NEW rcv, NEW roots
  PROVE  \E F : /\ Closure(rcv, roots) = F[NFILE] /\ F[0] = roots
                /\ \A i \in 0 .. NFILE - 1 : F[i + 1] = Grow(rcv, F[i])
<1> DEFINE F == CHOOSE g : g = [n \in 0 .. NFILE |->
                  IF n = 0 THEN roots ELSE g[n - 1] \cup UNION {Range(rcv[f]) : f \in g[n - 1]}]
<1>1. Closure(rcv, roots) = F[NFILE]
  BY DEF Closure
<1>2. \E g : g = [n \in 0 .. NFILE |->
                  IF n = 0 THEN roots ELSE g[n - 1] \cup UNION {Range(rcv[f]) : f \in g[n - 1]}]
  <2>1. PICK g : Stages(g, rcv, roots, NFILE)
    BY StagesExist
  <2>2. g = [n \in 0 .. NFILE |->
                  IF n = 0 THEN roots ELSE g[n - 1] \cup UNION {Range(rcv[f]) : f \in g[n - 1]}]
    BY ONLY <2>1, Zenon DEF Stages, Grow
  <2> QED BY ONLY <2>2, Zenon
<1>3. F = [n \in 0 .. NFILE |->
                  IF n = 0 THEN roots ELSE F[n - 1] \cup UNION {Range(rcv[f]) : f \in F[n - 1]}]
  BY ONLY <1>2, Zenon
<1>4. Stages(F, rcv, roots, NFILE)
  BY ONLY <1>3, Zenon DEF Stages, Grow
<1> HIDE DEF F
<1>5. F[0] = roots /\ \A i \in 0 .. NFILE - 1 : F[i + 1] = Grow(rcv, F[i])
  BY <1>4 DEF Stages
<1> QED BY <1>1, <1>5

Shut(rcv, X) == \A s \in X : \A f : Has(rcv[s], f) => f \in X

(* A set is shut if it does not grow. *)
LEMMA GrowFacts ==
  ASSUME NEW rcv \in [Files -> Seq(Files)], NEW X \in SUBSET Files
  PROVE  /\ X \subseteq Grow(rcv, X) /\ Grow(rcv, X) \subseteq Files
         /\ Shut(rcv, X) <=> Grow(rcv, X) = X
         /\ \A Y : X \subseteq Y /\ Shut(rcv, Y) => Grow(rcv, X) \subseteq Y
<1>1. \A s \in X : Range(rcv[s]) \subseteq Files /\ \A f : f \in Range(rcv[s]) <=> Has(rcv[s], f)
  <2> SUFFICES ASSUME NEW s \in X
               PROVE  Range(rcv[s]) \subseteq Files /\ \A f : f \in Range(rcv[s]) <=> Has(rcv[s], f)
    OBVIOUS
  <2>1. rcv[s] \in Seq(Files)
    OBVIOUS
  <2> QED BY <2>1, RangeHas
<1>2. \A f : f \in Grow(rcv, X) <=> f \in X \/ \E s \in X : Has(rcv[s], f)
  BY <1>1 DEF Grow
<1>3. Grow(rcv, X) \subseteq Files
  BY <1>1 DEF Grow
<1>4. Shut(rcv, X) <=> Grow(rcv, X) = X
  BY <1>2 DEF Shut
<1>5. \A Y : X \subseteq Y /\ Shut(rcv, Y) => Grow(rcv, X) \subseteq Y
  BY <1>2 DEF Shut
<1> QED BY <1>2, <1>3, <1>4, <1>5

(* As many turns as there are files are enough: a turn that finds no new   *)
(* file is the last, and there are not more files than NFILE.              *)
LEMMA ClosureFacts ==
  ASSUME NEW rcv \in [Files -> Seq(Files)], NEW roots \in SUBSET Files
  PROVE  /\ roots \subseteq Closure(rcv, roots) /\ Closure(rcv, roots) \subseteq Files
         /\ Shut(rcv, Closure(rcv, roots))
         /\ \A Y : roots \subseteq Y /\ Shut(rcv, Y) => Closure(rcv, roots) \subseteq Y
<1>1. PICK F : /\ Closure(rcv, roots) = F[NFILE] /\ F[0] = roots
               /\ \A i \in 0 .. NFILE - 1 : F[i + 1] = Grow(rcv, F[i])
  BY ClosureStages
<1>2. IsFiniteSet(Files) /\ Cardinality(Files) = NFILE
  <2>1. 1 \in Int /\ NFILE \in Int
    OBVIOUS
  <2>2. IsFiniteSet(1 .. NFILE) /\ Cardinality(1 .. NFILE) = IF 1 > NFILE THEN 0 ELSE NFILE - 1 + 1
    BY <2>1, FS_Interval
  <2> QED BY <2>2 DEF Files
<1> DEFINE S == {n \in Nat : /\ F[n] \in SUBSET Files /\ roots \subseteq F[n]
                             /\ Shut(rcv, F[n]) \/ Cardinality(F[n]) >= n + 1
                             /\ \A Y : roots \subseteq Y /\ Shut(rcv, Y) => F[n] \subseteq Y}
<1>3. 0 \in S
  <2>1. Shut(rcv, roots) \/ Cardinality(roots) >= 1
    <3>1. roots = {} => Shut(rcv, roots)
      BY DEF Shut
    <3>2. IsFiniteSet(roots) /\ Cardinality(roots) \in Nat
      BY <1>2, FS_Subset, FS_CardinalityType
    <3>3. Cardinality(roots) = 0 => roots = {}
      BY <3>2, FS_EmptySet
    <3> QED BY <3>1, <3>2, <3>3
  <2> QED BY <1>1, <2>1
<1>4. ASSUME NEW n \in 0 .. NFILE - 1, n \in S PROVE n + 1 \in S
  <2>1. PICK X : X = F[n]
    OBVIOUS
  <2>2. PICK Z : Z = F[n + 1]
    OBVIOUS
  <2>3. /\ X \in SUBSET Files /\ roots \subseteq X
        /\ Shut(rcv, X) \/ Cardinality(X) >= n + 1
        /\ \A Y : roots \subseteq Y /\ Shut(rcv, Y) => X \subseteq Y
    BY <1>4, <2>1
  <2>4. Z = Grow(rcv, X)
    BY <1>1, <2>1, <2>2
  <2>5. /\ X \subseteq Z /\ Z \in SUBSET Files
        /\ Shut(rcv, X) <=> Z = X
        /\ \A Y : X \subseteq Y /\ Shut(rcv, Y) => Z \subseteq Y
    BY <2>3, <2>4, GrowFacts
  <2>6. Shut(rcv, Z) \/ Cardinality(Z) >= n + 1 + 1
    <3>1. CASE Shut(rcv, X)
      BY <2>5, <3>1
    <3>2. CASE ~Shut(rcv, X)
      <4>1. IsFiniteSet(Z) /\ Cardinality(Z) \in Nat
        BY <1>2, <2>5, FS_Subset, FS_CardinalityType
      <4>2. IsFiniteSet(X) /\ Cardinality(X) \in Nat
        BY <1>2, <2>3, FS_Subset, FS_CardinalityType
      <4>3. Cardinality(X) <= Cardinality(Z) /\ Cardinality(Z) # Cardinality(X)
        BY <2>5, <3>2, <4>1, FS_Subset
      <4>4. Cardinality(X) >= n + 1
        BY <2>3, <3>2
      <4> QED BY <4>1, <4>2, <4>3, <4>4
    <3> QED BY <3>1, <3>2
  <2>7. n + 1 \in Nat
    OBVIOUS
  <2> QED BY <2>2, <2>3, <2>5, <2>6, <2>7
<1>5. NFILE \in S
  <2> HIDE DEF S
  <2>1. \A i \in 0 .. NFILE : i \in S
    BY <1>3, <1>4, UpTo
  <2> QED BY <2>1
<1>6. F[NFILE] \in SUBSET Files /\ Cardinality(F[NFILE]) <= NFILE /\ Cardinality(F[NFILE]) \in Nat
  BY <1>2, <1>5, FS_Subset, FS_CardinalityType
<1>7. ~(Cardinality(F[NFILE]) >= NFILE + 1)
  BY <1>6
<1> QED BY <1>1, <1>5, <1>7

-----------------------------------------------------------------------------
(* The theorems.                                                           *)

(* The invariant says it of what can be reached: it is marked while the    *)
(* collector sweeps, so that f_msgcount counts it in either case.          *)
LEMMA FullKeeps == TypeInv /\ Full => KeepsReachable
<1> SUFFICES ASSUME TypeInv, Full PROVE KeepsReachable
  OBVIOUS
<1> DEFINE roots == {f \in Files : fds[f] > 0}
<1>1. Reachable = Closure(so_rcv, roots)
  BY DEF Reachable, ReachableFrom, Held, Closure
<1>2. so_rcv \in [Files -> Seq(Files)] /\ roots \in SUBSET Files
  BY DEF TypeInv
<1>3. /\ Reachable \in SUBSET Files
      /\ \A Y : roots \subseteq Y /\ Shut(so_rcv, Y) => Reachable \subseteq Y
  BY <1>1, <1>2, ClosureFacts
<1>4. \A s \in Files : \A f : Has(so_rcv[s], f) => f \in Files
  BY <1>2 DEF Has
<1>5. Sweeping => Reachable \subseteq fmark
  <2> SUFFICES ASSUME Sweeping PROVE Reachable \subseteq fmark
    OBVIOUS
  <2>1. PICK n \in Turns : ToDo("sweep", n)
    BY DEF Sweeping
  <2>2. /\ \A s \in fmark : \A f \in Files : Has(so_rcv[s], f) => f \in fmark
        /\ \A f \in Files \ fmark : fds[f] = 0
    BY <2>1 DEF Full, SweepInv
  <2>3. fmark \subseteq Files
    BY DEF TypeInv
  <2>4. Shut(so_rcv, fmark)
    BY <1>4, <2>2, <2>3 DEF Shut
  <2>5. roots \subseteq fmark
    BY <2>2
  <2> QED BY <1>3, <2>4, <2>5
<1>6. \A f \in Reachable : fds[f] > 0 \/ InBuf(f) # 0
  <2> DEFINE Y == {f \in Files : fds[f] > 0 \/ InBuf(f) # 0}
  <2>1. roots \subseteq Y
    OBVIOUS
  <2>2. Shut(so_rcv, Y)
    <3> SUFFICES ASSUME NEW s \in Files, NEW f, Has(so_rcv[s], f) PROVE f \in Files /\ InBuf(f) # 0
      BY DEF Shut
    <3> QED BY <1>4, InBufFacts
  <2>3. Reachable \subseteq Y
    BY <1>3, <2>1, <2>2
  <2> QED BY <2>3
<1> HIDE DEF roots
<1> SUFFICES ASSUME NEW f \in Reachable
             PROVE  f \in f_data /\ f \notin nofdref /\ f_count[f] >= Usable(f)
  BY DEF KeepsReachable
<1>7. f \in Files
  BY <1>3
<1>8. Counted(f)
  BY <1>5, <1>6, <1>7 DEF Full, RightsCounted, Doomed
<1>9. InBuf(f) \in Nat /\ Pending(f) \in Nat /\ fds[f] \in Nat /\ f_msgcount[f] \in Int /\ f_count[f] \in Nat
  BY <1>7, InBufFacts, PendingFacts DEF TypeInv
<1>10. f_count[f] = fds[f] + f_msgcount[f] + One(AtHead("closef", f)) + One(BeingClosed(f))
  BY <1>7 DEF Full, Balanced
<1>11. One(AtHead("closef", f)) \in Nat /\ One(BeingClosed(f)) \in Nat
       /\ (BeingClosed(f) => One(BeingClosed(f)) = 1)
  BY DEF One
<1>12. f_msgcount[f] >= InBuf(f)
  BY <1>8, <1>9 DEF Counted
<1>13. f_count[f] >= fds[f] + InBuf(f) + One(BeingClosed(f)) /\ fds[f] + InBuf(f) > 0
  BY <1>6, <1>9, <1>10, <1>11, <1>12
<1>14. f_count[f] > 0
  BY <1>9, <1>11, <1>13
<1>15. f \in f_data
  BY <1>7, <1>14 DEF Full, Sockets
<1>16. f \notin nofdref
  <2> SUFFICES ASSUME f \in nofdref PROVE FALSE
    OBVIOUS
  <2>1. BeingClosed(f) /\ f_count[f] = 1
    BY <1>7 DEF Full, Sockets
  <2>2. One(BeingClosed(f)) = 1
    BY <1>11, <2>1
  <2>3. PICK a \in Nat : a = fds[f] + InBuf(f)
    BY <1>9
  <2>4. f_count[f] >= a + 1 /\ a > 0
    BY <1>13, <2>2, <2>3
  <2> QED BY <2>1, <2>4
<1>17. f_count[f] >= Usable(f)
  <2>1. Usable(f) = fds[f] + Cardinality(Places(so_rcv, Reachable, f))
    BY DEF Usable, Places
  <2>2. Places(so_rcv, Reachable, f) \in SUBSET Places(so_rcv, Files, f)
    BY <1>3 DEF Places
  <2>3. IsFiniteSet(Places(so_rcv, Files, f))
    BY <1>2, PlacesFinite
  <2>4. /\ Cardinality(Places(so_rcv, Reachable, f)) <= InBuf(f)
        /\ Cardinality(Places(so_rcv, Reachable, f)) \in Nat
    BY <2>2, <2>3, FS_Subset, FS_CardinalityType DEF InBuf
  <2> QED BY <1>9, <1>11, <1>13, <2>1, <2>4
<1> QED BY <1>15, <1>16, <1>17

(* The same in the next state. *)
LEMMA FullKeepsNext == (TypeInv /\ Full => KeepsReachable)'
BY FullKeeps, PTL

(* A step that changes nothing of it. *)
LEMMA ReachableStays ==
  ASSUME UNCHANGED <<f_count, fds, f_data, nofdref, so_rcv>>, KeepsReachable
  PROVE  KeepsReachable'
<1>1. Reachable = Closure(so_rcv, {f \in Files : fds[f] > 0})
  BY DEF Reachable, ReachableFrom, Held, Closure
<1>2. Reachable' = Closure(so_rcv', {f \in Files : fds'[f] > 0})
  BY DEF Reachable, ReachableFrom, Held, Closure
<1>3. Reachable' = Reachable
  BY <1>1, <1>2
<1>4. \A f : Usable(f)' = Usable(f)
  BY <1>3 DEF Usable
<1> QED BY <1>3, <1>4 DEF KeepsReachable

(* For every size of the file table, every number of descriptors and of    *)
(* rights: neither closef() nor unp_gc() takes a file away that a process  *)
(* has or can still receive, whatever references read() and failed sends   *)
(* have lost and whatever panics they lead to.                             *)
THEOREM ReachableKept == Spec => []KeepsReachable
<1>1. Init => Inv /\ KeepsReachable
  BY InitFull, FullKeeps DEF Inv
<1>2. Inv /\ KeepsReachable /\ [Next]_vars => Inv' /\ KeepsReachable'
  <2> SUFFICES ASSUME Inv, KeepsReachable, [Next]_vars PROVE Inv' /\ KeepsReachable'
    OBVIOUS
  <2>1. Inv' /\ (Full' \/ UNCHANGED <<f_count, fds, f_data, nofdref, so_rcv>>)
    BY InvStep
  <2>2. CASE Full'
    BY <2>1, <2>2, FullKeepsNext DEF Inv
  <2>3. CASE UNCHANGED <<f_count, fds, f_data, nofdref, so_rcv>>
    BY <2>1, <2>3, ReachableStays
  <2> QED BY <2>1, <2>2, <2>3
<1> QED BY <1>1, <1>2, PTL DEF Spec

(* The files that Closing names. *)
LEMMA ClosingIs ==
  ASSUME NEW w \in Seq(Steps)
  PROVE  {w[i].f : i \in {j \in DOMAIN w : w[j].do = "closed"}} = {f \in Files : Has(w, Step("closed", f))}
<1> DEFINE A == {w[i].f : i \in {j \in DOMAIN w : w[j].do = "closed"}}
           B == {f \in Files : Has(w, Step("closed", f))}
<1>1. ASSUME NEW i \in DOMAIN w, w[i].do = "closed" PROVE w[i].f \in B
  <2>1. w[i] \in Steps
    OBVIOUS
  <2>2. w[i] = Step("closed", w[i].f) /\ w[i].f \in Files
    BY <1>1, <2>1 DEF Step, Steps, Loops
  <2> QED BY <2>2 DEF Has
<1>2. ASSUME NEW f \in B PROVE f \in A
  <2>1. PICK i \in DOMAIN w : w[i] = Step("closed", f)
    BY DEF Has
  <2>2. w[i].do = "closed" /\ w[i].f = f
    BY <2>1, StepEq
  <2> QED BY <2>2
<1> QED BY <1>1, <1>2

(* Only the end of the sweep ends a collection. *)
LEMMA CollectionEnds ==
  ASSUME Inv, [Next]_vars, unp_gcing, ~unp_gcing'
  PROVE  TypeInv /\ Full /\ Sweep /\ Head(work).f > NFILE
<1>1. Next /\ TypeInv
  BY DEF vars, gcvars, Inv
<1>2. ~panicked
  BY <1>1, HaltedStays DEF vars, gcvars
<1>3. ~Imminent
  BY <1>1, <1>2, ImminentStep DEF gcvars
<1>4. Full
  BY <1>2, <1>3 DEF Inv
<1>5. ~Syscall
  BY DEF Syscall, Socketpair, Dup, SendtoFails, Close, Recvmsg, RecvmsgFull, Read, Received,
         Sendmsg, gcvars
<1>6. ~Closef /\ ~Discard /\ ~unp_discard /\ ~Closed /\ ~Mark /\ ~Drain /\ ~Halted
  BY DEF Closef, Discard, unp_discard, Closed, Mark, Drain, Halted, Panic, vars, gcvars
<1>7. ~Detach
  BY DEF Detach, gcvars
<1>8. Sweep
  BY <1>1, <1>5, <1>6, <1>7 DEF Next
<1>9. Head(work).f > NFILE
  BY <1>8 DEF Sweep, gcvars
<1> QED BY <1>1, <1>4, <1>8, <1>9

(* A collection that comes to its end leaves no file open that is reached  *)
(* neither from a descriptor nor from a file that is being closed: the     *)
(* marks are on nothing else, and what has no mark has lost its last       *)
(* reference.                                                              *)
THEOREM GarbageCollected == Spec => CollectsGarbage
<1>1. Init => Inv
  BY InitFull DEF Inv
<1>2. Inv /\ [Next]_vars => Inv'
  BY InvStep
<1>3. Inv /\ [Next]_vars => (unp_gcing /\ ~unp_gcing' => Garbage' = {})
  <2> SUFFICES ASSUME Inv, [Next]_vars, unp_gcing, ~unp_gcing' PROVE Garbage' = {}
    OBVIOUS
  <2>1. TypeInv /\ Full /\ Sweep /\ Head(work).f > NFILE
    BY CollectionEnds
  <2>2. /\ TypeInv' /\ \A f \in Files : f_count[f] # 0 => f \in fmark
        /\ \A h : BeingClosed(h)' <=> BeingClosed(h)
    BY <2>1, SweepEnds
  <2>3. UNCHANGED <<f_count, fds, so_rcv>>
    BY <2>1 DEF Sweep, counts, sockets
  <2> DEFINE roots == {g \in Files : fds'[g] > 0} \cup Closing'
  <2>4. Garbage' = {f \in Files : f_count'[f] > 0} \ Closure(so_rcv', roots)
    BY DEF Garbage, ReachableFrom, Held, Closure
  <2>5. Closing' = {f \in Files : BeingClosed(f)'}
    <3>1. work' \in Seq(Steps)
      BY <2>2 DEF TypeInv
    <3>2. Closing' = {f \in Files : Has(work', Step("closed", f))}
      BY <3>1, ClosingIs DEF Closing
    <3> QED BY <3>2 DEF BeingClosed, ToDo
  <2>6. so_rcv' \in [Files -> Seq(Files)] /\ roots \in SUBSET Files
    BY <2>2, <2>5 DEF TypeInv
  <2>7. PICK C : C = Closure(so_rcv', roots)
    OBVIOUS
  <2>8. roots \subseteq C /\ C \subseteq Files /\ Shut(so_rcv', C)
    BY <2>6, <2>7, ClosureFacts
  <2>9. Enclosed(C)
    <3>1. \A f \in fmark : Held(f) \/ BeingClosed(f) => f \in C
      BY <2>1, <2>2, <2>3, <2>5, <2>8 DEF Held, TypeInv
    <3>2. \A s \in C : \A f \in Files : Has(so_rcv[s], f) => f \in C
      BY <2>3, <2>8 DEF Shut
    <3> QED BY <3>1, <3>2 DEF Enclosed
  <2>10. fmark \subseteq C
    BY <2>1, <2>8, <2>9 DEF Full, Grounded
  <2>11. \A f \in Files : f_count'[f] > 0 => f \in C
    BY <2>2, <2>3, <2>10
  <2> QED BY <2>4, <2>7, <2>11
<1> QED BY <1>1, <1>2, <1>3, PTL DEF Spec, CollectsGarbage

=============================================================================
