--------------------------- MODULE BufCache_proofs ---------------------------
(***************************************************************************)
(* Theorems about the buffer cache, for any number of processes, buffers,  *)
(* vnodes, blocks and sizes, with or without disk errors.                  *)
(***************************************************************************)
EXTENDS BufCache, FiniteSetTheorems, TLAPS

(* Where bwrite() returns to, where a process has one caller only, where   *)
(* it is in getblk(), and who calls that.                                  *)
Nexts == {"user", "getblk", "getnewbuf", "vflush", "vflush_scan", "vinval"}
OneDeep == {"bread", "breada", "breada_io", "breada_ra", "ra_io", "breada_end", "vflush",
            "vflush_scan", "vflush_wait", "vinval", "vinval_scan", "vinval_take"}
InGetblk == {"getblk", "found", "getnewbuf"}
Callers == {"bread", "breada_io", "ra_io"}

(* The requests: only geteblk() asks for a buffer without a vnode. *)
Asked == {w \in Request : w.op = "geteblk" <=> w.vp = None}

(* The stack s of a process that is at a label outside bwrite(). *)
PlainStack(label, s) ==
  \/ label = "user" /\ s = <<>>
  \/ label \in OneDeep /\ s = <<"user">>
  \/ label \in InGetblk /\ (s = <<"user">> \/ \E c \in Callers : s = <<c>> \o <<"user">>)

(* The stack s of one inside bwrite(), with the request w. *)
WriteStack(s, w) ==
  \E n \in Nexts, t \in Seq(Labels) :
    s = <<n>> \o t /\ PlainStack(n, t) /\ (n # "user" => w \in Asked)

(* A process at label l with stack s, request w and buffer x. *)
FrameAt(l, s, w, x) ==
  \/ PlainStack(l, s) /\ (l # "user" \/ x # None => w \in Asked)
  \/ l = "biowait" /\ s = <<"user">> /\ w \in Asked
  \/ l \in {"setage", "release"} /\ WriteStack(s, w)
  \/ l = "biowait" /\ \E t \in Seq(Labels) : s = <<"release">> \o t /\ WriteStack(t, w)

(* The labels at which bp is the buffer at work, and those at which it is  *)
(* a null pointer.                                                         *)
Pointing == {"found", "setage", "bread", "breada_io", "ra_io", "biowait", "release",
             "vinval_take"}
Pointless == {"breada", "breada_ra", "breada_end", "vflush", "vflush_scan", "vflush_wait",
              "vinval", "vinval_scan"}

PointerAt(l, x) == /\ l \in Pointing => x # None
                   /\ l \in Pointless => x = None

Frame(p) == FrameAt(pc[p], stack[p], want[p], bp[p]) /\ PointerAt(pc[p], bp[p])

Control == \A p \in Procs : Frame(p)

(* A dirty buffer has a vnode. *)
DirtyHome == \A b \in Bufs : Has(b, "DELWRI") => b_vp[b] # None

ControlInv == TypeOK /\ Control /\ ListsAgree /\ DirtyHome

-----------------------------------------------------------------------------
(* Free lists.                                                             *)

Listed(s, b) == \E i \in DOMAIN s : s[i] = b

Once(s) == \A i, j \in DOMAIN s : s[i] = s[j] => i = j

LEMMA WithoutSeq ==
  ASSUME NEW s \in Seq(Bufs), NEW b
  PROVE  /\ Without(s, b) \in Seq(Bufs)
         /\ \A c : Listed(Without(s, b), c) => Listed(s, c)
<1>1. CASE ~Listed(s, b)
  BY <1>1 DEF Without, Listed
<1>2. CASE Listed(s, b)
  <2> DEFINE k == CHOOSE i \in DOMAIN s : s[i] = b
             r == [i \in 1..(Len(s) - 1) |-> IF i < k THEN s[i] ELSE s[i+1]]
  <2>1. k \in 1..Len(s) /\ DOMAIN s = 1..Len(s) /\ Len(s) \in Nat
    BY <1>2 DEF Listed
  <2>2. Without(s, b) = r
    BY <1>2 DEF Without, Listed
  <2> HIDE DEF k
  <2>3. \A i \in 1..(Len(s) - 1) : r[i] \in Bufs /\ \E j \in DOMAIN s : r[i] = s[j]
    BY <2>1
  <2>4. r \in Seq(Bufs)
    <3>1. Len(s) - 1 \in Nat
      BY <2>1
    <3>. QED  BY <2>3, <3>1
  <2>. QED  BY <2>2, <2>3, <2>4 DEF Listed
<1>. QED  BY <1>1, <1>2

LEMMA WithoutOnce ==
  ASSUME NEW s \in Seq(Bufs), NEW b, Once(s)
  PROVE  /\ Once(Without(s, b))
         /\ \A c : Listed(Without(s, b), c) <=> Listed(s, c) /\ c # b
<1>1. CASE ~Listed(s, b)
  BY <1>1 DEF Without, Listed
<1>2. CASE Listed(s, b)
  <2> DEFINE k == CHOOSE i \in DOMAIN s : s[i] = b
             r == [i \in 1..(Len(s) - 1) |-> IF i < k THEN s[i] ELSE s[i+1]]
  <2>1. /\ k \in 1..Len(s) /\ s[k] = b
        /\ DOMAIN s = 1..Len(s) /\ Len(s) \in Nat
    BY <1>2 DEF Listed
  <2>2. Without(s, b) = r
    BY <1>2 DEF Without, Listed
  <2> HIDE DEF k
  <2>3. \A i \in DOMAIN s : i # k => s[i] # b
    BY <2>1 DEF Once
  <2>4. Once(r)
    BY <2>1 DEF Once
  <2>5. ASSUME NEW c, Listed(r, c) PROVE Listed(s, c) /\ c # b
    BY <2>1, <2>3, <2>5 DEF Listed
  <2>6. ASSUME NEW c, Listed(s, c), c # b PROVE Listed(r, c)
    <3>1. PICK i \in 1..Len(s) : s[i] = c
      BY <2>1, <2>6 DEF Listed
    <3>2. CASE i < k
      <4>1. i \in 1..(Len(s) - 1) /\ r[i] = c
        BY <2>1, <3>1, <3>2
      <4>. QED  BY <4>1 DEF Listed
    <3>3. CASE i > k
      <4>1. i - 1 \in 1..(Len(s) - 1) /\ r[i - 1] = c
        BY <2>1, <3>1, <3>3
      <4>. QED  BY <4>1 DEF Listed
    <3>. QED  BY <2>1, <2>6, <3>1, <3>2, <3>3
  <2>. QED  BY <2>2, <2>4, <2>5, <2>6
<1>. QED  BY <1>1, <1>2

(* A buffer that is added at the end or at the head. *)
LEMMA Added ==
  ASSUME NEW s \in Seq(Bufs), NEW b \in Bufs, NEW t, t = Append(s, b) \/ t = <<b>> \o s
  PROVE  /\ t \in Seq(Bufs)
         /\ \A c : Listed(t, c) <=> Listed(s, c) \/ c = b
         /\ Once(s) /\ ~Listed(s, b) => Once(t)
<1>1. CASE t = Append(s, b)
  <2>1. /\ t \in Seq(Bufs) /\ Len(s) \in Nat /\ Len(t) = Len(s) + 1
        /\ DOMAIN t = 1..(Len(s) + 1) /\ DOMAIN s = 1..Len(s)
        /\ t[Len(s) + 1] = b /\ \A i \in 1..Len(s) : t[i] = s[i]
    BY <1>1
  <2>2. ASSUME NEW c PROVE Listed(t, c) <=> Listed(s, c) \/ c = b
    BY <2>1 DEF Listed
  <2>3. Once(s) /\ ~Listed(s, b) => Once(t)
    BY <2>1 DEF Once, Listed
  <2>. QED  BY <2>1, <2>2, <2>3
<1>2. CASE t = <<b>> \o s
  <2>1. /\ t \in Seq(Bufs) /\ Len(s) \in Nat /\ Len(t) = Len(s) + 1
        /\ DOMAIN t = 1..(Len(s) + 1) /\ DOMAIN s = 1..Len(s)
        /\ t[1] = b /\ \A i \in 2..(Len(s) + 1) : t[i] = s[i - 1]
    BY <1>2
  <2>2. ASSUME NEW c PROVE Listed(t, c) <=> Listed(s, c) \/ c = b
    <3>1. ASSUME Listed(s, c) PROVE Listed(t, c)
      <4>1. PICK i \in 1..Len(s) : s[i] = c
        BY <2>1, <3>1 DEF Listed
      <4>2. i + 1 \in DOMAIN t /\ t[i + 1] = c
        BY <2>1, <4>1
      <4>. QED  BY <4>2 DEF Listed
    <3>2. Listed(t, b)
      BY <2>1 DEF Listed
    <3>3. ASSUME Listed(t, c), c # b PROVE Listed(s, c)
      <4>1. PICK i \in 1..(Len(s) + 1) : t[i] = c
        BY <2>1, <3>3 DEF Listed
      <4>2. i - 1 \in DOMAIN s /\ s[i - 1] = c
        BY <2>1, <3>3, <4>1
      <4>. QED  BY <4>2 DEF Listed
    <3>. QED  BY <3>1, <3>2, <3>3
  <2>3. ASSUME Once(s), ~Listed(s, b) PROVE Once(t)
    <3> SUFFICES ASSUME NEW i \in DOMAIN t, NEW j \in DOMAIN t, t[i] = t[j] PROVE i = j
      BY DEF Once
    <3>1. CASE i = 1 \/ j = 1
      <4>1. \A n \in DOMAIN t : n # 1 => n - 1 \in DOMAIN s /\ t[n] = s[n - 1]
        BY <2>1
      <4>2. \A n \in DOMAIN t : n # 1 => t[n] # b
        BY <2>3, <4>1 DEF Listed
      <4>. QED  BY <2>1, <3>1, <4>2
    <3>2. CASE i # 1 /\ j # 1
      <4>1. /\ i - 1 \in DOMAIN s /\ j - 1 \in DOMAIN s
            /\ s[i - 1] = s[j - 1]
        BY <2>1, <3>2
      <4>. QED  BY <2>1, <2>3, <4>1 DEF Once
    <3>. QED  BY <3>1, <3>2
  <2>. QED  BY <2>1, <2>2, <2>3
<1>. QED  BY <1>1, <1>2

-----------------------------------------------------------------------------
(* Types and stacks.                                                       *)

LEMMA PushPop ==
  ASSUME NEW S, NEW a \in S, NEW t \in Seq(S)
  PROVE  /\ <<a>> \o t \in Seq(S) /\ <<a>> \o t # <<>>
         /\ Head(<<a>> \o t) = a /\ Tail(<<a>> \o t) = t
<1>1. /\ <<a>> \o t \in Seq(S) /\ Len(<<a>> \o t) = Len(t) + 1 /\ Len(t) \in Nat
      /\ (<<a>> \o t)[1] = a /\ \A i \in 1..Len(t) : (<<a>> \o t)[i + 1] = t[i]
  OBVIOUS
<1>2. Tail(<<a>> \o t) \in Seq(S) /\ Len(Tail(<<a>> \o t)) = Len(t)
  BY <1>1
<1>3. \A i \in 1..Len(t) : Tail(<<a>> \o t)[i] = t[i]
  BY <1>1, <1>2
<1>4. Tail(<<a>> \o t) = t
  BY <1>2, <1>3
<1>. QED  BY <1>1, <1>4

(* What Return() finds on the stack. *)
LEMMA Pops ==
  ASSUME NEW l \in Labels, NEW s \in Seq(Labels), NEW w, NEW x, FrameAt(l, s, w, x),
         l # "user"
  PROVE  /\ Head(s) \in Labels /\ Tail(s) \in Seq(Labels)
         /\ l \in OneDeep => Head(s) = "user" /\ Tail(s) = <<>>
         /\ l \in InGetblk => Head(s) \in Callers \cup {"user"} /\ PlainStack(Head(s), Tail(s))
         /\ l \in {"setage", "release"} =>
              /\ Head(s) \in Nexts /\ PlainStack(Head(s), Tail(s))
              /\ Head(s) # "user" => w \in Asked
         /\ l = "biowait" =>
              \/ Head(s) = "user" /\ Tail(s) = <<>> /\ w \in Asked
              \/ Head(s) = "release" /\ WriteStack(Tail(s), w)
         /\ l \notin {"setage", "release", "biowait"} => w \in Asked
<1>1. Head(<<"user">>) = "user" /\ Tail(<<"user">>) = <<>> /\ <<"user">> \in Seq(Labels)
  BY DEF Labels
<1>2. CASE PlainStack(l, s) /\ w \in Asked
  <2>1. CASE s = <<"user">>
    <3>1. Head(s) = "user" /\ Tail(s) = <<>> /\ <<>> \in Seq(Labels) /\ "user" \in Labels
      BY <1>1, <2>1 DEF Labels
    <3>2. PlainStack(Head(s), Tail(s))
      BY <3>1 DEF PlainStack
    <3>3. l \notin {"setage", "release", "biowait"}
      BY <1>2 DEF PlainStack, OneDeep, InGetblk
    <3>. QED  BY <1>2, <3>1, <3>2, <3>3
  <2>2. ASSUME l \in InGetblk, NEW c \in Callers, s = <<c>> \o <<"user">>
        PROVE  Head(s) = c /\ Tail(s) = <<"user">>
    <3>1. c \in Labels
      BY DEF Callers, Labels
    <3>2. Head(<<c>> \o <<"user">>) = c /\ Tail(<<c>> \o <<"user">>) = <<"user">>
      <4>1. <<"user">> \in Seq(Labels)
        BY <1>1
      <4>. QED  BY <3>1, <4>1, PushPop, Zenon
    <3>. QED  BY <2>2, <3>2
  <2>3. CASE l \in InGetblk /\ s # <<"user">>
    <3>1. PICK c \in Callers : s = <<c>> \o <<"user">>
      BY <1>2, <2>3 DEF PlainStack, InGetblk, OneDeep
    <3>2. Head(s) = c /\ Tail(s) = <<"user">>
      BY <2>2, <2>3, <3>1
    <3>. QED  BY <1>1, <1>2, <2>3, <3>2 DEF PlainStack, OneDeep, InGetblk, Callers, Labels
  <2>. QED  BY <1>2, <2>1, <2>3 DEF PlainStack
<1>3. CASE l = "biowait" /\ s = <<"user">> /\ w \in Asked
  BY <1>1, <1>3 DEF OneDeep, InGetblk, Labels
<1>4. CASE l \in {"setage", "release"} /\ WriteStack(s, w)
  <2>1. PICK n \in Nexts, t \in Seq(Labels) :
          s = <<n>> \o t /\ PlainStack(n, t) /\ (n # "user" => w \in Asked)
    BY <1>4 DEF WriteStack
  <2>2. n \in Labels
    BY DEF Nexts, Labels
  <2>3. Head(s) = n /\ Tail(s) = t
    BY <2>1, <2>2, PushPop
  <2>. QED  BY <1>4, <2>1, <2>2, <2>3 DEF OneDeep, InGetblk
<1>5. CASE l = "biowait" /\ \E t \in Seq(Labels) : s = <<"release">> \o t /\ WriteStack(t, w)
  <2>1. PICK t \in Seq(Labels) : s = <<"release">> \o t /\ WriteStack(t, w)
    BY <1>5
  <2>2. "release" \in Labels
    BY DEF Labels
  <2>3. Head(s) = "release" /\ Tail(s) = t
    BY <2>1, <2>2, PushPop
  <2>. QED  BY <1>5, <2>1, <2>2, <2>3 DEF OneDeep, InGetblk
<1>. QED  BY <1>2, <1>3, <1>4, <1>5 DEF FrameAt

Lists == (Vnodes \X Kinds) \cup {None}
Chans == Bufs \cup Vnodes \cup {FreeChan, None}

BufTypes ==
  /\ b_flags \in [Bufs -> SUBSET Flags] /\ b_vp \in [Bufs -> Vnodes \cup {None}]
  /\ b_lblkno \in [Bufs -> Blks \cup {None}] /\ b_bcount \in [Bufs -> Sizes \cup {None}]
  /\ b_list \in [Bufs -> Lists] /\ bfreelist \in [Queues -> Seq(Bufs)]
  /\ freewanted \in BOOLEAN

DiskTypes ==
  /\ v_numoutput \in [Vnodes -> Int] /\ vbwait \in [Vnodes -> BOOLEAN] /\ tapes \subseteq Tapes
  /\ io \subseteq Bufs /\ b_fresh \in [Bufs -> BOOLEAN] /\ d_fresh \in [Blocks -> BOOLEAN]
  /\ wchan \in [Procs -> Chans] /\ panicked \in BOOLEAN

ProcTypes ==
  /\ cpu \in Procs \cup {None} /\ pc \in [Procs -> Labels] /\ stack \in [Procs -> Seq(Labels)]
  /\ want \in [Procs -> Request \cup {None}] /\ bp \in [Procs -> Bufs \cup {None}]

WalkTypes ==
  /\ hold \in [Procs -> Bufs \cup {None}] /\ todo \in [Procs -> SUBSET Bufs]
  /\ err \in [Procs -> BOOLEAN]

LEMMA TypeParts == TypeOK <=> BufTypes /\ DiskTypes /\ ProcTypes /\ WalkTypes
  BY DEF TypeOK, BufTypes, DiskTypes, ProcTypes, WalkTypes, Lists, Chans

(* A step of p changes only p's own place and pointers. *)
Local(p) ==
  \A q \in Procs \ {p} : /\ pc'[q] = pc[q] /\ stack'[q] = stack[q] /\ want'[q] = want[q]
                         /\ bp'[q] = bp[q] /\ hold'[q] = hold[q]

LEMMA ControlStep ==
  ASSUME ControlInv, NEW p \in Procs, Local(p), Frame(p)', ListsAgree', DirtyHome',
         BufTypes', DiskTypes', ProcTypes', WalkTypes'
  PROVE  ControlInv'
<1>1. TypeOK'
  BY TypeParts DEF TypeOK, BufTypes, DiskTypes, ProcTypes, WalkTypes, Lists, Chans
<1>2. \A q \in Procs \ {p} : Frame(q)'
  BY DEF ControlInv, Control, Local, Frame
<1>. QED  BY <1>1, <1>2 DEF ControlInv, Control

(* brelse(). *)
LEMMA FreeTypes ==
  ASSUME TypeOK, NEW free \in [Queues -> Seq(Bufs)], NEW l \in Lists, NEW b \in Bufs,
         NEW fl \in SUBSET Flags, NEW C, Free(free, l, b, fl, C)
  PROVE  BufTypes' /\ wchan' \in [Procs -> Chans]
<1>1. b_flags' \in [Bufs -> SUBSET Flags]
  BY DEF Free, TypeOK, Flags
<1>2. wchan' \in [Procs -> Chans]
  BY DEF Free, Wakeup, TypeOK, Chans
<1>3. bfreelist' \in [Queues -> Seq(Bufs)]
  <2>1. PICK q \in Queues : \/ bfreelist' = [free EXCEPT ![q] = Append(@, b)]
                            \/ bfreelist' = [free EXCEPT ![q] = <<b>> \o @]
    BY DEF Free, Queues
  <2>2. Append(free[q], b) \in Seq(Bufs) /\ <<b>> \o free[q] \in Seq(Bufs)
    OBVIOUS
  <2>. QED  BY <2>1, <2>2
<1>4. b_vp' \in [Bufs -> Vnodes \cup {None}] /\ b_list' \in [Bufs -> Lists]
  BY DEF Free, TypeOK, Lists
<1>. QED  BY <1>1, <1>2, <1>3, <1>4 DEF Free, BufTypes, TypeOK, Lists

LEMMA FreeWithoutType ==
  ASSUME TypeOK, NEW b \in Bufs PROVE FreeWithout(b) \in [Queues -> Seq(Bufs)]
  BY WithoutSeq DEF FreeWithout, TypeOK

(* bwrite(). *)
LEMMA WriteTypes ==
  ASSUME TypeOK, NEW b \in Bufs, NEW fl \in SUBSET Flags, bwrite(b, fl),
         bfreelist' \in [Queues -> Seq(Bufs)], wchan' \in [Procs -> Chans], UNCHANGED panicked,
         b_fresh' \in [Bufs -> BOOLEAN], d_fresh' \in [Blocks -> BOOLEAN],
         b_vp[b] # None
  PROVE  BufTypes' /\ DiskTypes'
<1>1. AfterWrite(b, fl) \in Lists
  BY DEF AfterWrite, TypeOK, Lists, Kinds
<1>2. b_list' \in [Bufs -> Lists]
  BY <1>1 DEF bwrite, StartWrite, TypeOK, Lists
<1>3. b_flags' \in [Bufs -> SUBSET Flags]
  BY DEF bwrite, StartWrite, TypeOK
<1>4. v_numoutput' \in [Vnodes -> Int] /\ io' \subseteq Bufs
  BY DEF bwrite, StartWrite, TypeOK
<1>. QED  BY <1>2, <1>3, <1>4 DEF bwrite, StartWrite, TypeOK, BufTypes, DiskTypes

(* Where bwrite() goes on, with request w and buffer x. *)
LEMMA WriteFrame ==
  ASSUME ControlInv, NEW p \in Procs, NEW fl, NEW next \in Nexts, NEW w, NEW x,
         AfterStrategy(p, fl, next), PlainStack(next, stack[p]), next # "user" => w \in Asked,
         "ASYNC" \in fl /\ "DELWRI" \notin fl => \/ next = "user" /\ x = None
                                                 \/ next = "getblk",
         ~("ASYNC" \in fl /\ "DELWRI" \notin fl) => x # None
  PROVE  /\ cpu' \in Procs \cup {None} /\ pc' \in [Procs -> Labels]
         /\ stack' \in [Procs -> Seq(Labels)]
         /\ \A q \in Procs \ {p} : pc'[q] = pc[q] /\ stack'[q] = stack[q]
         /\ FrameAt(pc'[p], stack'[p], w, x) /\ PointerAt(pc'[p], x)
<1>1. /\ pc \in [Procs -> Labels] /\ stack \in [Procs -> Seq(Labels)] /\ next \in Labels
      /\ stack[p] \in Seq(Labels)
  BY DEF ControlInv, TypeOK, Nexts, Labels
<1>2. <<next>> \o stack[p] \in Seq(Labels) /\ WriteStack(<<next>> \o stack[p], w)
  BY <1>1, PushPop DEF WriteStack
<1>3. CASE "ASYNC" \notin fl
  <2>1. /\ pc' = [pc EXCEPT ![p] = "biowait"] /\ cpu' = p
        /\ stack' = [stack EXCEPT ![p] = <<"release", next>> \o @]
    BY <1>3 DEF AfterStrategy, Goto
  <2>2. <<"release", next>> \o stack[p] = <<"release">> \o (<<next>> \o stack[p])
    BY <1>1
  <2>3. <<"release">> \o (<<next>> \o stack[p]) \in Seq(Labels)
    BY <1>2, PushPop DEF Labels
  <2>4. pc'[p] = "biowait" /\ stack'[p] = <<"release">> \o (<<next>> \o stack[p])
    BY <1>1, <2>1, <2>2
  <2>5. FrameAt(pc'[p], stack'[p], w, x)
    BY <1>2, <2>4 DEF FrameAt
  <2>6. pc' \in [Procs -> Labels] /\ stack' \in [Procs -> Seq(Labels)]
    BY <1>1, <2>1, <2>2, <2>3 DEF Labels
  <2>. QED  BY <1>1, <1>3, <2>1, <2>4, <2>5, <2>6 DEF PointerAt, Pointless
<1>4. CASE "ASYNC" \in fl /\ "DELWRI" \in fl
  <2>1. /\ pc' = [pc EXCEPT ![p] = "setage"] /\ cpu' = p
        /\ stack' = [stack EXCEPT ![p] = <<next>> \o @]
    BY <1>4 DEF AfterStrategy, Call, Goto
  <2>2. pc'[p] = "setage" /\ stack'[p] = <<next>> \o stack[p]
    BY <1>1, <2>1
  <2>3. FrameAt(pc'[p], stack'[p], w, x)
    BY <1>2, <2>2 DEF FrameAt
  <2>4. pc' \in [Procs -> Labels] /\ stack' \in [Procs -> Seq(Labels)]
    BY <1>1, <1>2, <2>1 DEF Labels
  <2>. QED  BY <1>1, <1>4, <2>1, <2>2, <2>3, <2>4 DEF PointerAt, Pointless
<1>5. CASE "ASYNC" \in fl /\ "DELWRI" \notin fl
  <2>1. /\ pc' = [pc EXCEPT ![p] = next] /\ cpu' \in {p, None} /\ UNCHANGED stack
    BY <1>5 DEF AfterStrategy
  <2>2. pc'[p] = next /\ stack'[p] = stack[p]
    BY <1>1, <2>1
  <2>3. FrameAt(pc'[p], stack'[p], w, x)
    BY <1>5, <2>2 DEF FrameAt
  <2>. QED  BY <1>1, <1>5, <2>1, <2>2, <2>3 DEF PointerAt, Pointless, Pointing, Labels
<1>. QED  BY <1>3, <1>4, <1>5

LEMMA AtLabel ==
  ASSUME ControlInv, NEW p \in Procs
  PROVE  /\ pc[p] \in Labels /\ stack[p] \in Seq(Labels)
         /\ FrameAt(pc[p], stack[p], want[p], bp[p]) /\ PointerAt(pc[p], bp[p])
  BY DEF ControlInv, Control, Frame, TypeOK

LEMMA ReturnFrame ==
  ASSUME ControlInv, NEW p \in Procs, pc[p] # "user", Return(p)
  PROVE  /\ cpu' \in Procs \cup {None} /\ pc' \in [Procs -> Labels]
         /\ stack' \in [Procs -> Seq(Labels)]
         /\ \A q \in Procs \ {p} : pc'[q] = pc[q] /\ stack'[q] = stack[q]
         /\ pc'[p] = Head(stack[p]) /\ stack'[p] = Tail(stack[p])
<1>1. Head(stack[p]) \in Labels /\ Tail(stack[p]) \in Seq(Labels)
  BY AtLabel, Pops
<1>. QED  BY <1>1 DEF Return, ControlInv, TypeOK

LEMMA ReturnsToUser ==
  ASSUME ControlInv, NEW p \in Procs, pc[p] \in OneDeep, Return(p)
  PROVE  pc'[p] = "user" /\ stack'[p] = <<>>
<1>1. Head(stack[p]) = "user" /\ Tail(stack[p]) = <<>>
  BY AtLabel, Pops DEF OneDeep
<1>. QED  BY <1>1, ReturnFrame DEF OneDeep

(* The buffer's list and flags agree after brelse(), bwrite(), and where   *)
(* they are not touched.                                                   *)
LEMMA FreeAgrees ==
  ASSUME ControlInv, NEW free, NEW l \in Lists, NEW b \in Bufs, NEW fl \in SUBSET Flags, NEW C,
         Free(free, l, b, fl, C), b_vp[b] = None <=> l = None,
         l # None => ("DELWRI" \in fl <=> l[2] = "dirty"),
         "DELWRI" \in fl => b_vp[b] # None
  PROVE  ListsAgree' /\ DirtyHome'
<1> DEFINE bad == fl \cap {"ERROR", "INVAL"} # {}
<1>1. \A c \in Bufs \ {b} : /\ b_flags'[c] = b_flags[c] /\ b_vp'[c] = b_vp[c]
                            /\ b_list'[c] = b_list[c]
  BY DEF Free, ControlInv, TypeOK
<1>2. /\ "DELWRI" \in b_flags'[b] <=> "DELWRI" \in fl /\ ~bad
      /\ b_vp'[b] = IF bad THEN None ELSE b_vp[b]
      /\ b_list'[b] = IF bad THEN None ELSE l
  BY DEF Free, ControlInv, TypeOK
<1>. QED  BY <1>1, <1>2 DEF ListsAgree, DirtyHome, Has, ControlInv

LEMMA WriteAgrees ==
  ASSUME ControlInv, NEW b \in Bufs, NEW fl \in SUBSET Flags, bwrite(b, fl),
         b_flags[b] \subseteq fl, "DELWRI" \in fl => b_vp[b] # None
  PROVE  ListsAgree' /\ DirtyHome'
<1>1. \A c \in Bufs \ {b} : b_flags'[c] = b_flags[c] /\ b_list'[c] = b_list[c]
  BY DEF bwrite, StartWrite, ControlInv, TypeOK
<1>2. /\ "DELWRI" \notin b_flags'[b] /\ b_list'[b] = AfterWrite(b, fl) /\ UNCHANGED b_vp
  BY DEF bwrite, StartWrite, ControlInv, TypeOK
<1>3. /\ b_vp[b] = None <=> b_list'[b] = None
      /\ b_list'[b] # None => b_list'[b][2] # "dirty"
  <2>1. CASE "DELWRI" \in fl
    <3>1. b_list'[b] = <<b_vp[b], "clean">> /\ b_vp[b] \in Vnodes
      BY <1>2, <2>1 DEF AfterWrite, ControlInv, TypeOK
    <3>2. b_list'[b] # None
      BY <3>1, BufCacheAssumption DEF BufCacheAssumption, Kinds
    <3>. QED  BY <2>1, <3>1, <3>2
  <2>2. CASE "DELWRI" \notin fl
    BY <1>2, <2>2 DEF AfterWrite, ControlInv, ListsAgree, Has
  <2>. QED  BY <2>1, <2>2
<1>. QED  BY <1>1, <1>2, <1>3 DEF ListsAgree, DirtyHome, Has, ControlInv

LEMMA KeepsAgreeing ==
  ASSUME ControlInv, UNCHANGED <<b_vp, b_list>>,
         \A b \in Bufs : "DELWRI" \in b_flags'[b] <=> "DELWRI" \in b_flags[b]
  PROVE  ListsAgree' /\ DirtyHome'
  BY DEF ListsAgree, DirtyHome, Has, ControlInv

(* A step that leaves the buffers, the vnodes and the disk alone. *)
LEMMA ControlLocal ==
  ASSUME ControlInv, NEW p \in Procs, UNCHANGED <<bufvars, vnvars, io, datavars, panicked>>,
         wchan' \in [Procs -> Chans], ProcTypes', WalkTypes', Local(p), Frame(p)'
  PROVE  ControlInv'
<1>1. BufTypes' /\ DiskTypes'
  BY TypeParts
     DEF ControlInv, BufTypes, DiskTypes, bufvars, vnvars, datavars
<1>2. ListsAgree' /\ DirtyHome'
  BY KeepsAgreeing DEF bufvars
<1>. QED  BY <1>1, <1>2, ControlStep

LEMMA ControlSearch ==
  ASSUME ControlInv, NEW p \in Procs, GetblkSearch(p)
  PROVE  ControlInv'
<1>1. /\ pc[p] = "getblk" /\ UNCHANGED <<bufvars, vnvars, io, datavars, panicked>>
      /\ UNCHANGED <<wchan, stack, want, hold, todo, err>> /\ cpu' = p
  BY DEF GetblkSearch, At, Goto
<1>2. \/ /\ pc' = [pc EXCEPT ![p] = "found"]
         /\ \E b \in Bufs : bp' = [bp EXCEPT ![p] = b]
      \/ pc' = [pc EXCEPT ![p] = "getnewbuf"] /\ UNCHANGED bp
  BY DEF GetblkSearch, Goto, Cached
<1>3. /\ ProcTypes' /\ Local(p) /\ pc'[p] \in {"found", "getnewbuf"}
      /\ pc'[p] = "found" => bp'[p] \in Bufs
  <2>1. /\ pc \in [Procs -> Labels] /\ bp \in [Procs -> Bufs \cup {None}]
        /\ {"found", "getnewbuf"} \subseteq Labels
    BY DEF ControlInv, TypeOK, Labels
  <2>2. /\ pc' \in [Procs -> Labels] /\ bp' \in [Procs -> Bufs \cup {None}]
        /\ pc'[p] \in {"found", "getnewbuf"} /\ (pc'[p] = "found" => bp'[p] \in Bufs)
        /\ \A q \in Procs \ {p} : pc'[q] = pc[q] /\ bp'[q] = bp[q]
    BY <1>2, <2>1
  <2>. QED  BY <1>1, <2>2 DEF ControlInv, TypeOK, ProcTypes, Local
<1>4. WalkTypes' /\ wchan' \in [Procs -> Chans]
  BY <1>1 DEF ControlInv, TypeOK, WalkTypes, Chans
<1>5. PlainStack("getblk", stack[p]) /\ want[p] \in Asked
  BY <1>1, AtLabel DEF FrameAt, PlainStack, OneDeep
<1>6. PlainStack(pc'[p], stack'[p])
  BY <1>1, <1>3, <1>5 DEF PlainStack, InGetblk, OneDeep
<1>7. Frame(p)'
  BY <1>1, <1>3, <1>5, <1>6, AtLabel, BufCacheAssumption
     DEF Frame, FrameAt, PointerAt, Pointing, Pointless, BufCacheAssumption
<1>. QED  BY <1>1, <1>3, <1>4, <1>7, ControlLocal

(* The steps of breada() between its calls of getblk(). *)
LEMMA ControlBreada ==
  ASSUME ControlInv, NEW p \in Procs, Breada(p) \/ BreadaAhead(p) \/ BreadaEnd(p)
  PROVE  ControlInv'
<1>1. /\ pc[p] \in {"breada", "breada_ra", "breada_end"} /\ bp[p] = None
      /\ UNCHANGED <<bufvars, vnvars, io, datavars, panicked>>
      /\ UNCHANGED <<wchan, todo, err>> /\ cpu' = p
  BY AtLabel DEF Breada, BreadaAhead, BreadaEnd, At, Goto, Call, PointerAt, Pointless
<1>2. stack[p] = <<"user">> /\ want[p] \in Asked
  BY <1>1, AtLabel DEF FrameAt, PlainStack, OneDeep, InGetblk
<1>3. \/ /\ pc' = [pc EXCEPT ![p] = "breada_ra"] /\ UNCHANGED <<stack, bp, hold, want>>
      \/ /\ pc' = [pc EXCEPT ![p] = "breada_end"] /\ UNCHANGED <<stack, bp, hold>> /\ Swap(p)
      \/ /\ pc' = [pc EXCEPT ![p] = "biowait"] /\ UNCHANGED <<stack>> /\ Swap(p)
         /\ hold[p] # None
         /\ bp' = [bp EXCEPT ![p] = hold[p]] /\ hold' = [hold EXCEPT ![p] = None]
      \/ /\ pc' = [pc EXCEPT ![p] = "getblk"] /\ (UNCHANGED want \/ Swap(p))
         /\ \E c \in Callers : stack' = [stack EXCEPT ![p] = <<c>> \o @]
         /\ \/ UNCHANGED <<bp, hold>>
            \/ bp' = [bp EXCEPT ![p] = hold[p]] /\ hold' = [hold EXCEPT ![p] = None]
  BY DEF Breada, BreadaAhead, BreadaEnd, Goto, Call, Callers
<1>4. /\ want' \in [Procs -> Request \cup {None}] /\ want'[p] \in Asked
      /\ \A q \in Procs \ {p} : want'[q] = want[q]
  <2>1. CASE UNCHANGED want
    BY <1>2, <2>1 DEF ControlInv, TypeOK
  <2>2. CASE Swap(p)
    <3>1. /\ want'[p] = [want[p] EXCEPT !.blk = want[p].ra, !.ra = want[p].blk]
          /\ \A q \in Procs \ {p} : want'[q] = want[q]
      BY <1>2, <2>2 DEF Swap, Asked, ControlInv, TypeOK
    <3>2. want'[p] \in Asked /\ want'[p] \in Request
      BY <1>2, <3>1 DEF Asked, Request
    <3>. QED  BY <2>2, <3>1, <3>2 DEF Swap, ControlInv, TypeOK
  <2>. QED  BY <1>3, <2>1, <2>2
<1>5. /\ pc \in [Procs -> Labels] /\ stack \in [Procs -> Seq(Labels)]
      /\ bp \in [Procs -> Bufs \cup {None}] /\ hold \in [Procs -> Bufs \cup {None}]
      /\ {"breada_ra", "breada_end", "biowait", "getblk"} \subseteq Labels
      /\ \A c \in Callers : <<c>> \o stack[p] \in Seq(Labels)
  <2>1. Callers \subseteq Labels /\ stack[p] \in Seq(Labels)
    BY AtLabel DEF Callers, Labels
  <2>. QED  BY <2>1, PushPop DEF ControlInv, TypeOK, Labels
<1>6. /\ pc' \in [Procs -> Labels] /\ stack' \in [Procs -> Seq(Labels)]
      /\ bp' \in [Procs -> Bufs \cup {None}] /\ hold' \in [Procs -> Bufs \cup {None}]
      /\ \A q \in Procs \ {p} : /\ pc'[q] = pc[q] /\ stack'[q] = stack[q] /\ bp'[q] = bp[q]
                                /\ hold'[q] = hold[q]
  <2>1. PICK l \in {"breada_ra", "breada_end", "biowait", "getblk"} :
          pc' = [pc EXCEPT ![p] = l]
    BY <1>3
  <2>2. UNCHANGED stack \/ \E c \in Callers : stack' = [stack EXCEPT ![p] = <<c>> \o @]
    BY <1>3
  <2>3. stack' \in [Procs -> Seq(Labels)] /\ \A q \in Procs \ {p} : stack'[q] = stack[q]
    BY <1>5, <2>2
  <2>4. \/ UNCHANGED <<bp, hold>>
        \/ bp' = [bp EXCEPT ![p] = hold[p]] /\ hold' = [hold EXCEPT ![p] = None]
    BY <1>3
  <2>5. /\ bp' \in [Procs -> Bufs \cup {None}] /\ hold' \in [Procs -> Bufs \cup {None}]
        /\ \A q \in Procs \ {p} : bp'[q] = bp[q] /\ hold'[q] = hold[q]
    BY <1>5, <2>4
  <2>. QED  BY <1>5, <2>1, <2>3, <2>5
<1>7. \/ pc'[p] \in {"breada_ra", "breada_end"} /\ stack'[p] = <<"user">> /\ bp'[p] = None
      \/ pc'[p] = "biowait" /\ stack'[p] = <<"user">> /\ bp'[p] # None
      \/ pc'[p] = "getblk" /\ \E c \in Callers : stack'[p] = <<c>> \o <<"user">>
  <2>1. CASE UNCHANGED stack
    <3>1. stack'[p] = <<"user">>
      BY <1>2, <2>1
    <3>2. \/ \E l \in {"breada_ra", "breada_end"} : pc' = [pc EXCEPT ![p] = l] /\ UNCHANGED bp
          \/ /\ pc' = [pc EXCEPT ![p] = "biowait"] /\ hold[p] # None
             /\ bp' = [bp EXCEPT ![p] = hold[p]]
          \/ \E c \in Callers : stack' = [stack EXCEPT ![p] = <<c>> \o @]
      BY <1>3
    <3>3. ASSUME NEW c \in Callers PROVE stack' # [stack EXCEPT ![p] = <<c>> \o @]
      <4>1. c \in Labels /\ <<"user">> \in Seq(Labels)
        BY DEF Callers, Labels
      <4>2. Len(<<c>> \o <<"user">>) = 2 /\ Len(<<"user">>) = 1
        BY <4>1
      <4>. QED  BY <1>2, <1>5, <2>1, <4>2
    <3>. QED  BY <1>1, <1>5, <3>1, <3>2, <3>3
  <2>2. ASSUME NEW c \in Callers, stack' = [stack EXCEPT ![p] = <<c>> \o @],
               pc' = [pc EXCEPT ![p] = "getblk"]
        PROVE  pc'[p] = "getblk" /\ stack'[p] = <<c>> \o <<"user">>
    BY <1>2, <1>5, <2>2
  <2>. QED  BY <1>3, <2>1, <2>2
<1>8. Frame(p)'
  BY <1>4, <1>7
     DEF Frame, FrameAt, PlainStack, OneDeep, InGetblk, PointerAt, Pointing, Pointless
<1>9. /\ ProcTypes' /\ WalkTypes' /\ Local(p) /\ wchan' \in [Procs -> Chans]
  BY <1>1, <1>4, <1>6 DEF ControlInv, TypeOK, ProcTypes, WalkTypes, Local, Chans
<1>. QED  BY <1>1, <1>8, <1>9, ControlLocal

LEMMA ControlBiowait ==
  ASSUME ControlInv, NEW p \in Procs, BiowaitDone(p) \/ BiowaitSleep(p)
  PROVE  ControlInv'
<1>1. /\ pc[p] = "biowait" /\ UNCHANGED <<bufvars, vnvars, io, datavars, panicked>>
      /\ UNCHANGED <<want, bp, hold, todo>>
  BY DEF BiowaitDone, BiowaitSleep, At, locals
<1>2. bp[p] \in Bufs
  BY <1>1, AtLabel DEF PointerAt, Pointing, ControlInv, TypeOK
<1>3. CASE BiowaitDone(p)
  <2>1. /\ Return(p) /\ err' = [err EXCEPT ![p] = Has(bp[p], "ERROR")] /\ UNCHANGED wchan
    BY <1>3 DEF BiowaitDone
  <2>2. err' \in [Procs -> BOOLEAN]
    BY <2>1 DEF Has, ControlInv, TypeOK
  <2>3. Frame(p)'
    <3>1. pc'[p] = Head(stack[p]) /\ stack'[p] = Tail(stack[p])
      BY <1>1, <2>1, ReturnFrame
    <3>2. \/ pc'[p] = "user" /\ stack'[p] = <<>> /\ want[p] \in Asked
          \/ pc'[p] = "release" /\ WriteStack(stack'[p], want[p])
      BY <1>1, <3>1, AtLabel, Pops
    <3>. QED  BY <1>1, <1>2, <3>2, BufCacheAssumption
              DEF Frame, FrameAt, PlainStack, PointerAt, Pointing, Pointless, BufCacheAssumption
  <2>4. ProcTypes' /\ WalkTypes' /\ Local(p) /\ wchan' \in [Procs -> Chans]
    BY <1>1, <2>1, <2>2, ReturnFrame
       DEF ControlInv, TypeOK, ProcTypes, WalkTypes, Local, Chans
  <2>. QED  BY <1>1, <2>3, <2>4, ControlLocal
<1>4. CASE BiowaitSleep(p)
  <2>1. /\ UNCHANGED <<stack, err>> /\ Sleep(p, bp[p], "biowait")
    BY <1>4 DEF BiowaitSleep, locals
  <2>2. /\ pc' \in [Procs -> Labels] /\ \A q \in Procs : pc'[q] = pc[q]
        /\ wchan' \in [Procs -> Chans] /\ cpu' = None
    BY <1>1, <1>2, <2>1 DEF Sleep, ControlInv, TypeOK, Chans, Labels
  <2>3. Frame(p)'
    BY <1>1, <2>1, <2>2, AtLabel DEF Frame
  <2>4. ProcTypes' /\ WalkTypes' /\ Local(p)
    BY <1>1, <2>1, <2>2 DEF ControlInv, TypeOK, ProcTypes, WalkTypes, Local
  <2>. QED  BY <1>1, <2>2, <2>3, <2>4, ControlLocal
<1>. QED  BY <1>3, <1>4

(* vflushbuf(). *)
LEMMA ControlVflush ==
  ASSUME ControlInv, NEW p \in Procs,
         VflushStart(p) \/ VflushSkip(p) \/ VflushScanned(p) \/ VflushDone(p)
  PROVE  ControlInv'
<1>1. /\ pc[p] \in {"vflush", "vflush_scan", "vflush_wait"} /\ bp[p] = None
      /\ UNCHANGED <<bufvars, vnvars, io, datavars, panicked>>
      /\ UNCHANGED <<wchan, bp, hold, err>>
  BY AtLabel DEF VflushStart, VflushSkip, VflushScanned, VflushDone, At, PointerAt, Pointless
<1>2. stack[p] = <<"user">> /\ want[p] \in Asked
  BY <1>1, AtLabel DEF FrameAt, PlainStack, OneDeep, InGetblk
<1>3. todo' \in [Procs -> SUBSET Bufs]
  <2>1. todo \in [Procs -> SUBSET Bufs]
    BY DEF ControlInv, TypeOK
  <2>2. UNCHANGED todo \/ \E T \in SUBSET Bufs : todo' = [todo EXCEPT ![p] = T]
    BY <2>1 DEF VflushStart, VflushSkip, VflushScanned, VflushDone, ListOf
  <2>. QED  BY <2>1, <2>2
<1>4. CASE /\ UNCHANGED <<stack, want>> /\ cpu' = p
           /\ \E l \in {"vflush_scan", "vflush_wait", "vflush"} : pc' = [pc EXCEPT ![p] = l]
  <2>1. PICK l \in {"vflush_scan", "vflush_wait", "vflush"} : pc' = [pc EXCEPT ![p] = l]
    BY <1>4
  <2>2. pc \in [Procs -> Labels] /\ l \in Labels
    BY DEF ControlInv, TypeOK, Labels
  <2>3. ProcTypes' /\ Local(p) /\ pc'[p] = l
    BY <1>1, <1>4, <2>1, <2>2 DEF ControlInv, TypeOK, ProcTypes, Local
  <2>4. Frame(p)'
    BY <1>1, <1>2, <1>4, <2>3
       DEF Frame, FrameAt, PlainStack, OneDeep, PointerAt, Pointing, Pointless
  <2>5. WalkTypes' /\ wchan' \in [Procs -> Chans]
    BY <1>1, <1>3 DEF ControlInv, TypeOK, WalkTypes, Chans
  <2>. QED  BY <1>1, <2>3, <2>4, <2>5, ControlLocal
<1>5. CASE Return(p) /\ want' = [want EXCEPT ![p] = None]
  <2>1. pc'[p] = "user" /\ stack'[p] = <<>>
    BY <1>1, <1>5, ReturnsToUser DEF OneDeep
  <2>2. Frame(p)'
    BY <1>1, <2>1 DEF Frame, FrameAt, PlainStack, PointerAt, Pointing, Pointless
  <2>3. ProcTypes' /\ WalkTypes' /\ Local(p) /\ wchan' \in [Procs -> Chans]
    BY <1>1, <1>3, <1>5, ReturnFrame
       DEF ControlInv, TypeOK, ProcTypes, WalkTypes, Local, Chans
  <2>. QED  BY <1>1, <2>2, <2>3, ControlLocal
<1>6. ASSUME VflushSkip(p)
      PROVE  cpu' = p /\ UNCHANGED <<stack, want>> /\ pc' = [pc EXCEPT ![p] = "vflush_scan"]
  BY <1>6 DEF VflushSkip, At, ControlInv, TypeOK
<1>. QED  BY <1>4, <1>5, <1>6 DEF VflushStart, VflushScanned, VflushDone, Goto

LEMMA ControlVflushSleep ==
  ASSUME ControlInv, NEW p \in Procs, VflushSleep(p)
  PROVE  ControlInv'
<1>1. /\ pc[p] = "vflush_wait" /\ UNCHANGED <<bufvars, v_numoutput, tapes, io, datavars, panicked>>
      /\ UNCHANGED <<stack, want, bp, hold, todo, err>>
      /\ vbwait' = [vbwait EXCEPT ![want[p].vp] = TRUE]
      /\ Sleep(p, want[p].vp, "vflush_wait")
  BY DEF VflushSleep, At, locals
<1>2. want[p] \in Asked
  BY <1>1, AtLabel DEF FrameAt, PlainStack, OneDeep, InGetblk
<1>3. /\ pc' \in [Procs -> Labels] /\ (\A q \in Procs : pc'[q] = pc[q])
      /\ wchan' \in [Procs -> Chans] /\ cpu' = None
  BY <1>1, <1>2 DEF Sleep, ControlInv, TypeOK, Chans, Labels, Asked, Request
<1>4. vbwait' \in [Vnodes -> BOOLEAN]
  BY <1>1 DEF ControlInv, TypeOK
<1>5. Frame(p)'
  BY <1>1, <1>3, AtLabel DEF Frame
<1>6. ProcTypes' /\ WalkTypes' /\ Local(p)
  BY <1>1, <1>3 DEF ControlInv, TypeOK, ProcTypes, WalkTypes, Local
<1>7. BufTypes' /\ DiskTypes'
  BY <1>1, <1>3, <1>4, TypeParts
     DEF ControlInv, BufTypes, DiskTypes, bufvars, datavars
<1>8. ListsAgree' /\ DirtyHome'
  BY <1>1, KeepsAgreeing DEF bufvars
<1>. QED  BY <1>5, <1>6, <1>7, <1>8, ControlStep

(* vinvalbuf(), as it looks for a buffer. *)
LEMMA ControlVinval ==
  ASSUME ControlInv, NEW p \in Procs, VinvalList(p) \/ VinvalScan(p)
  PROVE  ControlInv'
<1>1. /\ pc[p] \in {"vinval", "vinval_scan"} /\ bp[p] = None
      /\ UNCHANGED <<bufvars, vnvars, io, datavars, panicked>>
      /\ UNCHANGED <<wchan, hold, err>>
  BY AtLabel DEF VinvalList, VinvalScan, At, PointerAt, Pointless
<1>2. stack[p] = <<"user">> /\ want[p] \in Asked
  BY <1>1, AtLabel DEF FrameAt, PlainStack, OneDeep, InGetblk
<1>3. todo \in [Procs -> SUBSET Bufs] /\ pc \in [Procs -> Labels]
      /\ bp \in [Procs -> Bufs \cup {None}] /\ {"vinval_scan", "vinval_take"} \subseteq Labels
  BY DEF ControlInv, TypeOK, Labels
<1>4. todo' \in [Procs -> SUBSET Bufs]
  <2>1. UNCHANGED todo \/ \E T \in SUBSET Bufs : todo' = [todo EXCEPT ![p] = T]
    <3>1. CASE VinvalList(p)
      BY <3>1 DEF VinvalList, ListOf
    <3>2. CASE VinvalScan(p)
      <4>1. PICK b \in todo[p] :
              LET rest == IF b_list[b] = None THEN {}
                          ELSE {c \in Bufs : b_list[c] = b_list[b]} \ {b}
              IN IF rest = {} THEN todo' = [todo EXCEPT ![p] = {}]
                 ELSE \E c \in rest : todo' = [todo EXCEPT ![p] = {c}]
        BY <3>2 DEF VinvalScan
      <4>2. todo' = [todo EXCEPT ![p] = {}] \/ \E c \in Bufs : todo' = [todo EXCEPT ![p] = {c}]
        BY <4>1
      <4>. QED  BY <4>2
    <3>. QED  BY <3>1, <3>2
  <2>. QED  BY <1>3, <2>1
<1>5. WalkTypes' /\ wchan' \in [Procs -> Chans]
  BY <1>1, <1>4 DEF ControlInv, TypeOK, WalkTypes, Chans
<1>6. CASE Return(p) /\ want' = [want EXCEPT ![p] = None] /\ UNCHANGED bp
  <2>1. pc'[p] = "user" /\ stack'[p] = <<>>
    BY <1>1, <1>6, ReturnsToUser DEF OneDeep
  <2>2. Frame(p)'
    BY <1>1, <1>6, <2>1 DEF Frame, FrameAt, PlainStack, PointerAt, Pointing, Pointless
  <2>3. ProcTypes' /\ Local(p)
    BY <1>1, <1>6, ReturnFrame DEF ControlInv, TypeOK, ProcTypes, Local
  <2>. QED  BY <1>1, <1>5, <2>2, <2>3, ControlLocal
<1>7. CASE /\ UNCHANGED <<stack, want>> /\ cpu' = p
           /\ \/ pc' = [pc EXCEPT ![p] = "vinval_scan"] /\ UNCHANGED bp
              \/ /\ pc' = [pc EXCEPT ![p] = "vinval_take"]
                 /\ \E b \in Bufs : bp' = [bp EXCEPT ![p] = b]
  <2>1. /\ pc' \in [Procs -> Labels] /\ bp' \in [Procs -> Bufs \cup {None}]
        /\ \/ pc'[p] = "vinval_scan" /\ bp'[p] = None
           \/ pc'[p] = "vinval_take" /\ bp'[p] \in Bufs
        /\ \A q \in Procs \ {p} : pc'[q] = pc[q] /\ bp'[q] = bp[q]
    BY <1>1, <1>3, <1>7
  <2>2. Frame(p)'
    BY <1>2, <1>7, <2>1, BufCacheAssumption
       DEF Frame, FrameAt, PlainStack, OneDeep, PointerAt, Pointing, Pointless, BufCacheAssumption
  <2>3. ProcTypes' /\ Local(p)
    BY <1>1, <1>7, <2>1 DEF ControlInv, TypeOK, ProcTypes, Local
  <2>. QED  BY <1>1, <1>5, <2>2, <2>3, ControlLocal
<1>8. ASSUME VinvalScan(p)
      PROVE  /\ UNCHANGED <<stack, want>> /\ cpu' = p /\ pc' = [pc EXCEPT ![p] = "vinval_take"]
             /\ \E b \in Bufs : bp' = [bp EXCEPT ![p] = b]
  BY <1>3, <1>8 DEF VinvalScan, Goto
<1>. QED  BY <1>6, <1>7, <1>8 DEF VinvalList, Goto

(* The calls. *)
LEMMA ControlEnters ==
  ASSUME ControlInv, NEW p \in Procs, Enters(p)
  PROVE  ControlInv'
<1>1. /\ pc[p] = "user" /\ bp[p] = None /\ cpu' = p
      /\ UNCHANGED <<bufvars, vnvars, io, datavars, wchan, bp, hold, todo, panicked>>
      /\ err' = [err EXCEPT ![p] = FALSE]
  BY DEF Enters, CallBread, CallBaddr, CallBreada, CallGetblk, CallGeteblk, CallVflushbuf,
     CallVinvalbuf, Enter, Idle, At, Goto
<1>2. PICK w \in Asked : want' = [want EXCEPT ![p] = w]
  <2>1. PICK op \in AllOps, v \in Vnodes \cup {None}, k \in Blks \cup {None},
             ra \in Blks \cup {None}, z \in Sizes \cup {None} :
          /\ op = "geteblk" <=> v = None
          /\ want' = [want EXCEPT ![p] = Request1(op, v, k, ra, z)]
    BY BufCacheAssumption
       DEF Enters, CallBread, CallBaddr, CallBreada, CallGetblk, CallGeteblk, CallVflushbuf,
       CallVinvalbuf, Enter, AllOps, BufCacheAssumption
  <2>2. Request1(op, v, k, ra, z) \in Asked
    BY <2>1 DEF Request1, Asked, Request
  <2>. QED  BY <2>1, <2>2
<1>3. /\ <<"user">> \in Seq(Labels) /\ <<"bread", "user">> = <<"bread">> \o <<"user">>
      /\ <<"bread">> \o <<"user">> \in Seq(Labels)
  BY DEF Labels
<1>4. PICK l \in Labels, s \in Seq(Labels) :
        /\ pc' = [pc EXCEPT ![p] = l] /\ stack' = [stack EXCEPT ![p] = s]
        /\ \/ l \in {"breada", "getblk", "getnewbuf", "vflush", "vinval"} /\ s = <<"user">>
           \/ l = "getblk" /\ s = <<"bread">> \o <<"user">>
  BY <1>3 DEF Enters, CallBread, CallBaddr, CallBreada, CallGetblk, CallGeteblk, CallVflushbuf,
     CallVinvalbuf, Enter, Goto, Labels
<1>5. /\ ProcTypes' /\ Local(p) /\ pc'[p] = l /\ stack'[p] = s /\ want'[p] = w /\ bp'[p] = None
  BY <1>1, <1>2, <1>4 DEF ControlInv, TypeOK, ProcTypes, Local, Asked
<1>6. Frame(p)'
  BY <1>4, <1>5 DEF Frame, FrameAt, PlainStack, OneDeep, InGetblk, Callers, PointerAt, Pointing,
     Pointless
<1>7. WalkTypes' /\ wchan' \in [Procs -> Chans]
  BY <1>1 DEF ControlInv, TypeOK, WalkTypes, Chans
<1>. QED  BY <1>1, <1>5, <1>6, <1>7, ControlLocal

(* A process sleeps until the buffer it has found is not busy. *)
LEMMA ControlBusy ==
  ASSUME ControlInv, NEW p \in Procs, GetblkBusy(p) \/ VinvalBusy(p)
  PROVE  ControlInv'
<1>1. /\ pc[p] \in {"found", "vinval_take"}
      /\ b_flags' = [b_flags EXCEPT ![bp[p]] = @ \cup {"WANTED"}]
      /\ bp' = [bp EXCEPT ![p] = None] /\ cpu' = None
      /\ wchan' = [wchan EXCEPT ![p] = bp[p]]
      /\ UNCHANGED <<b_vp, b_lblkno, b_bcount, b_list, bfreelist, freewanted, vnvars, io,
                     datavars, stack, want, hold, err, panicked>>
  BY DEF GetblkBusy, WaitFor, VinvalBusy, At, Sleep
<1>2. PICK l \in {"getblk", "vinval"} : /\ pc' = [pc EXCEPT ![p] = l]
                                        /\ pc[p] = "found" <=> l = "getblk"
  BY DEF GetblkBusy, WaitFor, VinvalBusy, At, Sleep
<1>3. bp[p] \in Bufs
  BY <1>1, AtLabel DEF PointerAt, Pointing, ControlInv, TypeOK
<1>4. todo' \in [Procs -> SUBSET Bufs]
  BY DEF GetblkBusy, WaitFor, VinvalBusy, ControlInv, TypeOK
<1>5. /\ b_flags' \in [Bufs -> SUBSET Flags] /\ wchan' \in [Procs -> Chans]
      /\ \A b \in Bufs : "DELWRI" \in b_flags'[b] <=> "DELWRI" \in b_flags[b]
  BY <1>1, <1>3 DEF ControlInv, TypeOK, Flags, Chans
<1>6. BufTypes' /\ DiskTypes' /\ WalkTypes'
  BY <1>1, <1>4, <1>5
     DEF ControlInv, TypeOK, BufTypes, DiskTypes, WalkTypes, vnvars, datavars, Lists
<1>7. ProcTypes' /\ Local(p) /\ pc'[p] = l /\ bp'[p] = None /\ stack'[p] = stack[p]
      /\ want'[p] = want[p]
  BY <1>1, <1>2 DEF ControlInv, TypeOK, ProcTypes, Local, Labels
<1>8. want[p] \in Asked /\ PlainStack(l, stack[p])
  BY <1>1, <1>2, AtLabel DEF FrameAt, PlainStack, OneDeep, InGetblk
<1>9. Frame(p)'
  BY <1>7, <1>8 DEF Frame, FrameAt, PointerAt, Pointing, Pointless
<1>10. ListsAgree' /\ DirtyHome'
  BY <1>1, <1>5, KeepsAgreeing
<1>. QED  BY <1>6, <1>7, <1>9, <1>10, ControlStep

(* getblk() returns the buffer found. *)
LEMMA ControlHit ==
  ASSUME ControlInv, NEW p \in Procs, GetblkHit(p)
  PROVE  ControlInv'
<1>1. /\ pc[p] = "found" /\ Return(p)
      /\ b_flags' = [b_flags EXCEPT ![bp[p]] = @ \cup {"BUSY"}]
      /\ bfreelist' = FreeWithout(bp[p])
      /\ UNCHANGED <<b_vp, b_lblkno, b_bcount, b_list, freewanted, vnvars, io, datavars,
                     wchan, want, bp, hold, todo, err, panicked>>
  BY DEF GetblkHit, TakeFound, At
<1>2. bp[p] \in Bufs
  BY <1>1, AtLabel DEF PointerAt, Pointing, ControlInv, TypeOK
<1>3. /\ b_flags' \in [Bufs -> SUBSET Flags]
      /\ \A b \in Bufs : "DELWRI" \in b_flags'[b] <=> "DELWRI" \in b_flags[b]
  BY <1>1 DEF ControlInv, TypeOK, Flags
<1>4. bfreelist' \in [Queues -> Seq(Bufs)]
  BY <1>1, <1>2, FreeWithoutType DEF ControlInv
<1>5. BufTypes' /\ DiskTypes' /\ WalkTypes'
  BY <1>1, <1>3, <1>4
     DEF ControlInv, TypeOK, BufTypes, DiskTypes, WalkTypes, vnvars, datavars, Lists, Chans
<1>6. ProcTypes' /\ Local(p) /\ pc'[p] = Head(stack[p]) /\ stack'[p] = Tail(stack[p])
  BY <1>1, ReturnFrame DEF ControlInv, TypeOK, ProcTypes, Local
<1>7. /\ Head(stack[p]) \in Callers \cup {"user"} /\ PlainStack(Head(stack[p]), Tail(stack[p]))
      /\ want[p] \in Asked
  BY <1>1, AtLabel, Pops DEF InGetblk
<1>8. Frame(p)'
  BY <1>1, <1>2, <1>6, <1>7, BufCacheAssumption
     DEF Frame, FrameAt, PointerAt, Pointless, Callers, BufCacheAssumption
<1>9. ListsAgree' /\ DirtyHome'
  BY <1>1, <1>3, KeepsAgreeing
<1>. QED  BY <1>5, <1>6, <1>8, <1>9, ControlStep

(* getnewbuf() sleeps. *)
LEMMA ControlNoneFree ==
  ASSUME ControlInv, NEW p \in Procs, GetnewbufSleep(p)
  PROVE  ControlInv'
<1>1. /\ pc[p] = "getnewbuf" /\ freewanted' = TRUE /\ Sleep(p, FreeChan, "getnewbuf")
      /\ UNCHANGED <<b_flags, b_vp, b_lblkno, b_bcount, b_list, bfreelist, vnvars, io,
                     datavars, stack, want, err, bp, hold, todo, panicked>>
  BY DEF GetnewbufSleep, At, locals
<1>2. /\ pc' \in [Procs -> Labels] /\ (\A q \in Procs : pc'[q] = pc[q])
      /\ wchan' \in [Procs -> Chans] /\ cpu' = None
  BY <1>1 DEF Sleep, ControlInv, TypeOK, Chans, Labels
<1>3. BufTypes' /\ DiskTypes' /\ WalkTypes'
  BY <1>1, <1>2
     DEF ControlInv, TypeOK, BufTypes, DiskTypes, WalkTypes, vnvars, datavars, Lists
<1>4. ProcTypes' /\ Local(p) /\ Frame(p)'
  BY <1>1, <1>2, AtLabel DEF ControlInv, TypeOK, ProcTypes, Local, Frame
<1>5. ListsAgree' /\ DirtyHome'
  BY <1>1, KeepsAgreeing
<1>. QED  BY <1>3, <1>4, <1>5, ControlStep

(* The first buffer of a free list. *)
LEMMA NewBufFree ==
  ASSUME TypeOK, ~NoneFree
  PROVE  NewBuf \in Bufs /\ \E q \in Queues : Listed(bfreelist[q], NewBuf)
<1>1. PICK q \in Queues : bfreelist[q] # <<>> /\ NewBuf = Head(bfreelist[q])
  BY DEF NoneFree, NewBuf, Queues
<1>2. bfreelist[q] \in Seq(Bufs) /\ 1 \in DOMAIN bfreelist[q] /\ NewBuf = bfreelist[q][1]
  BY <1>1 DEF TypeOK
<1>. QED  BY <1>2 DEF Listed

(* getnewbuf() takes a clean buffer. *)
LEMMA ControlNew ==
  ASSUME ControlInv, NEW p \in Procs, GetnewbufClean(p)
  PROVE  ControlInv'
<1> DEFINE b == NewBuf
           w == want[p]
<1>1. /\ pc[p] = "getnewbuf" /\ b \in Bufs
  BY NewBufFree DEF GetnewbufClean, CleanNew, At, ControlInv
<1>2. w \in Asked
  BY <1>1, AtLabel DEF FrameAt, PlainStack, OneDeep
<1> HIDE DEF b
<1>3. PICK fl \in SUBSET Flags, l \in Lists, k \in Blks \cup {None} :
        /\ TakeNew(p, b, fl, l, k) /\ "DELWRI" \notin fl
        /\ l = None <=> w.vp = None
        /\ l # None => l[2] = "clean"
  <2>1. CASE w.op = "geteblk"
    BY <1>1, <1>2, <2>1
       DEF GetnewbufClean, b, Flags, Lists, Asked, ControlInv, TypeOK
  <2>2. CASE w.op # "geteblk"
    <3>1. w.vp \in Vnodes /\ w.blk \in Blks \cup {None} /\ <<w.vp, "clean">> \in Lists
      BY <1>2, <2>2 DEF Asked, Request, Lists, Kinds
    <3>2. <<w.vp, "clean">> # None /\ w.vp # None
      BY <3>1, BufCacheAssumption DEF BufCacheAssumption, Kinds
    <3>. QED  BY <2>2, <3>1, <3>2 DEF GetnewbufClean, b, Flags
  <2>. QED  BY <2>1, <2>2
<1>4. /\ bfreelist' = FreeWithout(b) /\ b_flags' = [b_flags EXCEPT ![b] = fl]
      /\ b_vp' = [b_vp EXCEPT ![b] = w.vp] /\ b_list' = [b_list EXCEPT ![b] = l]
      /\ b_lblkno' = [b_lblkno EXCEPT ![b] = k] /\ b_bcount' = [b_bcount EXCEPT ![b] = w.size]
      /\ b_fresh' = [b_fresh EXCEPT ![b] = FALSE] /\ bp' = [bp EXCEPT ![p] = b] /\ Return(p)
      /\ UNCHANGED <<freewanted, vnvars, io, d_fresh, wchan, want, hold, todo, err, panicked>>
  BY <1>3 DEF TakeNew, bremfree
<1>5. bfreelist' \in [Queues -> Seq(Bufs)]
  BY <1>1, <1>4, FreeWithoutType DEF ControlInv
<1>6. BufTypes'
  <2>1. w.vp \in Vnodes \cup {None} /\ w.size \in Sizes \cup {None}
    BY <1>2 DEF Asked, Request
  <2>2. b_flags' \in [Bufs -> SUBSET Flags] /\ b_list' \in [Bufs -> Lists]
    BY <1>1, <1>4 DEF ControlInv, TypeOK, Lists
  <2>. QED  BY <1>1, <1>4, <1>5, <2>1, <2>2 DEF ControlInv, TypeOK, BufTypes
<1>7. DiskTypes' /\ WalkTypes'
  BY <1>1, <1>4 DEF ControlInv, TypeOK, DiskTypes, WalkTypes, vnvars, Chans
<1>8. /\ ProcTypes' /\ Local(p) /\ pc'[p] = Head(stack[p]) /\ stack'[p] = Tail(stack[p])
      /\ bp'[p] = b
  BY <1>1, <1>4, ReturnFrame DEF ControlInv, TypeOK, ProcTypes, Local
<1>9. Head(stack[p]) \in Callers \cup {"user"} /\ PlainStack(Head(stack[p]), Tail(stack[p]))
  BY <1>1, AtLabel, Pops DEF InGetblk
<1>10. Frame(p)'
  BY <1>1, <1>2, <1>4, <1>8, <1>9, BufCacheAssumption
     DEF Frame, FrameAt, PointerAt, Pointless, Callers, BufCacheAssumption
<1>11. ListsAgree' /\ DirtyHome'
  <2>1. \A c \in Bufs \ {b} : /\ b_flags'[c] = b_flags[c] /\ b_vp'[c] = b_vp[c]
                              /\ b_list'[c] = b_list[c]
    BY <1>4 DEF ControlInv, TypeOK
  <2>2. b_flags'[b] = fl /\ b_vp'[b] = w.vp /\ b_list'[b] = l
    BY <1>1, <1>4 DEF ControlInv, TypeOK
  <2>. QED  BY <1>3, <2>1, <2>2 DEF ControlInv, ListsAgree, DirtyHome, Has
<1>. QED  BY <1>6, <1>7, <1>8, <1>10, <1>11, ControlStep

(* The writes. *)
LEMMA ControlWrite ==
  ASSUME ControlInv, NEW p \in Procs, NEW b \in Bufs, NEW fl \in SUBSET Flags,
         NEW next \in Nexts, bwrite(b, fl), AfterStrategy(p, fl, next),
         b_flags[b] \subseteq fl, b_vp[b] # None,
         bfreelist' \in [Queues -> Seq(Bufs)], b_fresh' \in [Bufs -> BOOLEAN],
         d_fresh' \in [Blocks -> BOOLEAN], todo' \in [Procs -> SUBSET Bufs],
         want' \in [Procs -> Request \cup {None}], bp' \in [Procs -> Bufs \cup {None}],
         UNCHANGED <<wchan, hold, err, panicked>>,
         \A q \in Procs \ {p} : want'[q] = want[q] /\ bp'[q] = bp[q],
         PlainStack(next, stack[p]), next # "user" => want'[p] \in Asked,
         "ASYNC" \in fl /\ "DELWRI" \notin fl => \/ next = "user" /\ bp'[p] = None
                                                 \/ next = "getblk",
         ~("ASYNC" \in fl /\ "DELWRI" \notin fl) => bp'[p] # None
  PROVE  ControlInv'
<1>1. wchan' \in [Procs -> Chans]
  BY DEF ControlInv, TypeOK, Chans
<1>2. BufTypes' /\ DiskTypes'
  BY <1>1, WriteTypes DEF ControlInv
<1>3. /\ cpu' \in Procs \cup {None} /\ pc' \in [Procs -> Labels]
      /\ stack' \in [Procs -> Seq(Labels)]
      /\ \A q \in Procs \ {p} : pc'[q] = pc[q] /\ stack'[q] = stack[q]
      /\ FrameAt(pc'[p], stack'[p], want'[p], bp'[p]) /\ PointerAt(pc'[p], bp'[p])
  BY WriteFrame
<1>4. ProcTypes' /\ WalkTypes' /\ Local(p) /\ Frame(p)'
  BY <1>3 DEF ControlInv, TypeOK, ProcTypes, WalkTypes, Local, Frame
<1>5. ListsAgree' /\ DirtyHome'
  BY WriteAgrees
<1>. QED  BY <1>2, <1>4, <1>5, ControlStep

LEMMA ControlPanic ==
  ASSUME ControlInv, Panic PROVE ControlInv'
<1>1. UNCHANGED <<b_flags, b_vp, b_lblkno, b_bcount, b_list, bfreelist, freewanted, v_numoutput,
                  vbwait, tapes, io, b_fresh, d_fresh, cpu, pc, wchan, stack, want, err, bp,
                  hold, todo>> /\ panicked' = TRUE
  BY DEF Panic, bufvars, vnvars, datavars, locals
<1>2. TypeOK'
  BY <1>1 DEF ControlInv, TypeOK
<1>. QED  BY <1>1, <1>2 DEF ControlInv, Control, Frame, ListsAgree, DirtyHome, Has

(* getblk() writes a buffer of another size. *)
LEMMA ControlStray ==
  ASSUME ControlInv, NEW p \in Procs, GetblkStray(p) PROVE ControlInv'
<1> DEFINE b == bp[p]
           fl == b_flags[b] \cup {"BUSY", "INVAL"}
<1>1. pc[p] = "found"
  BY DEF GetblkStray, WriteStray, At
<1>2. b \in Bufs
  BY <1>1, AtLabel DEF PointerAt, Pointing, ControlInv, TypeOK
<1>3. CASE b_vp[b] = None
  BY <1>3, ControlPanic DEF GetblkStray, WriteStray
<1>4. CASE b_vp[b] # None
  <2>1. /\ bfreelist' = FreeWithout(b) /\ bwrite(b, fl) /\ AfterStrategy(p, fl, "getblk")
        /\ UNCHANGED <<datavars, wchan, want, bp, hold, todo, err, panicked>>
    BY <1>4 DEF GetblkStray, WriteStray
  <2>2. fl \in SUBSET Flags /\ b_flags[b] \subseteq fl
    BY <1>2 DEF ControlInv, TypeOK, Flags
  <2>3. bfreelist' \in [Queues -> Seq(Bufs)]
    BY <1>2, <2>1, FreeWithoutType DEF ControlInv
  <2>4. PlainStack("getblk", stack[p]) /\ want[p] \in Asked
    BY <1>1, AtLabel DEF FrameAt, PlainStack, InGetblk, OneDeep
  <2>5. /\ b_fresh' \in [Bufs -> BOOLEAN] /\ d_fresh' \in [Blocks -> BOOLEAN]
        /\ todo' \in [Procs -> SUBSET Bufs] /\ want' \in [Procs -> Request \cup {None}]
        /\ bp' \in [Procs -> Bufs \cup {None}]
    BY <2>1 DEF ControlInv, TypeOK, datavars
  <2>6. "getblk" \in Nexts /\ bp[p] # None
    BY <1>2, BufCacheAssumption DEF Nexts, BufCacheAssumption
  <2> HIDE DEF fl, b
  <2>. QED  BY <1>2, <1>4, <2>1, <2>2, <2>3, <2>4, <2>5, <2>6, ControlWrite
<1>. QED  BY <1>3, <1>4

(* getnewbuf() writes a dirty buffer. *)
LEMMA ControlDirty ==
  ASSUME ControlInv, NEW p \in Procs, GetnewbufDirty(p) PROVE ControlInv'
<1> DEFINE b == NewBuf
           fl == b_flags[b] \cup {"BUSY", "ASYNC"}
<1>1. /\ pc[p] = "getnewbuf" /\ ~NoneFree /\ "DELWRI" \in b_flags[b]
      /\ bfreelist' = FreeWithout(b) /\ bwrite(b, fl) /\ AfterStrategy(p, fl, "getnewbuf")
      /\ bp' = [bp EXCEPT ![p] = b]
      /\ UNCHANGED <<datavars, wchan, want, hold, todo, err, panicked>>
  BY DEF GetnewbufDirty, At, Has, bremfree
<1>2. b \in Bufs
  BY <1>1, NewBufFree DEF ControlInv
<1> HIDE DEF b
<1>3. fl \in SUBSET Flags /\ b_flags[b] \subseteq fl /\ "DELWRI" \in fl
  BY <1>1, <1>2 DEF ControlInv, TypeOK, Flags
<1>4. bfreelist' \in [Queues -> Seq(Bufs)] /\ b_vp[b] # None
  BY <1>1, <1>2, FreeWithoutType DEF ControlInv, DirtyHome, Has
<1>5. PlainStack("getnewbuf", stack[p]) /\ want[p] \in Asked
  BY <1>1, AtLabel DEF FrameAt, PlainStack, InGetblk, OneDeep
<1>6. /\ b_fresh' \in [Bufs -> BOOLEAN] /\ d_fresh' \in [Blocks -> BOOLEAN]
      /\ todo' \in [Procs -> SUBSET Bufs] /\ want' \in [Procs -> Request \cup {None}]
      /\ bp' \in [Procs -> Bufs \cup {None}] /\ bp'[p] = b
      /\ \A q \in Procs \ {p} : bp'[q] = bp[q]
  BY <1>1, <1>2 DEF ControlInv, TypeOK, datavars
<1>7. "getnewbuf" \in Nexts /\ b # None
  BY <1>2, BufCacheAssumption DEF Nexts, BufCacheAssumption
<1> HIDE DEF fl
<1>. QED  BY <1>1, <1>2, <1>3, <1>4, <1>5, <1>6, <1>7, ControlWrite

(* vflushbuf() writes a dirty buffer. *)
LEMMA ControlVflushWrite ==
  ASSUME ControlInv, NEW p \in Procs, VflushWrite(p) PROVE ControlInv'
<1>1. PICK b \in todo[p], how \in {{}, {"ASYNC"}}, next \in {"vflush_scan", "vflush"} :
        LET fl == b_flags[b] \cup {"BUSY"} \cup how
        IN /\ pc[p] = "vflush_scan"
           /\ \/ Panic
              \/ /\ "DELWRI" \in b_flags[b] /\ b_vp[b] # None
                 /\ bfreelist' = FreeWithout(b) /\ bwrite(b, fl) /\ AfterStrategy(p, fl, next)
                 /\ \E T \in SUBSET todo[p] : todo' = [todo EXCEPT ![p] = T]
                 /\ bp' = [bp EXCEPT ![p] = b]
                 /\ UNCHANGED <<datavars, wchan, want, hold, err, panicked>>
  <2>1. PICK b \in todo[p] :
          LET async == b_vp[b] = want[p].vp \/ ~IsSync(p)
              fl == b_flags[b] \cup {"BUSY"} \cup (IF async THEN {"ASYNC"} ELSE {})
          IN /\ At(p, "vflush_scan") /\ ~Has(b, "BUSY")
             /\ IF ~Has(b, "DELWRI") \/ b_vp[b] = None
                THEN Panic
                ELSE /\ bremfree(b) /\ bwrite(b, fl)
                     /\ AfterStrategy(p, fl, IF async THEN "vflush_scan" ELSE "vflush")
                     /\ todo' = [todo EXCEPT ![p] = IF async THEN @ \ {b} ELSE {}]
                     /\ bp' = [bp EXCEPT ![p] = b]
                     /\ UNCHANGED <<datavars, wchan, want, hold, err, panicked>>
    BY DEF VflushWrite
  <2>2. CASE b_vp[b] = want[p].vp \/ ~IsSync(p)
    <3>1. /\ pc[p] = "vflush_scan"
          /\ \/ Panic
             \/ /\ "DELWRI" \in b_flags[b] /\ b_vp[b] # None
                /\ bfreelist' = FreeWithout(b) /\ bwrite(b, b_flags[b] \cup {"BUSY"} \cup {"ASYNC"})
                /\ AfterStrategy(p, b_flags[b] \cup {"BUSY"} \cup {"ASYNC"}, "vflush_scan")
                /\ todo' = [todo EXCEPT ![p] = todo[p] \ {b}]
                /\ bp' = [bp EXCEPT ![p] = b]
                /\ UNCHANGED <<datavars, wchan, want, hold, err, panicked>>
      BY <2>1, <2>2 DEF At, Has, bremfree
    <3>. QED  BY <3>1
  <2>3. CASE ~(b_vp[b] = want[p].vp \/ ~IsSync(p))
    <3>1. /\ pc[p] = "vflush_scan"
          /\ \/ Panic
             \/ /\ "DELWRI" \in b_flags[b] /\ b_vp[b] # None
                /\ bfreelist' = FreeWithout(b) /\ bwrite(b, b_flags[b] \cup {"BUSY"} \cup {})
                /\ AfterStrategy(p, b_flags[b] \cup {"BUSY"} \cup {}, "vflush")
                /\ todo' = [todo EXCEPT ![p] = {}]
                /\ bp' = [bp EXCEPT ![p] = b]
                /\ UNCHANGED <<datavars, wchan, want, hold, err, panicked>>
      BY <2>1, <2>3 DEF At, Has, bremfree
    <3>. QED  BY <3>1
  <2>. QED  BY <2>2, <2>3
<1> DEFINE fl == b_flags[b] \cup {"BUSY"} \cup how
<1>2. b \in Bufs /\ todo[p] \subseteq Bufs
  BY DEF ControlInv, TypeOK
<1>3. CASE ~Panic
  <2>1. /\ "DELWRI" \in b_flags[b] /\ b_vp[b] # None
        /\ bfreelist' = FreeWithout(b) /\ bwrite(b, fl) /\ AfterStrategy(p, fl, next)
        /\ \E T \in SUBSET todo[p] : todo' = [todo EXCEPT ![p] = T]
        /\ bp' = [bp EXCEPT ![p] = b]
        /\ UNCHANGED <<datavars, wchan, want, hold, err, panicked>>
    BY <1>1, <1>3
  <2>2. fl \in SUBSET Flags /\ b_flags[b] \subseteq fl /\ "DELWRI" \in fl
    BY <1>2, <2>1 DEF ControlInv, TypeOK, Flags
  <2>3. bfreelist' \in [Queues -> Seq(Bufs)]
    BY <1>2, <2>1, FreeWithoutType DEF ControlInv
  <2>4. PlainStack(next, stack[p]) /\ want[p] \in Asked /\ next \in Nexts
    BY <1>1, AtLabel DEF FrameAt, PlainStack, InGetblk, OneDeep, Nexts
  <2>5. /\ b_fresh' \in [Bufs -> BOOLEAN] /\ d_fresh' \in [Blocks -> BOOLEAN]
        /\ want' \in [Procs -> Request \cup {None}]
        /\ bp' \in [Procs -> Bufs \cup {None}] /\ bp'[p] = b
        /\ \A q \in Procs \ {p} : bp'[q] = bp[q]
    BY <1>2, <2>1 DEF ControlInv, TypeOK, datavars
  <2>6. todo' \in [Procs -> SUBSET Bufs]
    BY <1>2, <2>1 DEF ControlInv, TypeOK
  <2>7. b # None
    BY <1>2, BufCacheAssumption DEF BufCacheAssumption
  <2> HIDE DEF fl
  <2>. QED  BY <1>2, <2>1, <2>2, <2>3, <2>4, <2>5, <2>6, <2>7, ControlWrite
<1>. QED  BY <1>3, ControlPanic

(* vinvalbuf() writes a dirty buffer. *)
LEMMA ControlVinvalSave ==
  ASSUME ControlInv, NEW p \in Procs, VinvalSave(p) PROVE ControlInv'
<1> DEFINE b == bp[p]
           fl == b_flags[b] \cup {"BUSY"}
<1>1. /\ pc[p] = "vinval_take" /\ "DELWRI" \in b_flags[b]
      /\ bfreelist' = FreeWithout(b) /\ bwrite(b, fl) /\ AfterStrategy(p, fl, "vinval")
      /\ todo' = [todo EXCEPT ![p] = {}]
      /\ UNCHANGED <<datavars, wchan, want, bp, hold, err, panicked>>
  BY DEF VinvalSave, At, Has, bremfree
<1>2. b \in Bufs
  BY <1>1, AtLabel DEF PointerAt, Pointing, ControlInv, TypeOK
<1>3. fl \in SUBSET Flags /\ b_flags[b] \subseteq fl /\ "DELWRI" \in fl
  BY <1>1, <1>2 DEF ControlInv, TypeOK, Flags
<1>4. bfreelist' \in [Queues -> Seq(Bufs)] /\ b_vp[b] # None
  BY <1>1, <1>2, FreeWithoutType DEF ControlInv, DirtyHome, Has
<1>5. PlainStack("vinval", stack[p]) /\ want[p] \in Asked
  BY <1>1, AtLabel DEF FrameAt, PlainStack, InGetblk, OneDeep
<1>6. /\ b_fresh' \in [Bufs -> BOOLEAN] /\ d_fresh' \in [Blocks -> BOOLEAN]
      /\ todo' \in [Procs -> SUBSET Bufs] /\ want' \in [Procs -> Request \cup {None}]
      /\ bp' \in [Procs -> Bufs \cup {None}]
  BY <1>1 DEF ControlInv, TypeOK, datavars
<1>7. "vinval" \in Nexts /\ b # None
  BY <1>2, BufCacheAssumption DEF Nexts, BufCacheAssumption
<1> HIDE DEF fl
<1>. QED  BY <1>1, <1>2, <1>3, <1>4, <1>5, <1>6, <1>7, ControlWrite

LEMMA ModifyTypes ==
  ASSUME TypeOK, NEW b \in Bufs, Modify(b)
  PROVE  b_fresh' \in [Bufs -> BOOLEAN] /\ d_fresh' \in [Blocks -> BOOLEAN]
  BY DEF Modify, TypeOK

(* What a process holds that is outside the cache. *)
LEMMA UserHolds ==
  ASSUME ControlInv, NEW p \in Procs, Holding(p)
  PROVE  pc[p] = "user" /\ bp[p] \in Bufs /\ stack[p] = <<>> /\ want[p] \in Asked
  BY AtLabel DEF Holding, At, ControlInv, TypeOK, FrameAt, PlainStack, OneDeep, InGetblk

LEMMA ControlUserBwrite ==
  ASSUME ControlInv, NEW p \in Procs, UserBwrite(p) PROVE ControlInv'
<1>1. PICK how \in {{}, {"ASYNC"}} :
        LET b == bp[p]
            fl == b_flags[b] \cup how
        IN /\ MayWrite(p)
           /\ IF b_vp[b] = None
              THEN Panic
              ELSE /\ Modify(b) /\ bwrite(b, fl) /\ AfterStrategy(p, fl, "user")
                   /\ want' = [want EXCEPT ![p] = None]
                   /\ bp' = IF pc'[p] = "user" THEN [bp EXCEPT ![p] = None] ELSE bp
                   /\ UNCHANGED <<bfreelist, wchan, hold, todo, err, panicked>>
  BY DEF UserBwrite
<1> DEFINE b == bp[p]
           fl == b_flags[b] \cup how
<1>2. pc[p] = "user" /\ b \in Bufs /\ stack[p] = <<>>
  BY <1>1, UserHolds DEF MayWrite
<1>3. CASE b_vp[b] # None
  <2>1. /\ Modify(b) /\ bwrite(b, fl) /\ AfterStrategy(p, fl, "user")
        /\ want' = [want EXCEPT ![p] = None]
        /\ bp' = IF pc'[p] = "user" THEN [bp EXCEPT ![p] = None] ELSE bp
        /\ UNCHANGED <<bfreelist, wchan, hold, todo, err, panicked>>
    BY <1>1, <1>3
  <2>2. fl \in SUBSET Flags /\ b_flags[b] \subseteq fl
    BY <1>2 DEF ControlInv, TypeOK, Flags
  <2>3. pc'[p] = "user" <=> "ASYNC" \in fl /\ "DELWRI" \notin fl
    BY <1>2, <2>1 DEF AfterStrategy, Goto, Call, ControlInv, TypeOK
  <2>4. /\ bfreelist' \in [Queues -> Seq(Bufs)]
        /\ todo' \in [Procs -> SUBSET Bufs] /\ want' \in [Procs -> Request \cup {None}]
        /\ bp' \in [Procs -> Bufs \cup {None}]
        /\ \A q \in Procs \ {p} : want'[q] = want[q] /\ bp'[q] = bp[q]
        /\ bp'[p] = IF pc'[p] = "user" THEN None ELSE b
    BY <2>1 DEF ControlInv, TypeOK
  <2>5. b_fresh' \in [Bufs -> BOOLEAN] /\ d_fresh' \in [Blocks -> BOOLEAN]
    BY <1>2, <2>1, ModifyTypes DEF ControlInv
  <2>6. "user" \in Nexts /\ b # None /\ PlainStack("user", stack[p])
    BY <1>2, BufCacheAssumption DEF Nexts, BufCacheAssumption, PlainStack
  <2> HIDE DEF fl, b
  <2>. QED  BY <1>2, <1>3, <2>1, <2>2, <2>3, <2>4, <2>5, <2>6, ControlWrite
<1>. QED  BY <1>1, <1>3, ControlPanic

(* The releases. *)
LEMMA ControlFree ==
  ASSUME ControlInv, NEW p \in Procs, NEW free \in [Queues -> Seq(Bufs)], NEW l \in Lists,
         NEW b \in Bufs, NEW fl \in SUBSET Flags, NEW C, Free(free, l, b, fl, C),
         b_vp[b] = None <=> l = None,
         l # None => ("DELWRI" \in fl <=> l[2] = "dirty"),
         "DELWRI" \in fl => b_vp[b] # None,
         v_numoutput' \in [Vnodes -> Int], vbwait' \in [Vnodes -> BOOLEAN],
         tapes' \subseteq Tapes, io' \subseteq Bufs, b_fresh' \in [Bufs -> BOOLEAN],
         d_fresh' \in [Blocks -> BOOLEAN], UNCHANGED panicked,
         ProcTypes', WalkTypes', Local(p), Frame(p)'
  PROVE  ControlInv'
<1>1. BufTypes' /\ wchan' \in [Procs -> Chans]
  BY FreeTypes DEF ControlInv
<1>2. DiskTypes'
  BY <1>1 DEF DiskTypes, ControlInv, TypeOK
<1>3. ListsAgree' /\ DirtyHome'
  BY FreeAgrees
<1>. QED  BY <1>1, <1>2, <1>3, ControlStep

(* A buffer that is released as it is. *)
LEMMA AsItIs ==
  ASSUME ControlInv, NEW b \in Bufs
  PROVE  /\ b_list[b] \in Lists /\ b_flags[b] \in SUBSET Flags
         /\ bfreelist \in [Queues -> Seq(Bufs)]
         /\ b_vp[b] = None <=> b_list[b] = None
         /\ b_list[b] # None => ("DELWRI" \in b_flags[b] <=> b_list[b][2] = "dirty")
         /\ "DELWRI" \in b_flags[b] => b_vp[b] # None
  BY DEF ControlInv, TypeOK, ListsAgree, DirtyHome, Has, Lists

LEMMA ControlRelease ==
  ASSUME ControlInv, NEW p \in Procs, Release(p) PROVE ControlInv'
<1> DEFINE b == bp[p]
           C == {} \cup WantB(b, b_flags[b]) \cup WantFree
<1>1. /\ pc[p] = "release" /\ Free(bfreelist, b_list[b], b, b_flags[b], C)
      /\ bp' = [bp EXCEPT ![p] = None] /\ Return(p)
      /\ UNCHANGED <<vnvars, io, datavars, want, hold, todo, err, panicked>>
  BY DEF Release, brelse, brelseFrom, At
<1>2. b \in Bufs
  BY <1>1, AtLabel DEF PointerAt, Pointing, ControlInv, TypeOK
<1>3. /\ v_numoutput' \in [Vnodes -> Int] /\ vbwait' \in [Vnodes -> BOOLEAN]
      /\ tapes' \subseteq Tapes /\ io' \subseteq Bufs /\ b_fresh' \in [Bufs -> BOOLEAN]
      /\ d_fresh' \in [Blocks -> BOOLEAN] /\ WalkTypes'
  BY <1>1 DEF ControlInv, TypeOK, vnvars, datavars, WalkTypes
<1>4. /\ ProcTypes' /\ Local(p) /\ pc'[p] = Head(stack[p]) /\ stack'[p] = Tail(stack[p])
      /\ bp'[p] = None
  BY <1>1, ReturnFrame DEF ControlInv, TypeOK, ProcTypes, Local
<1>5. /\ Head(stack[p]) \in Nexts /\ PlainStack(Head(stack[p]), Tail(stack[p]))
      /\ Head(stack[p]) # "user" => want[p] \in Asked
  BY <1>1, AtLabel, Pops
<1>6. Frame(p)'
  BY <1>1, <1>4, <1>5 DEF Frame, FrameAt, PointerAt, Pointing, Nexts
<1> HIDE DEF C, b
<1>. QED  BY <1>1, <1>2, <1>3, <1>4, <1>6, AsItIs, ControlFree

LEMMA ControlSetAge ==
  ASSUME ControlInv, NEW p \in Procs, SetAge(p) PROVE ControlInv'
<1>1. /\ pc[p] = "setage" /\ Return(p)
      /\ b_flags' = [b_flags EXCEPT ![bp[p]] = @ \cup {"AGE"}] /\ bp' = [bp EXCEPT ![p] = None]
      /\ UNCHANGED <<b_vp, b_lblkno, b_bcount, b_list, bfreelist, freewanted, vnvars, io,
                     datavars, wchan, want, hold, todo, err, panicked>>
  BY DEF SetAge, At
<1>2. /\ b_flags' \in [Bufs -> SUBSET Flags]
      /\ \A b \in Bufs : "DELWRI" \in b_flags'[b] <=> "DELWRI" \in b_flags[b]
  BY <1>1 DEF ControlInv, TypeOK, Flags
<1>3. BufTypes' /\ DiskTypes' /\ WalkTypes'
  BY <1>1, <1>2
     DEF ControlInv, TypeOK, BufTypes, DiskTypes, WalkTypes, vnvars, datavars, Lists, Chans
<1>4. /\ ProcTypes' /\ Local(p) /\ pc'[p] = Head(stack[p]) /\ stack'[p] = Tail(stack[p])
      /\ bp'[p] = None
  BY <1>1, ReturnFrame DEF ControlInv, TypeOK, ProcTypes, Local
<1>5. /\ Head(stack[p]) \in Nexts /\ PlainStack(Head(stack[p]), Tail(stack[p]))
      /\ Head(stack[p]) # "user" => want[p] \in Asked
  BY <1>1, AtLabel, Pops
<1>6. Frame(p)'
  BY <1>1, <1>4, <1>5 DEF Frame, FrameAt, PointerAt, Pointing, Nexts
<1>7. ListsAgree' /\ DirtyHome'
  BY <1>1, <1>2, KeepsAgreeing
<1>. QED  BY <1>3, <1>4, <1>6, <1>7, ControlStep

(* bread() and breada() start a read, or find that there is no need to. *)
LEMMA ReadTypes ==
  ASSUME ControlInv, NEW b \in Bufs, NEW extra \in SUBSET {"ASYNC"}, StartRead(b, extra),
         UNCHANGED <<b_vp, b_lblkno, b_bcount, b_list, bfreelist, freewanted, vnvars, datavars,
                     wchan, panicked>>
  PROVE  BufTypes' /\ DiskTypes' /\ ListsAgree' /\ DirtyHome'
<1>1. /\ b_flags' \in [Bufs -> SUBSET Flags] /\ io' \subseteq Bufs
      /\ \A c \in Bufs : "DELWRI" \in b_flags'[c] <=> "DELWRI" \in b_flags[c]
  <2>1. UNCHANGED <<b_flags, io>> \/ /\ b_flags' = [b_flags EXCEPT ![b] = @ \cup {"READ"} \cup extra]
                                     /\ io' = io \cup {b}
    BY DEF StartRead
  <2>2. b_flags[b] \cup {"READ"} \cup extra \in SUBSET Flags
    BY DEF ControlInv, TypeOK, Flags
  <2>3. b_flags' \in [Bufs -> SUBSET Flags] /\ io' \subseteq Bufs
    <3>1. b_flags \in [Bufs -> SUBSET Flags] /\ io \subseteq Bufs
      BY DEF ControlInv, TypeOK
    <3> DEFINE fl == b_flags[b] \cup {"READ"} \cup extra
    <3>2. UNCHANGED <<b_flags, io>> \/ (b_flags' = [b_flags EXCEPT ![b] = fl] /\ io' = io \cup {b})
      BY <2>1
    <3> HIDE DEF fl
    <3>3. fl \in SUBSET Flags
      BY <2>2 DEF fl
    <3>. QED  BY <3>1, <3>2, <3>3
  <2>4. ASSUME NEW c \in Bufs PROVE "DELWRI" \in b_flags'[c] <=> "DELWRI" \in b_flags[c]
    <3>1. b_flags'[c] = b_flags[c] \/ b_flags'[c] = b_flags[c] \cup {"READ"} \cup extra
      BY <2>1 DEF ControlInv, TypeOK
    <3>. QED  BY <3>1
  <2>. QED  BY <2>3, <2>4
<1>2. BufTypes' /\ DiskTypes'
  BY <1>1 DEF ControlInv, TypeOK, BufTypes, DiskTypes, vnvars, datavars, Lists, Chans
<1>. QED  BY <1>1, <1>2, KeepsAgreeing

LEMMA ControlBread ==
  ASSUME ControlInv, NEW p \in Procs, Bread(p) PROVE ControlInv'
<1>1. /\ pc[p] = "bread" /\ StartRead(bp[p], {})
      /\ UNCHANGED <<b_vp, b_lblkno, b_bcount, b_list, bfreelist, freewanted, vnvars,
                     datavars, wchan, panicked>>
      /\ UNCHANGED <<want, bp, hold, todo, err>>
  BY DEF Bread, At
<1>2. bp[p] \in Bufs /\ stack[p] = <<"user">> /\ want[p] \in Asked
  BY <1>1, AtLabel
     DEF PointerAt, Pointing, ControlInv, TypeOK, FrameAt, PlainStack, OneDeep, InGetblk
<1>3. BufTypes' /\ DiskTypes' /\ ListsAgree' /\ DirtyHome'
  BY <1>1, <1>2, ReadTypes
<1>4. WalkTypes'
  BY <1>1 DEF ControlInv, TypeOK, WalkTypes
<1>5. CASE Goto(p, "biowait") /\ UNCHANGED stack
  <2>1. ProcTypes' /\ Local(p) /\ pc'[p] = "biowait"
    BY <1>1, <1>5 DEF Goto, ControlInv, TypeOK, ProcTypes, Local, Labels
  <2>2. Frame(p)'
    BY <1>1, <1>2, <1>5, <2>1, BufCacheAssumption
       DEF Frame, FrameAt, PointerAt, Pointless, BufCacheAssumption
  <2>. QED  BY <1>3, <1>4, <2>1, <2>2, ControlStep
<1>6. CASE Return(p)
  <2>1. ProcTypes' /\ Local(p)
    BY <1>1, <1>6, ReturnFrame DEF ControlInv, TypeOK, ProcTypes, Local
  <2>2. pc'[p] = "user" /\ stack'[p] = <<>>
    BY <1>1, <1>6, ReturnsToUser DEF OneDeep
  <2>3. Frame(p)'
    BY <1>1, <1>2, <2>2 DEF Frame, FrameAt, PlainStack, PointerAt, Pointless, Pointing
  <2>. QED  BY <1>3, <1>4, <2>1, <2>3, ControlStep
<1>. QED  BY <1>5, <1>6 DEF Bread

LEMMA ControlBreadaStart ==
  ASSUME ControlInv, NEW p \in Procs, BreadaStart(p) PROVE ControlInv'
<1>1. /\ pc[p] = "breada_io" /\ StartRead(bp[p], {})
      /\ UNCHANGED <<b_vp, b_lblkno, b_bcount, b_list, bfreelist, freewanted, vnvars,
                     datavars, wchan, panicked>>
      /\ UNCHANGED <<stack, want, todo, err>> /\ cpu' = p /\ pc' = [pc EXCEPT ![p] = "breada_ra"]
      /\ hold' = [hold EXCEPT ![p] = bp[p]] /\ bp' = [bp EXCEPT ![p] = None]
  BY DEF BreadaStart, At, Goto
<1>2. bp[p] \in Bufs /\ stack[p] = <<"user">> /\ want[p] \in Asked
  BY <1>1, AtLabel
     DEF PointerAt, Pointing, ControlInv, TypeOK, FrameAt, PlainStack, OneDeep, InGetblk
<1>3. BufTypes' /\ DiskTypes' /\ ListsAgree' /\ DirtyHome'
  BY <1>1, <1>2, ReadTypes
<1>4. ProcTypes' /\ WalkTypes' /\ Local(p) /\ pc'[p] = "breada_ra" /\ bp'[p] = None
  BY <1>1, <1>2 DEF ControlInv, TypeOK, WalkTypes, ProcTypes, Local, Labels
<1>5. Frame(p)'
  BY <1>1, <1>2, <1>4 DEF Frame, FrameAt, PlainStack, OneDeep, PointerAt, Pointing
<1>. QED  BY <1>3, <1>4, <1>5, ControlStep

LEMMA ControlAhead ==
  ASSUME ControlInv, NEW p \in Procs, AheadStart(p) PROVE ControlInv'
<1> DEFINE b == bp[p]
           C == {} \cup WantB(b, b_flags[b]) \cup WantFree
<1>1. /\ pc[p] = "ra_io" /\ UNCHANGED <<vnvars, datavars, stack, want, hold, todo, err, panicked>>
      /\ cpu' = p /\ pc' = [pc EXCEPT ![p] = "breada_end"] /\ bp' = [bp EXCEPT ![p] = None]
  BY DEF AheadStart, At, Goto
<1>2. b \in Bufs /\ stack[p] = <<"user">> /\ want[p] \in Asked
  BY <1>1, AtLabel
     DEF PointerAt, Pointing, ControlInv, TypeOK, FrameAt, PlainStack, OneDeep, InGetblk
<1>3. ProcTypes' /\ WalkTypes' /\ Local(p) /\ pc'[p] = "breada_end" /\ bp'[p] = None
  BY <1>1, <1>2 DEF ControlInv, TypeOK, WalkTypes, ProcTypes, Local, Labels
<1>4. Frame(p)'
  BY <1>1, <1>2, <1>3 DEF Frame, FrameAt, PlainStack, OneDeep, PointerAt, Pointing
<1>5. CASE StartRead(b, {"ASYNC"})
           /\ UNCHANGED <<b_vp, b_lblkno, b_bcount, b_list, bfreelist, freewanted, wchan>>
  <2>1. BufTypes' /\ DiskTypes' /\ ListsAgree' /\ DirtyHome'
    BY <1>1, <1>2, <1>5, ReadTypes
  <2>. QED  BY <1>3, <1>4, <2>1, ControlStep
<1>6. CASE Free(bfreelist, b_list[b], b, b_flags[b], C) /\ UNCHANGED io
  <2>1. /\ v_numoutput' \in [Vnodes -> Int] /\ vbwait' \in [Vnodes -> BOOLEAN]
        /\ tapes' \subseteq Tapes /\ io' \subseteq Bufs /\ b_fresh' \in [Bufs -> BOOLEAN]
        /\ d_fresh' \in [Blocks -> BOOLEAN]
    BY <1>1, <1>6 DEF ControlInv, TypeOK, vnvars, datavars
  <2> HIDE DEF C, b
  <2>. QED  BY <1>1, <1>2, <1>3, <1>4, <1>6, <2>1, AsItIs, ControlFree
<1>. QED  BY <1>5, <1>6 DEF AheadStart, brelse, brelseFrom

(* vinvalbuf() invalidates a buffer. *)
LEMMA ControlInvalidate ==
  ASSUME ControlInv, NEW p \in Procs, VinvalDrop(p) PROVE ControlInv'
<1> DEFINE b == bp[p]
           fl == (b_flags[b] \cup {"BUSY"}) \cup
                 (IF b_vp[b] = want[p].vp THEN {"INVAL"} ELSE {})
           l == NewList(b_vp[b], b_flags[b])
           C == {} \cup WantB(b, fl) \cup WantFree
           next == IF todo[p] = {} THEN "vinval" ELSE "vinval_scan"
<1>1. pc[p] = "vinval_take" /\ Invalidate(p)
  BY DEF VinvalDrop, At
<1>2. b \in Bufs /\ stack[p] = <<"user">> /\ want[p] \in Asked
  BY <1>1, AtLabel
     DEF PointerAt, Pointing, ControlInv, TypeOK, FrameAt, PlainStack, OneDeep, InGetblk
<1>3. CASE b_vp[b] # None
  <2>1. /\ Free(FreeWithout(b), l, b, fl, C)
        /\ d_fresh' = d_fresh \/ d_fresh' = [d_fresh EXCEPT ![<<b_vp[b], b_lblkno[b]>>] = TRUE]
        /\ bp' = [bp EXCEPT ![p] = None] /\ cpu' = p /\ pc' = [pc EXCEPT ![p] = next]
        /\ UNCHANGED <<b_fresh, vnvars, io, stack, want, hold, todo, err, panicked>>
    BY <1>1, <1>3 DEF Invalidate, brelseFrom, Goto
  <2>2. d_fresh' \in [Blocks -> BOOLEAN]
    BY <2>1 DEF ControlInv, TypeOK
  <2>3. /\ v_numoutput' \in [Vnodes -> Int] /\ vbwait' \in [Vnodes -> BOOLEAN]
        /\ tapes' \subseteq Tapes /\ io' \subseteq Bufs /\ b_fresh' \in [Bufs -> BOOLEAN]
    BY <2>1 DEF ControlInv, TypeOK, vnvars
  <2>4. next \in {"vinval", "vinval_scan"}
    OBVIOUS
  <2>5. ProcTypes' /\ WalkTypes' /\ Local(p) /\ pc'[p] = next /\ bp'[p] = None
    BY <2>1, <2>4 DEF ControlInv, TypeOK, WalkTypes, ProcTypes, Local, Labels
  <2>6. Frame(p)'
    BY <1>2, <2>1, <2>4, <2>5 DEF Frame, FrameAt, PlainStack, OneDeep, PointerAt, Pointing
  <2>7. fl \in SUBSET Flags /\ ("DELWRI" \in fl <=> "DELWRI" \in b_flags[b])
    BY <1>2 DEF ControlInv, TypeOK, Flags
  <2>8. FreeWithout(b) \in [Queues -> Seq(Bufs)]
    BY <1>2, FreeWithoutType DEF ControlInv
  <2>9. l \in Vnodes \X Kinds /\ ("DELWRI" \in b_flags[b] <=> l[2] = "dirty")
    BY <1>2, <1>3 DEF ControlInv, TypeOK, NewList, Kinds
  <2>10. l \in Lists /\ l # None
    BY <2>9, BufCacheAssumption DEF Lists, BufCacheAssumption
  <2> HIDE DEF C, fl, l, b, next
  <2>11. "DELWRI" \in fl <=> l[2] = "dirty"
    BY <2>7, <2>9
  <2>. QED  BY <1>2, <1>3, <2>1, <2>2, <2>3, <2>5, <2>6, <2>7, <2>8, <2>10, <2>11, ControlFree
<1>4. CASE b_vp[b] = None
  BY <1>1, <1>4, ControlPanic DEF Invalidate
<1>. QED  BY <1>3, <1>4

(* A process gives its buffer back. *)
LEMMA ControlForget ==
  ASSUME ControlInv, NEW p \in Procs, Holding(p), Forget(p), UNCHANGED <<vnvars, io, cpu, pc, stack>>,
         NEW l \in Lists, NEW fl \in SUBSET Flags, NEW C,
         Free(bfreelist, l, bp[p], fl, C),
         b_vp[bp[p]] = None <=> l = None,
         l # None => ("DELWRI" \in fl <=> l[2] = "dirty"),
         "DELWRI" \in fl => b_vp[bp[p]] # None,
         b_fresh' \in [Bufs -> BOOLEAN], d_fresh' \in [Blocks -> BOOLEAN]
  PROVE  ControlInv'
<1>1. pc[p] = "user" /\ bp[p] \in Bufs /\ stack[p] = <<>>
  BY UserHolds
<1>2. /\ bp' = [bp EXCEPT ![p] = None] /\ want' = [want EXCEPT ![p] = None]
      /\ UNCHANGED <<hold, todo, err, panicked, v_numoutput, vbwait, tapes>>
  BY DEF Forget, vnvars
<1>3. /\ v_numoutput' \in [Vnodes -> Int] /\ vbwait' \in [Vnodes -> BOOLEAN]
      /\ tapes' \subseteq Tapes /\ io' \subseteq Bufs /\ bfreelist \in [Queues -> Seq(Bufs)]
  BY <1>2 DEF ControlInv, TypeOK
<1>4. ProcTypes' /\ WalkTypes' /\ Local(p) /\ bp'[p] = None
  BY <1>2 DEF ControlInv, TypeOK, WalkTypes, ProcTypes, Local
<1>5. Frame(p)'
  BY <1>1, <1>4 DEF Frame, FrameAt, PlainStack, PointerAt, Pointing
<1>. QED  BY <1>1, <1>2, <1>3, <1>4, <1>5, ControlFree

LEMMA ControlUserBrelse ==
  ASSUME ControlInv, NEW p \in Procs, UserBrelse(p) PROVE ControlInv'
<1> DEFINE b == bp[p]
           C == {} \cup WantB(b, b_flags[b]) \cup WantFree
<1>1. /\ Holding(p) /\ Free(bfreelist, b_list[b], b, b_flags[b], C) /\ Forget(p)
      /\ UNCHANGED <<vnvars, io, datavars, cpu, pc, stack>>
  BY DEF UserBrelse, brelse, brelseFrom
<1>2. b_fresh' \in [Bufs -> BOOLEAN] /\ d_fresh' \in [Blocks -> BOOLEAN] /\ b \in Bufs
  BY <1>1, UserHolds DEF datavars, ControlInv, TypeOK
<1> HIDE DEF C
<1>. QED  BY <1>1, <1>2, AsItIs, ControlForget

LEMMA ControlUserIndirect ==
  ASSUME ControlInv, NEW p \in Procs, UserIndirect(p) PROVE ControlInv'
<1> DEFINE b == bp[p]
           fl == b_flags[b] \cup {"DELWRI", "DONE"}
           C == {} \cup WantB(b, fl) \cup WantFree
<1>1. PICK v \in Vnodes : Free(bfreelist, <<v, "dirty">>, b, fl, C)
  BY DEF UserIndirect, brelseFrom
<1>2. /\ Holding(p) /\ Modify(b) /\ Forget(p) /\ b_vp[b] # None
      /\ UNCHANGED <<vnvars, io, cpu, pc, stack>>
  BY DEF UserIndirect, MayWrite
<1>3. b \in Bufs
  BY <1>2, UserHolds
<1>4. b_fresh' \in [Bufs -> BOOLEAN] /\ d_fresh' \in [Blocks -> BOOLEAN]
  BY <1>2, <1>3, ModifyTypes DEF ControlInv
<1>5. fl \in SUBSET Flags /\ "DELWRI" \in fl
  BY <1>3 DEF ControlInv, TypeOK, Flags
<1>6. <<v, "dirty">> \in Lists /\ <<v, "dirty">> # None /\ <<v, "dirty">>[2] = "dirty"
  BY BufCacheAssumption DEF Lists, Kinds, BufCacheAssumption
<1> HIDE DEF C, fl
<1>. QED  BY <1>1, <1>2, <1>3, <1>4, <1>5, <1>6, ControlForget

LEMMA ControlUserBdwrite ==
  ASSUME ControlInv, NEW p \in Procs, UserBdwrite(p) PROVE ControlInv'
<1> DEFINE b == bp[p]
           fl == b_flags[b] \cup {"DELWRI"}
           fa == fl \cup {"ASYNC"}
           fd == fl \cup {"DONE"}
           list == IF Has(b, "DELWRI") THEN b_list[b] ELSE <<b_vp[b], "dirty">>
           C == {} \cup WantB(b, fd) \cup WantFree
<1>1. Holding(p)
  BY DEF UserBdwrite, MayWrite
<1>2. pc[p] = "user" /\ b \in Bufs /\ stack[p] = <<>>
  BY <1>1, UserHolds
<1>3. CASE b_vp[b] = None
  BY <1>3, ControlPanic DEF UserBdwrite
<1>4. CASE b_vp[b] # None
  <2>1. Modify(b)
    BY <1>4 DEF UserBdwrite
  <2>2. b_fresh' \in [Bufs -> BOOLEAN] /\ d_fresh' \in [Blocks -> BOOLEAN]
    BY <1>2, <2>1, ModifyTypes DEF ControlInv
  <2>3. CASE b_vp[b] \in tapes
    <3>1. /\ bwrite(b, fa) /\ AfterStrategy(p, fa, "user") /\ want' = [want EXCEPT ![p] = None]
          /\ UNCHANGED <<bfreelist, wchan, bp, hold, todo, err, panicked>>
      BY <1>4, <2>3 DEF UserBdwrite
    <3>2. fa \in SUBSET Flags /\ b_flags[b] \subseteq fa /\ "DELWRI" \in fa
      BY <1>2 DEF ControlInv, TypeOK, Flags
    <3>3. /\ bfreelist' \in [Queues -> Seq(Bufs)]
          /\ todo' \in [Procs -> SUBSET Bufs] /\ want' \in [Procs -> Request \cup {None}]
          /\ bp' \in [Procs -> Bufs \cup {None}]
          /\ \A q \in Procs \ {p} : want'[q] = want[q] /\ bp'[q] = bp[q]
      BY <3>1 DEF ControlInv, TypeOK
    <3>4. "user" \in Nexts /\ bp'[p] # None /\ PlainStack("user", stack[p])
      BY <1>2, <3>1, BufCacheAssumption DEF Nexts, BufCacheAssumption, PlainStack
    <3> HIDE DEF fa, b
    <3>. QED  BY <1>2, <1>4, <2>2, <3>1, <3>2, <3>3, <3>4, ControlWrite
  <2>4. CASE b_vp[b] \notin tapes
    <3>1. /\ Free(bfreelist, list, b, fd, C) /\ Forget(p) /\ UNCHANGED <<vnvars, io, cpu, pc, stack>>
      BY <1>4, <2>4 DEF UserBdwrite, brelseFrom
    <3>2. fd \in SUBSET Flags /\ "DELWRI" \in fd
      BY <1>2 DEF ControlInv, TypeOK, Flags
    <3>3. list \in Lists /\ list # None /\ list[2] = "dirty"
      <4>1. CASE Has(b, "DELWRI")
        BY <1>2, <1>4, <4>1, AsItIs DEF Has
      <4>2. CASE ~Has(b, "DELWRI")
        <5>1. list = <<b_vp[b], "dirty">> /\ b_vp[b] \in Vnodes
          BY <1>2, <1>4, <4>2 DEF ControlInv, TypeOK
        <5>. QED  BY <5>1, BufCacheAssumption DEF Lists, Kinds, BufCacheAssumption
      <4>. QED  BY <4>1, <4>2
    <3> HIDE DEF C, fd, list
    <3>. QED  BY <1>1, <1>2, <1>4, <2>2, <3>1, <3>2, <3>3, ControlForget
  <2>. QED  BY <2>3, <2>4
<1>. QED  BY <1>3, <1>4

(* The disk interrupt: no process moves. *)
LEMMA ControlBiodone ==
  ASSUME ControlInv, NEW b \in Bufs, NEW failed \in BOOLEAN, Biodone(b, failed)
  PROVE  ControlInv'
<1> DEFINE fl  == b_flags[b] \cup {"DONE"} \cup (IF failed THEN {"ERROR"} ELSE {})
           v   == b_vp[b]
           wr  == "READ" \notin fl
           out == IF wr /\ v # None THEN v_numoutput[v] - 1 ELSE 0
           idle == wr /\ v # None /\ vbwait[v] /\ out <= 0
           chans == IF idle THEN {v} ELSE {}
           C == chans \cup WantB(b, fl) \cup WantFree
<1>1. CASE Has(b, "DONE") \/ (idle /\ out < 0)
  BY <1>1, ControlPanic DEF Biodone
<1>2. CASE ~(Has(b, "DONE") \/ (idle /\ out < 0))
  <2>1. /\ io' = io \ {b}
        /\ v_numoutput' = IF wr /\ v # None THEN [v_numoutput EXCEPT ![v] = out]
                          ELSE v_numoutput
        /\ vbwait' = IF idle THEN [vbwait EXCEPT ![v] = FALSE] ELSE vbwait
        /\ UNCHANGED <<tapes, cpu, pc, locals, panicked>>
    BY <1>2 DEF Biodone
  <2>2. \/ /\ UNCHANGED b_fresh
           /\ \/ UNCHANGED d_fresh
              \/ d_fresh' = [d_fresh EXCEPT ![<<v, b_lblkno[b]>>] = b_fresh[b]]
        \/ /\ UNCHANGED d_fresh
           /\ b_fresh' = [b_fresh EXCEPT ![b] = ~failed /\ d_fresh[<<v, b_lblkno[b]>>]]
    BY <1>2 DEF Biodone
  <2>3. \/ Free(bfreelist, b_list[b], b, fl, C)
        \/ /\ b_flags' = [b_flags EXCEPT ![b] = fl \ {"WANTED"}] /\ Wakeup(chans \cup {b})
           /\ UNCHANGED <<b_vp, b_lblkno, b_bcount, b_list, bfreelist, freewanted>>
    BY <1>2 DEF Biodone, brelse, brelseFrom
  <2>4. b_fresh' \in [Bufs -> BOOLEAN] /\ d_fresh' \in [Blocks -> BOOLEAN]
    BY <2>2 DEF ControlInv, TypeOK
  <2>5. /\ v_numoutput' \in [Vnodes -> Int] /\ vbwait' \in [Vnodes -> BOOLEAN]
        /\ tapes' \subseteq Tapes /\ io' \subseteq Bufs
    <3>1. v_numoutput \in [Vnodes -> Int] /\ vbwait \in [Vnodes -> BOOLEAN]
          /\ v \in Vnodes \cup {None} /\ tapes \subseteq Tapes /\ io \subseteq Bufs
      BY DEF ControlInv, TypeOK
    <3>2. \/ UNCHANGED v_numoutput
          \/ v \in Vnodes /\ v_numoutput' = [v_numoutput EXCEPT ![v] = v_numoutput[v] - 1]
      BY <2>1, <3>1
    <3>3. v_numoutput' \in [Vnodes -> Int]
      BY <3>1, <3>2
    <3>4. vbwait' \in [Vnodes -> BOOLEAN]
      BY <2>1, <3>1
    <3>. QED  BY <2>1, <3>1, <3>3, <3>4
  <2>6. fl \in SUBSET Flags /\ ("DELWRI" \in fl <=> "DELWRI" \in b_flags[b])
    BY DEF ControlInv, TypeOK, Flags
  <2>7. UNCHANGED <<cpu, pc, stack, want, err, bp, hold, todo, panicked>>
    BY <2>1 DEF locals
  <2>8. ProcTypes' /\ WalkTypes' /\ Control'
    BY <2>7 DEF ControlInv, TypeOK, ProcTypes, WalkTypes, Control, Frame
  <2> HIDE DEF fl, C, chans
  <2>9. BufTypes' /\ wchan' \in [Procs -> Chans] /\ ListsAgree' /\ DirtyHome'
    <3>1. CASE Free(bfreelist, b_list[b], b, fl, C)
      <4>1. BufTypes' /\ wchan' \in [Procs -> Chans]
        BY <2>6, <3>1, AsItIs, FreeTypes DEF ControlInv
      <4>2. ListsAgree' /\ DirtyHome'
        BY <2>6, <3>1, AsItIs, FreeAgrees
      <4>. QED  BY <4>1, <4>2
    <3>2. CASE /\ b_flags' = [b_flags EXCEPT ![b] = fl \ {"WANTED"}] /\ Wakeup(chans \cup {b})
               /\ UNCHANGED <<b_vp, b_lblkno, b_bcount, b_list, bfreelist, freewanted>>
      <4>1. /\ b_flags' \in [Bufs -> SUBSET Flags]
            /\ \A c \in Bufs : "DELWRI" \in b_flags'[c] <=> "DELWRI" \in b_flags[c]
        BY <2>6, <3>2 DEF ControlInv, TypeOK
      <4>2. wchan' \in [Procs -> Chans]
        BY <3>2 DEF Wakeup, ControlInv, TypeOK, Chans
      <4>3. BufTypes'
        BY <3>2, <4>1 DEF BufTypes, ControlInv, TypeOK, Lists
      <4>. QED  BY <3>2, <4>1, <4>2, <4>3, KeepsAgreeing
    <3>. QED  BY <2>3, <3>1, <3>2
  <2>10. DiskTypes'
    BY <2>4, <2>5, <2>7, <2>9 DEF DiskTypes, ControlInv, TypeOK
  <2>11. TypeOK'
    BY <2>8, <2>9, <2>10 DEF TypeOK, BufTypes, DiskTypes, ProcTypes, WalkTypes, Lists, Chans
  <2>. QED  BY <2>8, <2>9, <2>11 DEF ControlInv
<1>. QED  BY <1>1, <1>2

LEMMA ControlInit ==
  ASSUME Init PROVE ControlInv
<1>1. TypeOK
  <2>1. bfreelist \in [Queues -> Seq(Bufs)]
    <3>1. PICK s \in [1..Cardinality(Bufs) -> Bufs] :
            bfreelist = [q \in Queues |-> IF q = "AGE" THEN s ELSE <<>>]
      BY DEF Init
    <3>2. Cardinality(Bufs) \in Nat
      BY BufCacheAssumption, FS_CardinalityType DEF BufCacheAssumption
    <3>3. s \in Seq(Bufs)
      BY <3>2
    <3>. QED  BY <3>1, <3>3
  <2>2. \A v \in Vnodes : 0 \in Int
    OBVIOUS
  <2>3. /\ b_flags \in [Bufs -> SUBSET Flags] /\ pc \in [Procs -> Labels]
        /\ stack \in [Procs -> Seq(Labels)]
    BY DEF Init, Flags, Labels
  <2>. QED  BY <2>1, <2>2, <2>3 DEF Init, TypeOK
<1>2. Control
  BY DEF Init, Control, Frame, FrameAt, PlainStack, PointerAt, Pointing, Pointless
<1>3. ListsAgree /\ DirtyHome
  BY DEF Init, ListsAgree, DirtyHome, Has
<1>. QED  BY <1>1, <1>2, <1>3 DEF ControlInv

LEMMA ControlNext ==
  ASSUME ControlInv, [Next]_vars PROVE ControlInv'
<1>1. CASE UNCHANGED vars
  <2>1. UNCHANGED <<b_flags, b_vp, b_lblkno, b_bcount, b_list, bfreelist, freewanted, v_numoutput,
                    vbwait, tapes, io, b_fresh, d_fresh, cpu, pc, wchan, stack, want, err, bp,
                    hold, todo, panicked>>
    BY <1>1 DEF vars, bufvars, vnvars, datavars, locals
  <2>2. TypeOK'
    BY <2>1 DEF ControlInv, TypeOK
  <2>. QED  BY <2>1, <2>2 DEF ControlInv, Control, Frame, ListsAgree, DirtyHome, Has
<1>2. ASSUME NEW b \in Bufs, Interrupt(b) PROVE ControlInv'
  BY <1>2, ControlBiodone DEF Interrupt
<1>3. ASSUME NEW p \in Procs, Step(p) PROVE ControlInv'
  BY <1>3, ControlSearch, ControlBusy, ControlHit, ControlStray, ControlNoneFree, ControlDirty,
     ControlNew, ControlSetAge, ControlBread, ControlBreada, ControlBreadaStart, ControlAhead,
     ControlBiowait, ControlRelease, ControlVflush, ControlVflushWrite, ControlVflushSleep,
     ControlVinval, ControlBusy, ControlVinvalSave, ControlInvalidate, ControlUserBrelse,
     ControlUserBwrite, ControlUserBdwrite, ControlUserIndirect
     DEF Step
<1>. QED  BY <1>1, <1>2, <1>3, ControlEnters DEF Next, Halted

LEMMA ControlAlways == Spec => []ControlInv
  BY ControlInit, ControlNext, PTL DEF Spec

(* Every variable of the cache keeps its type: in particular a process     *)
(* always has a caller to return to and never uses a null pointer for a    *)
(* buffer, whatever getblk(), bread(), breada(), bwrite(), vflushbuf() and *)
(* vinvalbuf() call each other for.                                        *)
THEOREM TypeCorrect == Spec => []TypeOK
<1>1. ControlInv => TypeOK
  BY DEF ControlInv
<1>. QED  BY <1>1, ControlAlways, PTL

(* brelse(), bwrite(), bdwrite(), reassignbuf(), bgetvp() and vinvalbuf()  *)
(* keep a vnode's clean and dirty lists in agreement with B_DELWRI, under  *)
(* disk errors too: a flush finds every delayed write.                     *)
THEOREM ListsAlwaysAgree == Spec => []ListsAgree
<1>1. ControlInv => ListsAgree
  BY DEF ControlInv
<1>. QED  BY <1>1, ControlAlways, PTL
=============================================================================
