-------------------------------- MODULE UnpGC -------------------------------
(***************************************************************************)
(* Open files passed over Unix-domain sockets: the reference counts of the *)
(* file table (closef() in sys/kern/kern_descrip.c) and the collector of   *)
(* files that only messages refer to (sys/kern/uipc_usrreq.c), with the    *)
(* parts of soclose(), sofree(), sorflush() and soreceive() that they use. *)
(*                                                                         *)
(* The files are connected stream sockets, so that a file and its socket   *)
(* are one thing.  Messages carry one right each.  Nothing here sleeps: a  *)
(* system call runs to its end before the next one.  Closing is recursive  *)
(* in the code (a socket that is closed discards the rights in its buffer, *)
(* which closes files); work holds what the running call still has to do.  *)
(***************************************************************************)
EXTENDS Integers, Sequences, FiniteSets, Functions

CONSTANTS NFILE,      \* entries of the file table
          MaxFds,     \* descriptors that the processes have of one file
          MaxRights,  \* bound on unp_rights
          None

ASSUME TableAssumption == NFILE \in Nat /\ MaxFds \in Nat /\ MaxRights \in Nat

Files == 1 .. NFILE

VARIABLES
  f_count, f_msgcount, \* reference counts, and those from messages among them
  fds,                 \* the number of descriptors of a file
  f_data,              \* the files with a socket
  so_pcb,              \* the sockets with a protocol control block
  nofdref,             \* the sockets with SS_NOFDREF
  unp_conn,            \* the peer of a socket
  so_rcv,              \* the rights in a socket's receive buffer
  unp_rights, unp_gcing,
  fmark, fdefer,       \* the files with FMARK and FDEFER
  work,                \* what the call under way has to do, first to last
  panicked

counts  == <<f_count, f_msgcount, unp_rights>>
sockets == <<f_data, so_pcb, nofdref, unp_conn, so_rcv>>
gcvars  == <<unp_gcing, fmark, fdefer>>
vars    == <<counts, fds, sockets, gcvars, work, panicked>>

Init ==
  /\ f_count = [f \in Files |-> 0] /\ f_msgcount = [f \in Files |-> 0]
  /\ fds = [f \in Files |-> 0] /\ f_data = {} /\ so_pcb = {} /\ nofdref = {}
  /\ unp_conn = [f \in Files |-> None] /\ so_rcv = [f \in Files |-> <<>>]
  /\ unp_rights = 0 /\ unp_gcing = FALSE /\ fmark = {} /\ fdefer = {}
  /\ work = <<>> /\ panicked = FALSE

Held(f) == fds[f] > 0

Idle == work = <<>> /\ ~panicked

(* A piece of work: a call with a file, or a loop at a file. *)
Step(what, f) == [do |-> what, f |-> f]

-----------------------------------------------------------------------------
(* System calls.                                                           *)

(* socketpair(): falloc() takes free entries; f_msgcount is not set. *)
Socketpair ==
  \E f \in Files, g \in Files :
    /\ Idle /\ f < g /\ f_count[f] = 0 /\ f_count[g] = 0
    /\ f_count' = [f_count EXCEPT ![f] = 1, ![g] = 1]
    /\ fds' = [fds EXCEPT ![f] = 1, ![g] = 1]
    /\ f_data' = f_data \cup {f, g} /\ so_pcb' = so_pcb \cup {f, g}
    /\ unp_conn' = [unp_conn EXCEPT ![f] = g, ![g] = f]
    /\ UNCHANGED <<f_msgcount, unp_rights, nofdref, so_rcv, gcvars, work, panicked>>

(* dup(), fork() *)
Dup(f) ==
  /\ Idle /\ Held(f) /\ fds[f] < MaxFds
  /\ fds' = [fds EXCEPT ![f] = @ + 1]
  /\ f_count' = [f_count EXCEPT ![f] = @ + 1]
  /\ UNCHANGED <<f_msgcount, unp_rights, sockets, gcvars, work, panicked>>

(* unp_internalize(): the message's references are counted. *)
unp_internalize(f) ==
  /\ f_count' = [f_count EXCEPT ![f] = @ + 1]
  /\ f_msgcount' = [f_msgcount EXCEPT ![f] = @ + 1]
  /\ unp_rights' = unp_rights + 1

(* sendmsg() on socket s of a right to f. *)
Sendmsg(s, f) ==
  /\ Idle /\ Held(s) /\ Held(f) /\ unp_conn[s] # None /\ unp_rights < MaxRights
  /\ unp_internalize(f)
  /\ so_rcv' = [so_rcv EXCEPT ![unp_conn[s]] = Append(@, f)]
  /\ UNCHANGED <<fds, f_data, so_pcb, nofdref, unp_conn, gcvars, work, panicked>>

(* sendto() of a right on a datagram socket (one outside the model) fails  *)
(* after unp_internalize(), for example because the name is not bound: the *)
(* control message is freed, its references are not given back.            *)
SendtoFails(f) ==
  /\ Idle /\ Held(f) /\ unp_rights < MaxRights
  /\ unp_internalize(f)
  /\ UNCHANGED <<fds, sockets, gcvars, work, panicked>>

Received(s) ==
  /\ Idle /\ Held(s) /\ so_rcv[s] # <<>>
  /\ so_rcv' = [so_rcv EXCEPT ![s] = Tail(@)]
  /\ UNCHANGED <<f_data, so_pcb, nofdref, unp_conn, gcvars, panicked>>

(* recvmsg(): unp_externalize() makes a descriptor of the right, *)
Recvmsg(s) ==
  LET f == Head(so_rcv[s])
  IN /\ Received(s)
     /\ fds[f] < MaxFds
     /\ fds' = [fds EXCEPT ![f] = @ + 1]
     /\ f_msgcount' = [f_msgcount EXCEPT ![f] = @ - 1]
     /\ unp_rights' = unp_rights - 1
     /\ UNCHANGED <<f_count, work>>

(* or discards it when the process has no descriptor left (EMSGSIZE). *)
RecvmsgFull(s) ==
  /\ Received(s)
  /\ work' = <<Step("unp_discard", Head(so_rcv[s]))>>
  /\ UNCHANGED <<counts, fds>>

(* read() of a message with a right: soreceive() frees the control mbuf    *)
(* when the caller has not asked for it, and its references stay counted.  *)
Read(s) == Received(s) /\ UNCHANGED <<counts, fds, work>>

(* close() *)
Close(f) ==
  /\ Idle /\ Held(f)
  /\ fds' = [fds EXCEPT ![f] = @ - 1]
  /\ work' = <<Step("closef", f)>>
  /\ UNCHANGED <<counts, sockets, gcvars, panicked>>

-----------------------------------------------------------------------------
(* Closing.                                                                *)

Doing(what) == work # <<>> /\ ~panicked /\ Head(work).do = what

Todo(steps) == work' = steps \o Tail(work)

Panic == panicked' = TRUE /\ UNCHANGED <<counts, fds, sockets, gcvars, work>>

(* closef(): the last reference closes the socket, unless soo_close()      *)
(* finds that it has none any more.                                        *)
Closef ==
  LET f == Head(work).f
  IN /\ Doing("closef")
     /\ IF f_count[f] < 1
        THEN Panic
        ELSE /\ IF f_count[f] > 1
                THEN f_count' = [f_count EXCEPT ![f] = @ - 1] /\ Todo(<<>>)
                ELSE /\ Todo((IF f \in f_data
                              THEN <<Step("detach", f), Step("discard", f)>> ELSE <<>>)
                             \o <<Step("closed", f)>>)
                     /\ UNCHANGED f_count
             /\ UNCHANGED <<f_msgcount, unp_rights, fds, sockets, gcvars, panicked>>

(* soclose(): disconnect and unp_detach(), which calls unp_gc() while any  *)
(* right is counted, unless that is running already.                       *)
Detach ==
  LET f == Head(work).f
      peer == unp_conn[f]
      gc == unp_rights # 0 /\ ~unp_gcing
  IN /\ Doing("detach")
     /\ IF f \notin so_pcb
        THEN Todo(<<>>) /\ UNCHANGED <<so_pcb, unp_conn, gcvars>>
        ELSE /\ so_pcb' = so_pcb \ {f}
             /\ unp_conn' = [g \in Files |-> IF g \in {f, peer} THEN None ELSE unp_conn[g]]
             /\ unp_gcing' = (unp_gcing \/ gc)
             /\ Todo(IF gc THEN <<Step("mark", 1)>> ELSE <<>>)
             /\ UNCHANGED <<fmark, fdefer>>
     /\ UNCHANGED <<counts, fds, f_data, nofdref, so_rcv, panicked>>

(* soclose()'s label discard, sofree() and sorflush(): unp_dispose() gets  *)
(* the rights that were in the buffer.                                     *)
Discard ==
  LET f == Head(work).f
  IN /\ Doing("discard")
     /\ IF f \in nofdref
        THEN Panic
        ELSE /\ nofdref' = nofdref \cup {f}
             /\ so_rcv' = [so_rcv EXCEPT ![f] = <<>>]
             /\ Todo([i \in DOMAIN so_rcv[f] |-> Step("unp_discard", so_rcv[f][i])])
             /\ UNCHANGED <<counts, fds, f_data, so_pcb, unp_conn, gcvars, panicked>>

unp_discard ==
  LET f == Head(work).f
  IN /\ Doing("unp_discard")
     /\ f_msgcount' = [f_msgcount EXCEPT ![f] = @ - 1]
     /\ unp_rights' = unp_rights - 1
     /\ Todo(<<Step("closef", f)>>)
     /\ UNCHANGED <<f_count, fds, sockets, gcvars, panicked>>

(* The end of soo_close() and closef(). *)
Closed ==
  LET f == Head(work).f
  IN /\ Doing("closed")
     /\ f_data' = f_data \ {f} /\ nofdref' = nofdref \ {f}
     /\ f_count' = [f_count EXCEPT ![f] = 0]
     /\ Todo(<<>>)
     /\ UNCHANGED <<f_msgcount, unp_rights, fds, so_pcb, unp_conn, so_rcv, gcvars, panicked>>

-----------------------------------------------------------------------------
(* unp_gc().                                                               *)

(* unp_scan(..., unp_mark) *)
Scan(f, marked, deferred) ==
  LET new == (IF f \in f_data THEN Range(so_rcv[f]) ELSE {}) \ marked
  IN fmark' = marked \cup new /\ fdefer' = deferred \cup new

(* Mutant: the files found in buffers are marked, their own buffers are    *)
(* not looked into.                                                        *)
MarkOnce ==
  LET f == Head(work).f
  IN /\ Doing("mark")
     /\ IF f > NFILE
        THEN Todo(<<Step("sweep", 1)>>) /\ UNCHANGED <<fmark, fdefer>>
        ELSE /\ Todo(<<Step("mark", f + 1)>>)
             /\ IF f_count[f] # 0 /\ f \notin fmark /\ f_count[f] # f_msgcount[f]
                THEN Scan(f, fmark \cup {f}, fdefer)
                ELSE UNCHANGED <<fmark, fdefer>>
     /\ UNCHANGED <<counts, fds, sockets, unp_gcing, panicked>>

(* One turn of the marking loop: a file that a process has, or one that    *)
(* was found in a marked file's buffer, is marked and its buffer scanned.  *)
Mark ==
  LET f == Head(work).f
  IN /\ Doing("mark")
     /\ IF f > NFILE
        THEN Todo(<<Step(IF fdefer # {} THEN "mark" ELSE "sweep", 1)>>)
             /\ UNCHANGED <<fmark, fdefer>>
        ELSE /\ Todo(<<Step("mark", f + 1)>>)
             /\ IF f_count[f] # 0 /\ f \in fdefer
                THEN Scan(f, fmark, fdefer \ {f})
                ELSE IF f_count[f] # 0 /\ f \notin fmark /\ f_count[f] # f_msgcount[f]
                THEN Scan(f, fmark \cup {f}, fdefer)
                ELSE UNCHANGED <<fmark, fdefer>>
     /\ UNCHANGED <<counts, fds, sockets, unp_gcing, panicked>>

(* One turn of the last loop: an unmarked file with references from        *)
(* messages only is emptied of them.                                       *)
Unreferenced(f) == f_count[f] # 0 /\ f_count[f] = f_msgcount[f] /\ f \notin fmark

Sweep ==
  LET f == Head(work).f
  IN /\ Doing("sweep")
     /\ IF f > NFILE
        THEN /\ unp_gcing' = FALSE /\ fmark' = {} /\ fdefer' = {}
             /\ Todo(<<>>)
        ELSE /\ Todo((IF Unreferenced(f) THEN <<Step("drain", f)>> ELSE <<>>)
                     \o <<Step("sweep", f + 1)>>)
             /\ UNCHANGED gcvars
     /\ UNCHANGED <<counts, fds, sockets, panicked>>

(* Mutant: the file loses one reference only. *)
DrainOnce ==
  LET f == Head(work).f
  IN /\ Doing("drain")
     /\ Todo(IF f_msgcount[f] # 0 THEN <<Step("unp_discard", f)>> ELSE <<>>)
     /\ UNCHANGED <<counts, fds, sockets, gcvars, panicked>>

(* The inner loop: all its references are discarded. *)
Drain ==
  LET f == Head(work).f
  IN /\ Doing("drain")
     /\ Todo(IF f_msgcount[f] # 0 THEN <<Step("unp_discard", f), Step("drain", f)>> ELSE <<>>)
     /\ UNCHANGED <<counts, fds, sockets, gcvars, panicked>>

(* After a panic nothing happens any more. *)
Halted == panicked /\ UNCHANGED vars

Syscall ==
  \/ Socketpair
  \/ \E f \in Files : \/ Dup(f) \/ SendtoFails(f) \/ Close(f)
                      \/ Recvmsg(f) \/ RecvmsgFull(f) \/ Read(f)
                      \/ \E s \in Files : Sendmsg(s, f)

Next ==
  \/ Syscall
  \/ Closef \/ Detach \/ Discard \/ unp_discard \/ Closed
  \/ Mark \/ Sweep \/ Drain \/ Halted

Spec == Init /\ [][Next]_vars

-----------------------------------------------------------------------------
(* Correctness.                                                            *)

(* The files that can be reached from a set of files: from buffer to       *)
(* buffer, at most NFILE times.                                            *)
ReachableFrom(roots) ==
  LET R[n \in 0 .. NFILE] ==
        IF n = 0 THEN roots ELSE R[n - 1] \cup UNION {Range(so_rcv[f]) : f \in R[n - 1]}
  IN R[NFILE]

Reachable == ReachableFrom({f \in Files : Held(f)})

(* The references to f that a process can use or come to use. *)
Usable(f) ==
  fds[f] + Cardinality(UNION {{s} \X {i \in DOMAIN so_rcv[s] : so_rcv[s][i] = f}
                                : s \in Reachable})

(* Neither closing nor the collector takes a file away that a process has  *)
(* or can still receive: it is open and counted for every such reference.  *)
KeepsReachable ==
  \A f \in Reachable : f \in f_data /\ f \notin nofdref /\ f_count[f] >= Usable(f)

(* What is open and can be reached neither from a descriptor nor from a    *)
(* file that is being closed.                                              *)
Closing == {work[i].f : i \in {j \in DOMAIN work : work[j].do = "closed"}}

Garbage ==
  {f \in Files : f_count[f] > 0} \ ReachableFrom({g \in Files : Held(g)} \cup Closing)

(* A collection that comes to its end leaves no garbage.                   *)
CollectsGarbage == [][unp_gcing /\ ~unp_gcing' => Garbage' = {}]_vars

(* "closef: count < 1" and "soclose: NOFDREF": no file is closed twice,    *)
(* and no reference is given back that was not counted.                    *)
NoPanic == ~panicked
=============================================================================
