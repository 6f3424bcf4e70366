# TLA+ models of the 4.3BSD-Reno kernel

The repository is the source of the 4.3BSD-Reno distribution: a kernel (`sys/`)
and the user programs, libraries and documents around it.  This directory holds
TLA+ modules that model parts of the kernel, TLC configurations that check them
on small instances, and theorems about them that TLAPS checks.  Every definition
that stands for code is listed in `PROJECT.json` under `map`, with the lines it
stands for.

## 1. Inventory

The kernel is one program that runs on one CPU.  A process inside the kernel is
not preempted: it keeps the CPU until it calls `sleep`/`tsleep` or returns to
user mode.  Interrupts run between any two instructions of a process unless
their class is masked (`splbio`, `splnet`, `splclock`, `splhigh`), and they may
wake processes but never sleep.  All of the kernel's concurrency is between
these actors: processes that interleave at their sleeps, and interrupts that
interleave everywhere else.

| Component | State | Operations | Hard behaviour | What makes it correct |
|---|---|---|---|---|
| Callout queue (`kern_clock.c`) | delta list `calltodo`, free list | `timeout`, `untimeout`, `hardclock`, `softclock` | ticks and changes while `softclock` runs; late calls; the full table | calls are made, never early, in order; changes do not move other calls; entries are conserved |
| Block buffer cache (`vfs_bio.c`) | buffers, hash chains, free lists, vnode lists, output counts | `getblk`, `bread`, `breada`, `bwrite`, `bdwrite`, `brelse`, `biodone`, `vflushbuf`, `vinvalbuf` | sleeping between search and use; completion at interrupt level; errors; reuse of dirty buffers | one buffer per block, exclusive use, reads see the last write, no lost write, no lost wakeup |
| Sleep queues, scheduler (`kern_synch.c`) | sleep queues, run queues, `p_stat`, `p_wchan` | `tsleep`, `sleep`, `wakeup`, `unsleep`, `setrun` | a timeout, a signal and a wakeup for one process | no lost wakeup, one queue at a time, timeouts bound sleeps |
| Signals (`kern_sig.c`) | pending, masked, ignored, caught sets; stopped processes | `psignal`, `issig`, `psig`, `sigprocmask` | stop and continue of a sleeping process | a signal is delivered, a stop is not lost |
| Process life, job control (`kern_fork.c`, `kern_exit.c`, `kern_proc.c`) | process table, process groups, sessions, `pg_jobc` | `fork`, `exit`, `wait`, `setpgid`, `fixjobc` | orphaned groups, exit against wait | `pg_jobc` counts what its comment says; every zombie is reaped once |
| TCP (`netinet/tcp_*.c`) | control block, reassembly queue, timers | segment arrival, output, timers, user requests | lost, duplicated and reordered segments; simultaneous open and close | the stream is delivered in order, once; connections close |
| IP reassembly (`ip_input.c`) | fragment queues | `ip_reass`, `ip_slowtimo` | overlap and loss | a datagram is assembled only from its own fragments |
| ARP (`if_ether.c`) | table of addresses, one held packet per entry | `arpresolve`, `arpinput`, `arptimer` | replies against timeouts | held packets are sent or freed |
| Select (`sys_generic.c`, `uipc_socket2.c`) | `nselcoll`, SSEL, one process per buffer, collisions | `select`, `selscan`, `selwakeup`, `sbselqueue` | data that arrives during a scan; two processes on one buffer; the timeout restarted after each wakeup | nobody sleeps on a ready descriptor; the timeout ends the sleep |
| Sockets (`uipc_socket*.c`) | socket buffers, accept queues | `sosend`, `soreceive`, `sblock`, `soclose` | locks on buffers against disconnection | records are not interleaved; space is conserved |
| Unix-domain sockets (`uipc_usrreq.c`, `closef` in `kern_descrip.c`) | connections, descriptors in flight, `f_count` and `f_msgcount` | `unp_internalize`, `unp_externalize`, `unp_gc` | cycles and chains of descriptors in flight; closing inside closing | what a process can reach stays open, what none can is closed, nothing is closed twice |
| Vnodes, name cache (`vfs_subr.c`, `vfs_cache.c`) | use and hold counts, free list | `vget`, `vrele`, `vgone`, `getnewvnode` | a vnode taken while it is cleaned | no vnode is reused while it is referenced |
| NFS (`nfs/`) | requests, duplicate request cache | retransmission, `nfsrv_getcache` | repeated, late requests | a request that is not idempotent is done once |
| UFS, MFS (`ufs/`) | on-disk structures | allocation, directories | order of writes | |
| Kernel memory (`kern_malloc.c`, `subr_rmap.c`) | buckets, maps | `malloc`, `rmalloc`, `rmfree` | fragmentation, full maps | segments are disjoint and conserved |
| mbufs, terminals, virtual memory, other protocol families, drivers, machine-dependent code | | | | not planned |
| User programs and libraries | | | | outside the kernel |

How they meet: everything that waits uses the sleep queues; `tsleep`, the
protocols' timers and the drivers' watchdogs use the callout queue; every file
system reads and writes through the buffer cache, which is driven from below by
the disk interrupt; sockets sit on the protocols, and file descriptors on
sockets and vnodes.

`PROJECT.json` lists, under `hazards`, the places where this goes wrong in ways
a test would hardly reach, and the properties that would show it.

## 2. Plan

Rows 1 to 6 are built, and of row 8 what section 6 lists; the rest is to come, in
this order.

1. `Timers` (abstract), `Callout`, `Callout_proofs`: the timers everything else
   relies on, with a refinement, proved but for its fairness.
2. `BufCache`, `BufCache_proofs`, `BufCacheOwn_proofs`, `BufCacheBlock_proofs`: the
   component with most interleavings per line.
3. `Synch`, `Synch_proofs`: `kern_synch.c` with `kern_sig.c`, because stopping,
   continuing and sleeping share `p_stat` and cannot be understood apart.
4. `Tcp`, `Tcp_proofs`: two control blocks with their sockets over a network that loses,
   repeats and reorders segments.
5. `UnpGC`, `UnpGC_proofs`: descriptors in flight and their collector.
6. `Select`, `Select_proofs`: the one wait that is not on a single event.
7. `NfsCache` (duplicate requests), `JobControl` (`pg_jobc`, `exit` and `wait`),
   `ResourceMap`, `IPReass`, `Vnodes`.
8. Proofs: the properties of `Tcp` that relate the two hosts and the network.

## 3. The modules and the code

### Timers and Callout (`sys/kern/kern_clock.c`)

`Timers` says what the callout queue promises: a bag of pending calls with the
ticks left to each; a tick brings all of them nearer; a due call, the earliest
first, is made; `untimeout` forgets the earliest call of a function.

`Callout` is the code.  `calltodo` is the delta list, `callfree` the number of
free entries, `softpend` the request for a software interrupt, `soft` and
`firing` where `softclock` is.  `Timeout` and `Untimeout` run at `splhigh` and
are one step each.  `Hardclock` is the top of `hardclock`, which counts on the
late entries and brings the first one after them a tick nearer; `SoftclockStart`,
`SoftclockLoop` and `CallReturn` are the iterations of `softclock`, which calls
the functions with interrupts enabled, so that everything else can happen in
between.  The refinement mapping adds up the deltas: the bag has, for each
entry, its own `c_time` if it is late, or the sum of the positive ones up to it.

### BufCache (`sys/kern/vfs_bio.c`)

Buffers have `b_flags`, the block they belong to, and a place on a vnode list
and on a free list; `io` is what the disk driver holds; `cpu`, `pc`, `stack` and
`wchan` are the processes, which give up the CPU only when they sleep.  A step
is a section at `splbio()`, or a stretch of code that touches only buffers
nobody else may touch; between any two of them the disk interrupt (`Biodone`)
may complete a transfer.  `getblk` is `GetblkSearch`, `GetblkBusy`,
`GetblkHit`, `GetblkStray` and the `Getnewbuf` actions; `bread`, `breada`,
`biowait`, `bwrite`, `bdwrite`, `brelse`, `vflushbuf` and `vinvalbuf` follow the
same pattern.  `VOP_STRATEGY` hands the buffer to the disk and returns, as the drivers'
strategy routines do (section 8 says which do not).  The contents of blocks are two sets of bits: `b_fresh` says that
a buffer holds what was last written to its block, `d_fresh` that the disk does.

### Synch (`sys/kern/kern_synch.c`, `sys/kern/kern_sig.c`)

Each process has its `p_stat`, `p_wchan`, `p_flag` (SSINTR and STIMO), pending
and held signals, and actions; `slpque` is how often the process is on a sleep
queue (`wakeup` walks the whole queue of its channel, so that the order on it is
never seen), `runq` the run queues, `callout` the number of pending
`endtsleep` timers.  `pc` says where the process is: in user mode, in a system
call, in `issig` (with `ret`, the caller), stopped inside `issig`, in `tsleep`
after its first `CURSIG`, after `swtch`, or after its second `CURSIG`, on the
way back to user mode, or dead.  `Tsleep`, `TsleepChecked`, `TsleepResume` and
`TsleepWoken` are the parts of `tsleep` between the places where something else
may run; `Psignal` is the whole of `psignal` with its cases `SignalSleeping`
and `SignalStopped`; `Issig` is the loop of `issig` up to a stop or a return and
`IssigContinued` what follows the stop.  Ghost variables are `awoken`, set by a
`wakeup` of the channel the process waits for, and `status`.

### Tcp (`sys/netinet/tcp_*.c`)

`tcb` is, for each host, a control block with its socket: the fields of `struct
tcpcb` under their names, `t_timer` as the set of timers that run, `so_snd` the
bytes not yet acknowledged, `so_rcv` the number of bytes not yet read and `so_mbcnt`
the storage they take (`Mbuf` for each segment appended, up to `RcvMbmax` or above:
nothing checks it but `sbspace`).  `sent`, `got` and `hungup` are ghosts: what the user
wrote and was given, and whether he called `shutdown` again in FIN_WAIT_2 (section 7).  `net` is the set of
segments on their way to a host.  All of TCP runs at `splnet()`, so that a
segment's arrival (`Deliver`), a timer (`tcp_fasttimo`, `Rexmt`, `Persist`,
`TwoMSL`, `Keepalive`, `GivesUp`) and a user's request (`Connect`, `Send`,
`Recv`, `Shutdown`, `Close`) are one step each.  The steps are built of operators
on control blocks that follow the code from label to label: `TrimLeft` and
`TrimRight`, `InputReset`, `Ack` with `DupAck` and `NewAck`, `step6`, `TCP_REASS`
and `tcp_reass`, `dropafterack`, `dropwithreset`; header prediction is `PureAck`
and `PureData`.  `tcp_output` is a recursive function, one pass (`OutputAgain`,
`OutputOnce`) from the label `again` each, through `OutputWin`, `OutputLen` and
`OutputDecide`; `MaxPasses` bounds the passes by what a full send buffer takes.  A segment keeps its flags while `fl`, the code's `tiflags`, loses
some to trimming: that difference is the code's (section 7).

The lengths of timers are abstracted: any timer that runs may run out.  A timeout
while segments are in flight, too early that is, is counted as a fault like a loss or a
duplication (`Fault`); the instance says which kinds there are and how many.  The
congestion window is any value of `CWnds`.

### Select (`sys/kern/sys_generic.c`, `uipc_socket2.c`)

`ready` is the set of buffers that would satisfy `soo_select`; `sb_sel` and
`sb_coll` are the one process a buffer knows of and its collision flag; `ssel`,
`selwait`, `stopped`, `stimo`, `signalled` and `stopsig` hold the processes with the
flag, in the state, or with a caught or a stop signal pending.  `select` is `Select`,
`Hzto`, `Selscan` once per descriptor, and then `Return`, `ScanAgain`, `Sleep` or
`SleepStopped`, which are the code at `splhigh`: `Sleep` starts the timer, and
`SleepStopped` stops in `tsleep`'s first `CURSIG`, before the timer.  `Awake` is the
return of `swtch` in `tsleep`, with the stop in the second `CURSIG` (`AwakeStopped`);
`Continued` is its return in `issig`.  `Signal`, `Stop` and `Cont` are `psignal` of a
process of `Targets`.  `Sowakeup` (an interrupt, or another
process's call) and `Tick` come between any two.  `atv` is the time left, in
units of which a tick has `TickUnits`.

### UnpGC (`sys/kern/uipc_usrreq.c`, `closef`)

The file table is `Files`, in the order in which `unp_gc` walks it.  `f_count`,
`f_msgcount` and `unp_rights` are the code's counts; `fds` and `so_rcv`, the
descriptors and the rights in buffers, are what they should count.  No system
call sleeps here, but closing is recursive (a socket closed discards the rights
in its buffer, which closes files, which may start the collector), so `work` is
the stack of what the running call has to do, and each action does the first
piece of it.  `Mark` and `Sweep` are turns of the collector's loops.

## 4. The runs

| Run | Instance | Shows |
|---|---|---|
| `callout` | 2 functions, table of 3, delays to 3, 2 ticks late | the delta list implements `Timers`, safety and liveness; late entries are in front; a due call has its `softclock`; entries are conserved |
| `buf_coherence` | 2 processes, 3 buffers, 1 vnode, 2 blocks, every operation, no errors | one buffer per block, current, and the block asked for; no panic in the walks of flush and invalidation; no deadlock |
| `buf_errors` | 2 processes, 2 buffers, a disk or a tape, two sizes, failing transfers, flushes | a buffer is busy or free, no sleeper is forgotten, writes are counted exactly |
| `buf_flush` | 3 processes (one reads and makes indirect blocks, one invalidates, one flushes), 2 buffers, file and device, 1 block, fair | flush and invalidation lose nothing; the lists agree with the flags; every sleeper wakes, unless `vflushbuf` spins (section 7) |
| `synch_signals` | 1 process, 2 channels, five signals, handlers, masks, orphaned group | no stale timer, no lost wakeup, a sleep keeps what will end it through stops, and the types |
| `synch_live` | 2 processes, KILL, fair | queues agree with states; `tsleep` keeps the promises of its comment when nothing stops; SIGKILL kills (a process that is not stopped: there are no stop signals here), timed sleeps end |
| `tcp_close` | 2 bytes, half close, `shutdown` any number of times, 1 fault, a second connection at `b`, fair | end of file after all data, nothing forgotten unreceived, matching connections, FINs acknowledged, both ends freed |
| `tcp_reader` | 3 bytes into a buffer of 2 whose storage one segment uses up, 1 fault, keepalives, giving up, fair | bytes in order and once, no two timers, a timer while anything is unacknowledged or behind a closed window, the offered window fits the byte limit, the send buffer drains |
| `select` | 2 processes, one of which gets signals, 2 buffers, a bad descriptor, timeout of 2 ticks | nobody sleeps on a ready descriptor; timeouts end timed sleeps |
| `unp_gc` | 4 files, 2 descriptors of each, 2 rights in flight | reachable files stay, garbage goes |

`tcp_fin` and `unp_panic` are disagreements with the code's own comments and
assertions; they are in section 7.

*Bounds.*  Most of these protocols have a party that waits and a party that acts, with
the disk or the clock as the third, and get two processes.  The flush needs three: one
that holds a dirty buffer, one that sleeps on it, and one that flushes; `buf_flush`
gives each a role of its own to pay for the third.  Where one process is enough (`synch_signals`, where signals, wakeups and
timers come from outside), the instance spends its states on more operations
instead.  Three callouts make a list with a front, a middle and an end; two
ticks of lateness are the least at which one late entry can be later than
another.  As many blocks as buffers, with anonymous buffers besides, force
reuse; one block over two vnodes gives an indirect block both of its homes.  One
signal of each class (terminal stop, stop that cannot be held, continue, kill,
and one that ends a process or is caught) covers the cases of `psignal` and
`issig`.  `synch_live` with two channels on the one hash queue passes too, in
five minutes; it is kept to one.  `MaxDelay` and `MaxLate` cut behaviours of
`Callout`; `MaxLate` stops the clock when `softclock` is that late, and the
proofs do not depend on its value.

In `Tcp` the sequence numbers are taken modulo 16, `a` starts at 14 and so wraps
within its data, and a window (modulo 4) is less than half of a half of them, as
in the code.  Segments hold one byte (`tcp_fin`: two), the buffers two, so that
a window closes while a byte is left; `Mbuf` equals `RcvMbmax`, so that one byte uses up
the storage while another is still offered, and two take `sbspace` below zero.  One
loss, duplication or early timeout (`FaultKinds`, `MaxFaults`; `tcp_fin` needs three
early timeouts), with every order of arrival and anything beyond two segments in flight
(`MaxNet`) lost besides, meets each retransmission path; duplicates also come of
retransmission.  `RexmtThresh` is 2 for fast retransmit to be reached.

In `Select` two processes and two buffers make every collision; signals go to one of
them (`Targets`), since they act on their process only.  `CollSpace` lets `nselcoll` come
round without doing so within one scan.  In `UnpGC` two socket pairs make a
socket inside itself, inside its peer, inside another, and a cycle of two; three
files (one pair and a spare) would not make a chain.

*Symmetry* is used over processes, buffers, blocks, and channels, in runs that
check safety only.

*Deadlock* is not checked in `callout` (the table overflow panics and the system
halts), in the `synch` runs (processes exit), in the `tcp` runs (connections
end) and in the `unp` runs (the file table may fill with files whose references
`read` leaked, with no descriptor left to close).  It is in the `buf` and `select`
runs.

## 5. Fairness

`callout`: weak fairness of the steps of `softclock`; a software interrupt
is taken as soon as the priority drops, and callout functions do not
sleep.  `buf_flush`: weak fairness of the disk for each request it holds, strong
fairness of each process's steps, since it is enabled only when the CPU is free;
`schedcpu` ages priorities, so a runnable process runs in the end.  It also
assumes that a process gives back a buffer it holds.  `synch_live`: weak
fairness of a process's steps inside the kernel; strong fairness of its dispatch
and of the clock interrupt that takes the CPU from it in user mode (`Preempt`,
`CheckSignals`), and of its timer, which `splhigh()` only delays.  No fairness
is assumed of wakeups, signals or system calls.

`tcp_close` and `tcp_reader`: segments that are not lost arrive, a user who reads
reads what there is, nobody calls `shutdown` for ever (a call may send a segment), and a timer that stays running runs out (`tcp_slowtimo` is
called by a callout that starts itself again).  Nothing else is assumed of `Send`,
`Shutdown` or `Close`.  The conditions are written as `[]<>` formulas over the
guards `InFlight`, `CanRead` and `CanTick`, each the guard of the actions it
stands for, because TLC's evaluation of ENABLED for these handlers is too slow;
`MaxFaults` makes losses and early timeouts finite, without which nothing could be promised.

## 6. What is proved

`Callout_proofs` proves, for every table size, set of functions and bounds,
`TypeOK`, `LateFirst`, `DueIsServed` and `TableConserved`, from
`CalloutAssumption` (the table and the longest delay are positive, `None` is no
function).  The lemmas give the length and each entry of the list after
`timeout`'s insertion, `untimeout`'s removal, and `hardclock`'s walk.
`LateFirst` is inductive together with the types; `DueIsServed` needs `LateFirst`
too, since `hardclock` requests `softclock` by looking at the front of the list
only.

It also proves the refinement, but for its fairness: `ListImplementsTimers` says that
the initial list maps to the initial `Timers`, and every step to one of theirs or to a
stutter.  The mapping reads the delta list as a bag of calls, each with the ticks left
to it: the sum of the positive `c_time`s up to it, or its own when that is 0.
`PosSumFacts` shows what the sum computes; `InsertCalls`, `DeleteCalls`, `AdvanceCalls` and
`TailCalls` show, one per operation, that the list after it is the bag that `Timers`
wants: the sums before the place of insertion or removal are those of before, the sums
after it are too, since the neighbour's `c_time` makes up for it (`SameSums`), and the
bag counts places, one more or one less (`PlacesInsert`).  `LateFirst` is needed here:
`untimeout` adds a removed entry's time to the next, which moves no call only because
what follows a positive `c_time` is not negative.  `CallInv` adds that `softclock` is in
a call exactly while it is calling something.

The sum is a recursive function, and the library's induction rules, which take an
operator, are out of the prover's reach.  The proofs by induction here, in
`Tcp_proofs` and in `UnpGC_proofs` take a set of numbers instead: the set of counterexamples would have a
least element (`UpTo`, `LeastNumber`, from the well-foundedness of `<`).

`Synch_proofs` proves, for every set of processes, channels and signals,

- `WakeupNotLost`.  `WakeInv` adds the shape of `p_stat`, `p_wchan` and `awoken`.
  Every step is one of four kinds (lemma `WakeStep`): it changes nothing here;
  it stops, runs or kills a process; it puts to sleep a process that still waits;
  it ends a wait.  SIGCONT is the case that matters: it must look at `p_wchan`.
- `NoStaleTimer`.  `TimerInv` adds the shape of `pc`, `p_flag`, `callout` and
  `call`.  A process away from the middle of `tsleep` has no timer and no mark
  (`TimerMoves`); going to sleep starts at most one (`TimerStarts`); coming back
  or expiring leaves none (`TimerResumes`, `TimerFires`).

- `QueuesAgree` and `TypeOK`.  `QueueInv` adds that the running process is in SRUN:
  without it `wakeup` could make runnable what runs.  A step moves one process
  (`QueueMoves`) or all sleepers of a channel (`QueueWakeup`).

Its last part proves what `tsleep`'s comment promises.

- `SleepArmed`, with any signals: a process in `tsleep` after its `swtch` that still
  waits has its timer if it asked for one, and SSINTR with nothing to act on if it
  asked for PCATCH.  `psignal` is the hard case: it must not leave a signal pending
  for such a process without ending the wait.
- `SignalsInterrupt` follows under `NoStops` (no stop signal among `Sigs`), which makes
  every SSLEEP one of those.  With stop signals it is false (section 7).
- `ZeroMeansAwoken`, an action property, under `NoJobControl` (neither stop nor
  continue signals; with SIGCONT it is false, section 7).  `WaitEnded` says for every
  place in `tsleep` why the wait is over: awoken, timed out, or a signal to return
  EINTR or ERESTART for.

`Select_proofs` proves, for every set of processes, buffers and descriptors,

- `NotAsleepOnReady`.  `SelInv` says that every buffer a sleeper selects on knows it:
  it is the process remembered, or there is a collision (`SleepersKnown`); and that
  during a scan each buffer passed is known, or SSEL is cleared, or `nselcoll` has moved
  (`ScanCovered`).  `nselcoll` wraps, so that moved means that it has not come round:
  `CollisionsBounded` bounds the collisions during one scan by the buffers that became
  ready, and `CollAssumption` is what the proof then needs of `CollSpace`.
- `TimeoutEndsSleep`, which is about the sleeps that `tsleep` goes into after its first
  `CURSIG`, under `WholeTicks` (every interval is a whole number of ticks; it
  is false otherwise, section 7): `TimeInv` says that the time left is a whole number
  of ticks too, so that `hzto` truncates nothing.

`BufCache_proofs` and `BufCacheOwn_proofs` prove, for any number of processes,
buffers, vnodes, blocks and sizes and with or without disk errors, from
`BufCacheAssumption` (names of different things differ, the null pointer names none
of them; there are finitely many buffers),

- `TypeOK` and `ListsAgree`.  `ControlInv` adds to them which callers may be on the
  stack at each label and where `bp` may be null (`Control`), and that a delayed write
  has a vnode (`DirtyHome`).  Both are needed: that `brelse` is called with a buffer,
  and returns to a label, depends on who called `getblk`.
- `BusyIffNotFree`, `OutputCounted`, `NoLostWakeup`, that a buffer has one holder at
  most (`Exclusive`), and that `biodone` does not panic.  None is inductive alone:
  `biodone` decides by B_ASYNC and B_READ whether to release a buffer, whom to wake
  and what to count, so that one needs to know whose buffer it is.  `CacheInv` is their
  conjunction with `ControlInv` and with `OwnInv`: what is under I/O is busy and not
  done, B_ASYNC is only on buffers under I/O, and a process holds only busy buffers,
  not under I/O unless it waits for them.  Every step of a process is one of five
  kinds, it only moves, takes a buffer, starts a read, starts a write, or releases,
  and each kind keeps `CacheInv` (one lemma each); the interrupt is the sixth.

`BufCacheBlock_proofs` proves `GetblkReturnsBlock` and `NoPanic` on top of `CacheInv`,
for any number of everything too, under `~MayFail`: the disk reports no errors.  With
errors both are false (section 7), so the hypothesis cannot be dropped.  `BlockInv`
says that an invalid buffer is at work or has no vnode and is not left to the interrupt
(`Intact`); that what is left of a walk of `vflushbuf` or `vinvalbuf` is still on the
list it walks, because the walker kept the CPU since it looked (`Walk`); and that `bp`,
and the buffer `breada` holds meanwhile, are valid buffers of the blocks asked for
(`Block`).  The argument is `BlockStep`: other processes are in the middle of no walk,
since one process has the CPU, and own their buffers, by `CacheInv`; so that a step which
changes only buffers no one else owns keeps `BlockInv` for everyone else.

The same module proves three properties under hypotheses about the behaviour, since the
code does not exclude what breaks them (section 7):

- `OneBufferPerBlock`, with or without disk errors, as long as nobody sleeps in
  `getnewbuf` (`NeverShort`).  `OnceInv` says that a process in `getnewbuf`, or in a
  delayed write that `getnewbuf` started, has had the CPU since it searched, and that its
  block still has no buffer (`Unfound`); nothing but `getnewbuf` gives a block a buffer
  (`StepNew`), so nobody else and no interrupt can have done so since.
- `NoLostWrite` and `ReadsAreCurrent`, under `~MayFail`, `NeverShort` and `Fitting`:
  `getblk` finds no free buffer of another size than the one asked for.  With one size
  that is always so; with several it depends on the file systems.  `DataInv` is `OnceInv`
  with `Coherent` and `JobInv`.  `Coherent`: every buffer with contents, and every one
  being written, has what was last written to its block, an invalid one has no vnode, and
  `NoLostWrite`.  Since a block has one buffer, a process that changes it makes no other
  copy stale but the disk's, and a read is started only when the disk is current.
  `JobInv`: a process that reads comes back from `getblk` to `bread` or `breada`, never
  past them, and leaves them with B_DONE set.  A lemma for each kind of change (read,
  write, delay, release, drop, take, `biodone`) keeps `Coherent`.

`Tcp_proofs` proves `OneTimer` for every size of windows, buffers, segments and sequence
space, any congestion window and any loss, copy and order of segments: the
retransmission and persist timers never run together, so that `tcp_setpersist` does not
panic.  From `TcpAssumption` it uses only that sizes are numbers.  `TimerInv` is
`OneTimer` with the shape of a control block; the proof has a lemma for each handler
from the handlers it calls.  Two places carry it: `Emit` stops the persist timer when it
starts the other (`EmitTimed`), and `OutputDecide` starts persisting only where neither
runs (`DecideTimed`).  The passes of `tcp_output` are taken one by one (`OutputTimed`).

`UnpGC_proofs` proves, for every size of the file table and every number of descriptors
and rights, from `TableAssumption` (they are numbers),

- `KeepsReachable`: closing and collecting never take away what a process has or can
  still receive, though both may give back references that were never counted
  (section 7).  The invariant `Full` is a conjunction.  `Shape` says how calls nest in
  `work`: `soclose` goes from detach to discard to the end of `closef`, and there is one
  sweep, above which are the files it closes, all unmarked, and below which those that
  were being closed when it began, all marked.  `Balanced` adds up `f_count`: the
  descriptors, `f_msgcount`, and what `closef` is giving back.  `RightsCounted` compares
  `f_msgcount` with the places in buffers plus the references taken out of one and not
  yet discarded.  The comparison fails while the collector sweeps, which empties files of
  references that are still in buffers; it stays true of the marked files, and
  `SweepInv` (what marked buffers hold is marked, no process has an unmarked file) makes
  the reachable files marked ones.  After the sweep it holds of every file but those
  that have no reference left and something pending (`Doomed`).  Discarding for one of
  these, or closing inside its own closing, leads to `Imminent`, from where each step is
  to a panic and only `work` changes; so the invariant is `panicked`, `Imminent` or
  `Full`.
- `CollectsGarbage`, an action property: when `unp_gc` comes to its end, everything that
  is still open can be reached from a descriptor or from a file being closed.  This is
  the other direction: marks have reasons.  `Grounded` states it without paths, which
  the provers have no induction for: every set of files that has the marked roots, and
  with a marked file what its buffer holds, has all the marked files.  It is applied to
  the closure of the roots.  `ClosureFacts` shows that `NFILE` rounds compute that
  closure: a round that finds nothing is the last, and one that finds something leaves
  fewer files than before to be found.

Only model-checked:

- liveness (`SleepersWake`, `KillIsFatal`, `TimedSleepEnds`, `Reaped`, `Drains`),
  which the prover has no fairness for, and the fairness of `ImplementsTimers`;
- `Tcp!TypeOK` and `PromiseKept`: that `so_rcv` stays within its limit rests on the
  length of the run of segments `PresentFirst` takes off the reassembly queue, a sum
  over a sequence, which needs induction over data;
- what relates the two hosts and the segments between them (`InOrder`, `AckedArrived`,
  `EofMeansAll`, `FinAcked`, `Matched`, `NoStall`), for which the invariant must speak
  of every segment that may still arrive.

## 7. Disagreements

Where a comment or an assertion of the code says what the code does not do, a
run checks it and TLC gives the schedule that refutes it.

| Run | What happens |
|---|---|
| `tcp_fin` | `tcp_input` trims a segment to the window and takes the FIN from `tiflags`, but `TCP_REASS` and `tcp_reass` look at `ti->ti_flags`, where it still is: the reader gets a clean end of file without the data (`tcp_input.c:664` "drop trailing data (and PUSH and FIN)") |
| `unp_panic` | `sorflush` empties a buffer and then disposes of the rights in its local copy; disposing of the first may close a socket and start `unp_gc`, which does not see the second, sweeps it, and it is discarded again: `panic("closef: count < 1")`.  A socket whose buffer holds a right to itself, or to one that holds it, is closed inside its own closing by the sweep: `panic("soclose: NOFDREF")`.  Garbage inside garbage, swept in table order, is discarded twice as well |

The properties of the passing runs fail on other instances of the same modules,
which explains what those runs leave out.

Buffer cache:

- `OneBufferPerBlock` with 2 buffers, 3 blocks, `bread` and `getblk`:
  `getblk` does not search again after `getnewbuf` slept, and one block gets two
  buffers (`vfs_bio.c:309` "If the appropriate block is already associated,
  return it").  The passing run has a buffer to spare.
- `GetblkReturnsBlock` with a failing disk (`MayFail`): `getblk` tests a buffer
  before `splbio()`, and a failing asynchronous read detaches it in between.
- `NoPanic` with a failing disk and `vinvalbuf`: the same before `splbio()` in
  `vinvalbuf`, which then calls `reassignbuf` with a null vnode and panics.
- `ReadsAreCurrent` and `NoLostWrite` with two processes and two sizes: `getblk`
  marks a buffer of the wrong size B_INVAL before it writes it; while the write
  is under way another process does not find it, reads the old contents from the
  disk, or writes newer ones that the first write then overtakes.
- `SleepersWake` without its exception `Spins`, in the instance of `buf_flush`: a process
  holds a dirty buffer and has given up the CPU, a second sleeps in `getblk` on that
  buffer, and a third calls `vflushbuf(B_SYNC)`, which skips the busy buffer, finds no
  output to wait for and goes back to its label `loop` (`vfs_bio.c:591`) without
  sleeping.  The kernel is not preempted, so the holder does not run again, and neither
  does the sleeper.

Sleep and signals:

- `SignalsInterrupt` with TSTP, CONT and KILL: a process stopped in `tsleep`'s
  first `CURSIG` and continued sleeps without SSINTR, and no signal ends the
  sleep, not even SIGKILL (`kern_sig.c:632` "All other (caught or default) signals
  cause the process to run").  Nor has it a timer, which is started after `CURSIG`.
  `SleepArmed` is what is left: it speaks of the sleeps begun after that.
- `issig` clears the signal it stopped for after `swtch` (`kern_sig.c:866`): the
  same stop signal posted after SIGCONT and before the process runs is lost
  (`kern_sig.c:822` "stop here, then clear the signal").
- `ZeroMeansAwoken` with CONT: with its default action it makes an interruptible
  `tsleep` return 0 though nobody called `wakeup`.
- `psignal` stops a sleeping member of an orphaned process group for SIGTSTP, and
  `issig` does not; the model follows both.

TCP:

- `Drains` when the sender closes with its last byte behind a closed window: the
  persist probe carries that byte and the FIN, `tcp_output` counts only the byte
  in `snd_max` (`tcp_output.c:423`), and the acknowledgement of both is above
  `snd_max` and refused, each time (`tcp_var.h:71` "highest sequence number sent").
- `NoStall` when the reader also sends data or a FIN: a pass through `tcp_output` that
  sends an acknowledgement (TF_ACKNOW) skips the start of the persist timer, so that
  data may wait for a window with no timer until the next call
  (`tcp_timer.h:45-49`).  When an mbuf cannot be had, `tcp_output` returns without
  starting a timer as well (`tcp_output.c:278-282`, `450-453`); that is not modelled.
- `EofMeansAll` without its exception `hungup`: a second `shutdown(fd, 1)` in FIN_WAIT_2
  calls `soisdisconnected` (`tcp_usrreq.c:482-483`), and the reader gets a clean end of
  file while the peer still sends, though `shutdown.2` says of 1 only that "further
  sends will be disallowed".
- `PromiseKept` with `sbspace` in place of the bytes left: the storage of small segments
  takes `sbspace` below the window that was offered (`socketvar.h:105-110` says that it
  may be negative).  `tcp_input` therefore takes the larger of the two, and what is kept
  is that the window offered fits `sb_hiwat`, not that there is storage for it.
- Header prediction of an ACK does not advance `snd_wl2`, so that an older
  segment's window may be taken after it (`tcp_input.c:779`).
- `Reaped` with `shutdown`, then `close` in FIN_WAIT_2, and a peer that gives
  up: `tcp_usrclosed` does not start the 2MSL timer that `tcp_input.c:927-931`
  starts "or we'll hang forever".
- `FinAcked` with `abandon` among the calls: after `shutdown` in SYN_RECEIVED the
  ACK of the SYN satisfies `acked > sb_cc` and is taken for the FIN's.

Select:

- A process that stops in `tsleep`'s first `CURSIG` and is continued sleeps in `select`
  without a timer, and without SSINTR: only a descriptor that becomes ready ends it.
  `TimeoutEndsSleep` of all sleeps is false for that; it speaks of the timed ones.
- `TimeoutEndsSleep` with an interval that is not a whole number of ticks
  (`Intervals = {3}`): a tick between `timevaladd` and `hzto` leaves less than a
  tick, `hzto` truncates it to 0, and `tsleep` takes 0 for no timeout.
- `select.2` calls the timeout "a maximum interval to wait"; it is started anew
  after each wakeup that finds nothing, and a sleep may last almost twice as long.
  `TimeoutEndsSleep` states that weaker bound.

## 8. What is not modelled

Of the modelled components:

- the accounting and time of day in the clock interrupt;
- `mntflushbuf` and `mntinvalbuf`, which repeat `vflushbuf` and `vinvalbuf` for
  each vnode of a mount point; the memory of buffers (`allocbuf`); strategy routines
  that sleep (`nfs_strategy` does the transfer itself when no `biod` waits,
  `ufs_strategy` may have to read an indirect block first) and the B_CALL branch of
  `biodone`, which swapping and a few drivers use;
- priorities, `schedcpu` and swapping; tracing, `vfork`, `sigsuspend`,
  `sigstack`, the permissions of `kill`, and core dumps;
- in TCP, options and the segment size they negotiate, urgent data, round-trip
  times and backoff, slow start (the congestion window is arbitrary),
  SO_LINGER, the accept queues, `shutdown` for reading (`sorflush`), the send buffer's
  limit of storage, the merging of small mbufs (`sbcompress`: each segment keeps its
  own), failures of mbuf allocation and of `ip_output`,
  and the SYN that closes a connection in TIME_WAIT and starts over (an active
  host connects once, `TcpAssumption`);
- terminals and devices under `select`, out-of-band data;
- `shutdown` of Unix-domain sockets (for reading it calls `sorflush` on a socket that stays
  open), datagram sockets but for a send that fails, messages with several
  rights, rights to vnodes (whose close may sleep in the middle of a sweep), and
  sockets not yet accepted, whose buffers `unp_gc` does not look into.

Pointer manipulation inside a list operation is one step, so a list changed at
too low a priority is below the models' grain (hazard at `vfs_bio.c:693`).  The
other components of section 1 are not modelled yet, or not planned, as
`PROJECT.json` says of each.
