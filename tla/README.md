# Verification of HYU 2024 ELE3021 operating-system projects

The repository holds four variants of the xv6 kernel (32-bit x86, one per course
project) that share most of their source:

| variant | what the project adds |
|---|---|
| `src/Project01` | system call `getgpid` |
| `src/Project02` | multi-level feedback queue scheduler with a monopoly queue |
| `src/Project03` | light-weight processes (threads), a user-level lock |
| `src/Project04` | copy-on-write fork with reference-counted pages |

This directory models the parts the projects added, and the stock parts with the
most intricate concurrency (the log, the buffer cache, the file system calls,
pipes and sleep/wakeup, all in the Project04 copy), in TLA+. Each model names the C functions it translates;
`PROJECT.json` maps every definition to its lines.

## Inventory

| component | state | operations | interacts through | what makes it correct |
|---|---|---|---|---|
| **Page allocator** (P04 `kalloc.c`) | free list, `fpcnt`, `pgrefc[]`, one lock | `kalloc`, `kfree`, `incr_refc`, `decr_refc`, `get_refc`, `sys_countfp` | called by everything that owns pages | a count is the number of uses; a page is on the free list exactly when unused; `fpcnt` is the list's length |
| **Address spaces, CoW** (P04 `vm.c`) | page directories and tables, TLBs | `setupkvm`, `mappages`, `allocuvm`, `deallocuvm`, `freevm`, `copyuvm`, `CoW_handler` | page tables shared with the hardware; page faults call back into the kernel | sharing is invisible to programs; what a process can write it alone maps; failures give back what they took |
| **Process life cycle** (P04 `proc.c`, `exec.c`) | `ptable` | `allocproc`, `userinit`, `fork`, `exec`, `growproc`, `exit`, `wait` | `ptable.lock`, preemption between lock sections | slots, stacks and directories have one owner; a failed call changes nothing |
| **MLFQ/MoQ scheduler** (P02 `proc.c`, `trap.c`, `monopoly.c`) | four level queues, `moq`, per-process level, ticks, priority | `run_proc`, `yield`, boosting, `setpriority`, `setmonopoly`, `monopolize`, `unmonopolize` | timer interrupts, `ptable.lock`, `tickslock` | every runnable process is in exactly one queue; nobody starves; the monopoly ends |
| **Ring queues** (P02 `queue.c`) | circular array | `q_push`, `q_pop`, `q_remove`, `q_top` | under `ptable.lock` | no loss, no duplicate, order kept |
| **Light-weight processes** (P03 `lwp.c`, `proc.c`, `exec.c`) | slots sharing a pid and a page directory | `thread_create`, `thread_exit`, `thread_join`, `thread_removeall` | `ptable.lock`, sleep/wakeup | a join returns once per thread; stacks and the directory are freed once, after their last use |
| **User-level lock** (P03 `pthread_lock_linux.c`) | a flag, a counter | `lock`, `unlock` by `xchg` | shared memory | mutual exclusion; the counter's final value |
| **getgpid** (P01) | none | reads `parent->parent` | unlocked reads of `ptable` | returns a grandparent's pid |
| **Spin locks** (`spinlock.c`) | `locked`, `ncli`, `intena` | `acquire`, `release`, `pushcli`, `popcli` | all kernel code | mutual exclusion; interrupts off while held |
| **Sleep/wakeup, kill, sleep locks** (`proc.c`, `sleeplock.c`) | `state`, `chan`, `killed` | `sleep`, `wakeup`, `kill`, `acquiresleep` | a condition's lock handed over to `ptable.lock` | no lost wakeup; a killed sleeper wakes |
| **Pipes** (`pipe.c`) | ring buffer, counts of ends | `pipewrite`, `piperead`, `pipeclose` | sleep/wakeup | bytes in order, once; neither side waits for ever while the other can go on |
| **Log** (`log.c`) | log header, log blocks, `outstanding`, `committing` | `begin_op`, `end_op`, `log_write`, `commit`, recovery | buffer cache, disk, crashes | a crash leaves all or none of a group of system calls |
| **Buffer cache, IDE** (`bio.c`, `ide.c`) | LRU list of buffers, request queue | `bread`, `bwrite`, `brelse`, `iderw`, `ideintr` | sleep locks, disk interrupts | one buffer per block; requests answered in order |
| **Files, inodes, directories** (`file.c`, `sysfile.c`, `fs.c`) | reference-counted tables, on-disk structures | open, link, unlink, read, write, ... | the log | counts exact; directory tree consistent |
| **Console, boot, interrupt controllers, trap dispatch, user programs, mkfs** | devices, start-up | | | |

The hard behaviours are listed with their lines in `PROJECT.json` ("hazards").

## Modules

| module | kind | what it is |
|---|---|---|
| `Cow` | detailed specification | P04: `kalloc.c`, `vm.c` and the memory side of `fork`, `exec`, `sbrk`, `exit`, `wait` |
| `PrivateVm` | abstract specification | what P04 promises a program: an address space of its own; `Cow` implements it |
| `MCCow` | model-checking instances | which page `kalloc` returns (the lowest: pages are interchangeable), the symmetry set |
| `CowProofs` | theorems | the types and the control invariant of `Cow`, which every other proof about it uses; reference counts and the free list; with one processor no page is lost |
| `CowPrivateProofs` | theorems | what a process can write is its own; the counting calls agree; the kernel does not panic by itself; `Cow` implements `PrivateVm` |
| `Mlfq` | detailed specification | P02: `scheduler()` and its queues, the timer interrupt, the calls that make a process runnable or stop it |
| `MlfqProofs` | theorems | who is in which queue, the order of service, the boost; `RingQueue` implements the queues |
| `RingQueue` | operators | P02 `queue.c`: the circular array under each queue of `Mlfq` |
| `MCMlfq` | model-checking instances | which system calls each slot's program makes |
| `Lwp` | detailed specification | P03: `lwp.c`, and `fork`, `exec`, `sbrk`, `exit`, `wait`, `kill` of processes with threads |
| `LwpProofs` | theorems | one origin and one directory for a process's threads, joins that are woken, killed processes that end |
| `MCLwp` | model-checking instances | which system calls each slot's program makes |
| `Log` | detailed specification | P04 `log.c`: group commit, crashes, recovery |
| `AtomicDisk` | abstract specification | a disk whose blocks change in groups; `Log` implements it |
| `LogProofs` | theorems | the inductive invariant of `Log`, and the proof that it implements `AtomicDisk` |
| `Fs` | detailed specification | P04 `fs.c`, `file.c` and the calls of `sysfile.c`: inodes, directories, open files |
| `FsProofs` | theorems | the inductive invariant of `Fs`: counts, link counts, the directory tree, who can block whom, and which panics are left |
| `Bio` | detailed specification | P04 `bio.c`, `ide.c`, `sleeplock.c`: the buffer cache over the disk driver |
| `BlockStore` | abstract specification | blocks that one process at a time uses; `Bio` implements it |
| `BioProofs` | theorems | the inductive invariant of `Bio`, and the proof that it implements `BlockStore` |
| `Pipe` | detailed specification | P04 `pipe.c` with `sleep`, `wakeup`, `kill` at the granularity of spin locks |
| `Channel` | abstract specification | a bounded FIFO channel with two ends; `Pipe` implements it |
| `PipeProofs` | theorems | the inductive invariant of `Pipe`, and the proof that it implements `Channel` |
| `MCLog`, `MCFs`, `MCBio`, `MCPipe` | model-checking instances | the calls, buffers and descriptors of each instance |

How the file system modules fit together: `Bio` shows that the cache is a store
of blocks that one process uses at a time and that a pinned block stays
(`BlockStore`); `Log` takes that store as its `cache`, with `Evict` for what
`bget` recycles, and shows that calls are groups that are on disk whole or not at
all (`AtomicDisk`); `Fs` takes that disk and looks at calls against calls.

### `Cow` and the code

The state is `kmem` (`free`, `fpcnt`, `pgrefc`), the contents of physical pages,
the page tables by directory (`pt`, with the page-table pages `utab` and
`ktab`), `ptable` (`state`, `parent`, `pgdir`, `kstack`, `sz`), the writable
translations a processor caches (`tlb`), and for each process a program counter
`pc` and the locals `loc` of the system call it is in.

- A step runs from one `kmem.lock` or `ptable.lock` section to the next. What
  lies between them touches only the memory of the process that runs it, so no
  other process can tell. A process in the page-fault handler (an interrupt gate)
  or reaping a child (`ptable.lock`) keeps its processor: at most `NCPU` do
  (`CanRun`). Everything else can be preempted.
- `loc.op` says which call is running and `pc` where it is: `kstack`, `pgdir`,
  `kpt`, `copy`, `incr`, `commit`, `undo`, `freevm` for `fork`/`copyuvm`;
  `alloc`, `map`, `dealloc` for `allocuvm`/`deallocuvm`; `own`, `dup`, `move`,
  `decr` for `CoW_handler`. Parts that several calls share (`setupkvm`,
  `allocuvm`, `deallocuvm`, `freevm`) are one set of actions.
- Out of memory, the failure paths of `fork`, `exec` and `growproc`, and every
  `panic()` of these files are actions. After a panic only `Halted` is possible.
- A user page holds one value. Accesses outside the image are enabled by
  `Stray`: they are what two of the disagreements below are about, and the runs that check
  the rest exclude them. `shrinkall` (an `sbrk` of minus the whole size) is an
  element of `Calls` of its own for the same reason: `deallocuvm` returns 0 for
  it, `growproc` takes that for an error and keeps `sz`, and the next `fork`
  panics with `copyuvm: page not present`. It is in no passing run.

`ImplementsPrivateVm` maps `image[p][v]` to the contents and user permission of
the page `p`'s table has at `v`. `fork` takes effect where the child becomes
RUNNABLE, a growing `sbrk` where it succeeds, a shrinking one where it starts,
`exec` where it commits; page faults, copies and counts are stuttering steps.

### `Mlfq` and the code

The state is the process table (`proc`: state, pid, parent, `chan`, `killed`,
priority, `queue_level`, ticks, and where the process is in the kernel), the
level queues and the monopoly queue (`queue`), what each processor runs and
from which queue it took it (`cpu`), `nextpid`, `is_monopolized` and the tick
count modulo the boost period.

- A step is one section of `ptable.lock`. `scheduler()` hands its section over
  to the process it runs and gets one back when the process gives the CPU up;
  so its code after `run_proc()` (`BackIn`) is part of `Yield`, `Sleep`, `Exit`
  and `Wait`.
- `MoqOver`, `MoqFront`, `RoundRobin(l)` and `ByPriority` are the four branches
  of `scheduler()`; each keeps the source's order: test `q_runnable`, serve from
  the front, drop what is not RUNNABLE on the way.
- `Timer` is the clock interrupt with what `trap()` does after it: processor 0
  counts the tick and wakes the sleepers on `ticks`; the running process is
  charged, and yields when its quantum is spent or a boost is due. The boost
  itself (`Boost`) runs when the process that yielded for it is scheduled again.
  `Interrupt` is a device interrupt, which wakes the sleepers on `"io"`.
- A queue is a sequence. `RingQueue` has the ring of `queue.c` with its operations as
  functions. `RingMatches` says that on every ring without duplicates, wherever it starts
  and however full it is, the ring operations do to its contents what `Mlfq` does to the
  sequence. TLC evaluates it for the slots of the runs (`MCMlfq` assumes `RingsMatch`),
  and `MlfqProofs` proves it for every `NPROC`. The ring has `NPROC + 1` cells, enough as
  long as no process is in a queue twice: `NoDuplicates`.
- The loops of `wakeup1`, `kill` and `priority_boosting` push one process after the
  other: `PushAll` is such a loop, over the table or over the queues that are emptied.
- Not modelled: `tickslock` as a lock. `unmonopolize` takes it inside
  `ptable.lock`, and the timer interrupt takes `ptable.lock` inside it; with two
  processors the two orders can deadlock. It is listed as a hazard.

### `Lwp` and the code

The state is the process table (`proc`: state, pid, tid, parent, origin, what a
sleeper waits for, `killed`, page directory, `sz`), what each processor runs
(`cpu`), the page directories in existence with the pages they map (`dirs`,
`mem`), `nextpid` and `nexttid`. A thread is a slot like a process.

- A step is one section of `ptable.lock`, or the code without a lock between two
  sections; `at` says which. What other threads can see of the code between
  sections is kept: `sbrk` reads the size it returns before `growproc` takes the
  lock (`Sbrk`, then `Grow` or `Shrink`); `fork` reads the size for `copyuvm`,
  copies, and reads it again for the child (`Fork`, `ForkCopy`, `ForkDone`);
  `thread_create` fills a slot in two sections; `thread_exit` is ZOMBIE before it
  takes the lock (`ThreadExitMark`, `ThreadExit`).
- `RemoveAll` is `thread_removeall` with `swap_origin`; `exec` and `exit` go on
  from it in a later step, as they do file system work in between.
- A thread that returns from the `sleep` of `wait` or `thread_join` holds
  `ptable.lock`: no other step is possible until it has gone round its loop.
- `Schedule` may choose any RUNNABLE slot, which covers the table's order, and
  `Yield` may come at any point where interrupts are on.
- Sizes are in pages. What can fail is a full process table and a full address
  space; `kalloc` is taken to succeed. Kernel stacks go with their slots.
- `init` neither exits nor is killed.

### `Log` and the code

The state is `disk` (the blocks outside the log, the log's data blocks, the
header), the buffer cache as far as the log needs it (`cache`, and `dirty` for
`B_DIRTY`), `struct log`, where `initlog` is (`boot`), and for each process where
it is, the block it has from `bread`, its loop counter, and the blocks it wrote.

- A step is one section of `log.lock` or one block written to disk. A write of
  one block is atomic: a block is a sector. `Crash` may come after any step, also
  during recovery; it keeps `disk` and nothing else.
- `Modify` is a call's change of a buffer with the tests `log_write` makes before
  it takes `log.lock`; `LogWrite` is the rest of `log_write` and `brelse`.
- `commit` is four loops and writes: `WriteLog` (one block of `write_log`),
  `WriteHead` (the true commit), `Install`, `ClearHead`; `EndCommit` is the end of
  `end_op`.
- `LogBlocks` is `log.size`, which counts the header: `mkfs` writes 30, so there is
  room for 29 blocks where `LOGSIZE` admits 30. A block past the log would be the
  first inode block, and the model writes it there (`WriteSlot`).
- In the refinement the disk of `AtomicDisk` is the disk a crash at this moment
  would leave after recovery (`Recovered`); a group commits at `WriteHead`.

### `Fs` and the code

The state is the inodes on disk (`dinode`), the bitmap, the inode cache (`icache`:
reference count and `valid`), the inodes' sleep locks, the file table, each
process's descriptors and current directory, and the locals of its call.

- A step runs from the point where a call gets an inode's sleep lock to where it
  waits for the next one; the short sections of `icache.lock` that other calls
  can tell apart (the two in `iput`) are steps of their own: `Put`, `Drop`.
- `namex` goes one directory a step (`Walk`), for all calls alike; what follows is
  `Create`/`Exists`, `Open`, `Chdir`, `LinkOld`/`LinkNew`, `Unlink`/`Victim`/
  `Unlinked`. Inodes to `iput` on the way out are a list (`puts`), so every error
  path names what it gives back.
- A cached inode and its copy on disk are one: `iupdate` follows every change under
  the same sleep lock. The `valid` flag is kept, because `iput` tests it.
- A directory is a function from names to inode numbers; a path is a sequence of
  names. A file grows by blocks, the first of which past `NDIRECT` brings the
  indirect block with it.
- Not modelled: reading, offsets, devices behind `T_DEV`, descriptors across
  `fork` and `exit`, directories of more than one block, calls that wait for the
  log, crashes (see `Log`).

### `Bio` and the code

The state is the buffers (block number, `B_VALID`, `B_DIRTY`, `refcnt`, data) and
their sleep locks, the queue of `ide.c` with the request the controller is
serving, the disk, and where each process is. A step is one section of
`bcache.lock`, of a sleep lock, or of `idelock`. `Ideintr` is the interrupt
handler, at the moment the disk has carried out its request. `Bget` may recycle
any unused buffer: that covers the order of the LRU list, which nothing may rest
on. `LogWrite` is `log_write` as far as the cache sees it. The disk does not fail: after
a read whose `idewait(1)` reports an error, `ideintr` sets `B_VALID` on a buffer it has
not filled (`ide.c:118`), and that path is left out. The refinement is a statement
about disks without such errors.

### `Pipe` and the code

The state is `struct pipe` (the ring, `nread` and `nwrite` modulo `Wrap`, the open
ends), who holds the two spin locks, who has descriptors, who was killed, and where
each process is. A step is what a process does between two points where another
can come in: it takes a lock, gives one back, or copies a byte. `sleep` is four
steps, so that a wakeup may fall between any two. `Wakeup` and `Kill` take
`ptable.lock` within one step, when it is free.

## Runs

Each run names its properties in `PROJECT.json`; every property of a passing run
comes with a mutation of the model (a definition named `..Bug`) that violates it.

| run | instance | shows | states |
|---|---|---|---|
| `cow` | 2 processors, 2 processes, 10 pages, address spaces of 2 pages, 2 values | all calls but `shrinkall`: counts are exact at every step, the free list is right, nothing that can be written is shared, the two counting calls agree, no internal panic, and programs see private memory (refinement) | 41 thousand |
| `cow_three` | 1 processor, 3 processes, 11 pages, only `fork` (with `exit` and `wait`) | a page shared by parent, child and grandchild: counts, and no page is ever lost | 0.46 million |
| `mlfq` | 1 processor, 3 slots and 3 pids, quanta 1 to 4, a boost every 4 ticks | all calls: no runnable process drops out of its queue, no queue holds a process twice, the highest level and priority run, levels change only as documented, a boost reaches every waiting process | 1.7 million |
| `mlfq_starvation` | as above, a boost every 3 ticks, fair | no runnable process of the levels starves | 0.5 million |
| `lwp` | 1 processor, 4 slots, 3 pids, 2 tids, address spaces of 3 pages | all calls, with threads that make threads, fork and exec: one origin per process, directories given up once and by the last thread, no lost wakeup of a join, a killed process can end | 0.65 million |
| `log` | 2 processes, 3 blocks of 2 values, a log of 3 blocks that admits one or two calls at a time | groups of calls are atomic across crashes (refinement), the log never overflows, buffers are pinned exactly as long as needed, nobody sleeps in `begin_op` for ever | 85 thousand |
| `fs` | 2 processes, 3 inodes, 4 blocks, one open file with two descriptors | all calls on names, and `write`, `dup`, `close`: counts, links and blocks are exact on every path, open files stay, no internal panic but the one named below, and calls wait in circles only through `iput` | 1.5 million |
| `bio` | 2 processes, 3 buffers, 4 blocks, one pinned | the cache is a store of blocks (refinement), counts and the disk queue are exact, every request is answered | 0.56 million |
| `pipe` | a writer and two readers, 3 bytes a call through a ring of 2, counters modulo 4 | a FIFO channel (refinement), locks held as the code assumes, the page is freed once and after its last use, no wakeup is lost | 0.44 million |
| `cow_leak`, `lwp_sbrk`, `fs_leak` | | the disagreements below | |

**Bounds of `Cow`.** A page can be shared in three ways that differ: not at all,
by two, by three or more (the handler's test is `refc > 1`); `cow` covers the
first two with every call, `cow_three` the third. Two user pages are what `exec`
needs (the guard page and the stack; `TextSz` is 0). Ten pages are enough for two
processes to run and too few for every call to succeed, so each allocation fails
in some behaviour. `KptPages` 1 makes `setupkvm` fail half way.

**Bounds of `Mlfq`.** The quanta are half the code's 2, 4, 6, 8, so that one tick
of the model is two of the code. Three slots hold `init`, its child and a third
process, the least with which a process can wait behind another while a third
one runs; with pids up to 3 a slot is created and reaped once, and all four
levels and both parities of pid occur. The boost period is longer than the way
to L2 and shorter than a whole descent, so boosts meet processes at every level.
`MaxTicks` saturates only above the longest quantum.

**Bounds of `Lwp`.** Four slots hold `init`, a process and two threads, or two
processes and a thread; the second thread may be made by the first, so that its
creator can end before it. Three pids give a process next to the one with
threads, two tids a thread of a thread. A stack is one page here (two in the
code, one of them the guard); with three pages two threads fit, or one and an
`sbrk`, and the next `thread_create` or `sbrk` fails. The process the kills name is the
one with threads.
`AnyJoin` is FALSE: `NoLostJoin` and `KilledCanEnd` are about programs that join
threads they made themselves. The code promises nothing else: a join of another
thread's thread sleeps on the joiner's slot while the exiting thread wakes its
creator, and `thread_join` never gives up, not even when killed.

**Bounds of `Log`.** Two calls are the fewest that overlap; with `LOGSIZE` 6 and
`MAXOPBLOCKS` 3 the second is let in or not depending on what is logged, as in the
code with 30 and 10. A call writes one block at most (`MaxWrites`), the same block
as often as it likes: three log blocks then hold whatever can be admitted. That
a call writes fewer blocks than it reserves is an assumption about the callers (`CallsFit`):
if each of three calls wrote the ten blocks it reserves, `log_write` would panic,
because the log on disk has room for 29. `filewrite` keeps to it by writing three
blocks at a time.

**Bounds of `Fs`.** One process makes a file, a directory, a link and a directory
in the directory, goes into it and back, writes and duplicates; the other one
opens, removes and makes nodes at the same names. Two inodes besides the root,
and four blocks, run out in some behaviours. `NDIRECT` 1 and files of two blocks
reach the indirect block. `MaxLinks` 2 is needed because the count of a link made
in a removed directory never goes down. TLC evaluates `CallsAssumption` and
`DotDotFirst`, on which the theorems rest, for these calls.

**Bounds of `Bio`.** Four blocks over three buffers make `bget` recycle; two blocks
that are written and two that are only read keep the instance small. There is a
buffer for each process and each block the log pins (`EnoughBuffers`), so that `bget`
does not panic in this run, on which `IoCompletes` depends. The code's constants do
not give that: there are 30 buffers (`param.h:12`) for 64 processes (`param.h:1`) and
up to 29 blocks the log pins, and `bget` may panic when they are all in use. `TypeOK`,
`CacheExact` and the refinement hold then too, as the theorems show.

**Bounds of `Pipe`.** Three bytes through a ring of two make a write wait in the
middle, and the ring wrap; counters modulo 4 wrap too. Two readers compete for one
byte, so that one of them is woken for nothing.

**Fairness.** `Log`: weak fairness of what a process inside the log does next, and
strong fairness of `EndOp`: a call makes finitely many writes, but the model does
not count repeated writes of the same block. `begin_op` from the start is not
fair, nor are crashes excluded. `Bio`: the disk answers, and a process that was
woken runs. `Pipe`: strong fairness of a process inside a call, because a spin lock
taken by others in between disables it; that whoever asks for a spin lock again
and again gets it is what every use of them in xv6 rests on.
`FairSpec` of `Mlfq` states weak fairness of each
processor's scheduler loop (it is an endless loop) and of
the boost that a process has entered (a few instructions without a wait).
Neither the timer nor the programs are assumed fair. `NoStarvation` instead has
as a premise that boosts keep coming: the code does not guarantee it, because
a boost is raised only if the tick that makes `ticks % 100 == 99` finds a process
running outside a monopoly, and `unmonopolize` sets `ticks` to 0.
`Cow` and `Lwp` have safety properties only, and no fairness; what their waits
need is stated as invariants (`NoLostJoin`, `KilledCanEnd`).

CHECK_DEADLOCK is off where a panic (`init exiting` among them) ends the system,
where a pipe may be closed for good, and in `fs`, whose calls can block each other;
`Cow` has a self-loop `Halted` for that and checks deadlock.

## What disagrees with the repository's own words

Three of these are runs that expect a violation; the others are short to describe
and were found with the modules given, whose definitions are still there.

| run | code | what happens |
|---|---|---|
| `cow_leak` | P04 `vm.c:404-420` | `CoW_handler` decides on a reference count it read earlier. Both sharers, on two processors, read 2, copy and decrement: the count becomes 0 outside `kfree` and the page is lost. |
| `lwp_sbrk` | P03 `sysproc.c:53` | `sbrk` reads the address it returns before it takes the lock: two threads are given the same pages, which the project's specification excludes. |
| `fs_leak` | P04 `fs.c:337` | `iput` decides on a count it read in an earlier section of `icache.lock`. Two processes that put the last two references of an unlinked inode both read 2, and nobody frees it. |

Without a run of their own:

- `Cow` with `Stray` accesses: `CoW_handler` ignores `PTE_U`, so that touching the
  guard page `exec` closed, when a fork shares it, installs a user-writable copy
  (`GuardStaysClosed`; P04 `vm.c:419`); and a user access to an unmapped address
  panics the kernel (`NoInternalPanic`; P04 `vm.c:408`), where `trap.c` says the
  process is to blame and kills it.
- `Mlfq`: a process that exits while running from L3 leaves its entry there; the slot
  is reused, and the entry runs the new process although it is in the monopoly queue
  (`MoqWaits`; P02 `proc.c:503`). The stale entry also puts an ordinary process in
  two queues: `HighestFirst` and `LevelMoves` therefore speak of processes that are
  `InPlace`, in the queue of their level only. With the two processors of the
  Makefile, a process that runs from L3 can be dropped from the queue by the other
  processor; when it yields it is in no queue (`RunnableIsQueued` with `NCPU` 2). The
  runs have one processor (`bootxv6.sh` of P02 starts QEMU with `-smp 1`).
- `Lwp`: `thread_removeall` clears threads without handing on the children they
  forked; these keep a parent that no longer exists (`ParentLives`; P03 `proc.c:229`).
- `Fs`: two calls can block each other for ever. `create` holds the new inode's lock
  and calls `iput` on the directory, which takes the directory's lock again
  (`fs.c:334`), while `unlink` holds the directory and waits for the inode. A `link`
  whose new name is `.` blocks on itself in the same way (`fs.c:560`).
  `CirclesNeedIput` says that every circle of two calls has an `iput` in it. Also, what
  is created or linked in a directory that was removed after `nameiparent` found it is
  lost, and a path that leads out of a removed current directory through `..` after
  the parent has gone too panics with `ilock: no type`; `NoInternalPanic` has this as
  its only exception, and does not guard against it. With `..` in the middle of a path (`dd/dd/../ff` in
  `usertests.c:973`) a call can leave through a removed directory that is nobody's
  current one, and meet the same panic; the calls of the run have `..` first
  (`DotDotFirst`), and `PanicsFew` is what holds without that.
- `Pipe`: a kill between the test of `killed` and `sleep` finds nobody asleep, and the
  process sleeps until the other end moves, although `kill` says it wakes the process
  from sleep (`proc.c:488`). A killed write that gives up on a full pipe
  (`pipe.c:86`) does not wake the readers that have become able to go on in the
  meantime. `WaitersWake` has this as its only exception.

## Proofs

`CowProofs` proves, for any finite sets of pages and processes, any address-space
size and number of processors, any choice of calls and stray accesses, and any
order in which `kalloc` hands out pages:

- `TypeCorrect`: `Spec => []TypeOK`;
- `ControlCorrect`: `Spec => [](panic = "none" => Control)`.

The only assumption is `CowAssumption`, which says that the constants are what
their names promise (TLC evaluates it in every run of `MCCow`).

`TypeOK` is not inductive. A step of `allocuvm` writes `pt[pgdir][i]`, and that
`i` is below `MaxSz` follows from where the process is, not from the type of
`loc`; a `wait` frees `pgdir[np]`, which is a page only because `np` is a ZOMBIE
nobody else reaps. `Control` collects these facts: `LocalsOK` (at each place,
which locals are set), `SlotOK` (state of a slot against the call that builds or
reaps it), `ForksOK` (one fork builds a slot) and `WaitsOK` (one wait reaps at a
time). The inductive invariant is `RunInv`: `TypeOK`, and `Control` unless the
kernel has panicked, as a panic may stop a call between two of its writes. The
proof has a lemma for each action, under it one step for each conjunct the action
can disturb, and lemmas for the operators that several actions share
(`Kalloc`, `Kfree`, the page-table writes, and the steps that move one process
while leaving the others alone).

For the same instances it proves, further:

- `RefcCorrect`: `Spec => []RefcExact`;
- `FreeListCorrect`: `Spec => []FreeListSound`.

A count changes by one in a step and so must the number of uses, which is a sum of
cardinalities over all tables, slots and locals. Two kinds of facts carry this.
First, how a step changes each cardinality: `DiffersAt` says what one element more
or less does, and a lemma for each place that holds pages (`MapMoves`, `UtabMoves`,
`KtabAdds`, `DirMoves`, `StackMoves`, `HandTurns`, `PendMoves`) says it of that
place. Second, what the step overwrites: a use is lost when an entry that held a
page is given another one. `CountInv` therefore has, besides the counts, that
directories have one owner (`OneOwner`), that a page which is no directory has
empty tables (`Clear`: `setupkvm` writes over them), and for each place of the
kernel what is still empty there (`Hands`: the entries `copyuvm` has not come to,
the stack of the slot `allocproc` fills, the entry the fault handler is about to
change). That kfree is never given a page whose count is 0 needs one more
argument: a page that `copyuvm` has mapped and not counted has one use more than it
has such mappings, the parent's (`Bound`). The invariant holds in states after a
panic too.

- `NoLeakCorrect`: for `NCPU = 1`, `Spec => []NoLeak`.

With two processors `NoLeak` is false, as `cow_leak` shows, and the proof says why one is
enough. `LeakInv` adds that a page whose count is 0 is on the free list, and that a
handler which found its page shared finds it shared until `decr_refc`, which never
frees: nobody else can give up a reference in between, since the handler holds the
only processor.

`CowPrivateProofs` proves, when `"shrinkall"` is not among `Calls`:

- `PrivateCorrect`: `Spec => []WritableIsPrivate`;
- `CountersCorrect`: `Spec => []CountersAgree`;
- `PanicCorrect`: `Spec => []NoInternalPanic`, when also `Stray # "unmapped"`.

The hypotheses are those of the run `cow`, and the code needs them. An `sbrk` of minus the
whole size frees the pages and keeps `sz` and the cached translations (`proc.c` takes the
new size 0 for an error): what the process then writes is on the free list, and its next
`fork` panics. A stray access to an unmapped page panics in the handler itself.

`WritableIsPrivate` speaks of processes in user mode; what makes it true has to be
followed through every call. `PrivInv` says of page tables that an absent page has no
permissions (`PteSound`) and that a writable one is mapped once (`Private`); of a page
just allocated that nothing maps it and one process has it in hand (`Freshes`); of each
process that the pages below its size, and no others, are mapped, with the exact boundary
at each place of a call that grows, shrinks, copies or replaces the image (`OwnImage`,
`NewImage`); that a handler which read the count 1 makes writable a page that still has
one mapping (`OwnDue`: between the two sections another processor may only take
references away); and that a translation still cached is what the page table has, of a
page mapped there and in the child under construction only, or is one that the flush at
the end of this call throws away (`TlbOK`). The last is why the order in `copyuvm` is
right although it closes the parent's entries long before it flushes. Each conjunct has a
lemma for each kind of step that changes page tables; the counts of `CountInv` are needed
where the handler decides by a count.

It also proves, when `"shrinkall"` is not among `Calls` and `Stray # "guard"`:

- `ImageCorrect`: `Spec => ImplementsPrivateVm`, the refinement.

The second hypothesis is needed too: the handler opens a page that `exec` has closed when
a program stores to it and a fork has shared it (`GuardStaysClosed`, above).

Every step of the kernel is a step of `PrivateVm` on the images or leaves them as they are.
Two things have to be shown of each action. For the processes that do not move, that
their images stay: `VmBystander` has the two conditions, that the step writes only to page
tables of the process that moves (`Rows`), and to contents only of pages that nobody uses,
that it has in hand or that it alone maps (`Touches`); the second is where `Private`, `TlbOK`
and the counts are spent. For the process that moves, `ImageKept` says when its image stays,
and `ForkCommit`, `ExecCommit`, `Store`, `Shrink`, `GrowDone`, `Exit` and `InitDone` are
the steps where one changes. `VmInv` adds what these need: a mapped page holds a value
(`Holds`); the child's page table has its parent's pages and user bits as far as
`copyuvm` has come, at every step between, though the parent's entries are closed on the way
(`Copies`); what `sbrk` has added so far is zero (`HandZero`, `GrowNew`); what `exec` and
`userinit` build is theirs alone (`BuildNew`); a translation or a fault is for a page
the user may touch (`TlbUser`, `FaultUser`); no image is empty (`Sizes`), and the first
process starts before there is any other (`BootFirst`).

`LogProofs` proves, for any finite set of processes, any sets of blocks and values,
and any sizes of the log that satisfy the assumptions:

- `TypeCorrect`: `Spec => []TypeOK`;
- `RoomCorrect`: `Spec => []LogHasRoom`;
- `PinnedCorrect`: `Spec => []PinnedWhileLogged`;
- `AtomicCorrect`: `Spec => Atomic!Spec`, the refinement of `AtomicDisk`;
- `SleepersCorrect`: `Spec => []SleepersHaveWaker`.

They rest on `LogAssumption` (what the constants are) and `CallsFit`, which is what the
callers owe the log: a call writes fewer blocks than the `MAXOPBLOCKS` it reserves,
and `LOGSIZE - 2 * (MAXOPBLOCKS - MaxWrites) <= LogBlocks - 2`. With the 30, 10 and 30
of the code this allows nine blocks a call. Two is the number of calls because the
first call of a group finds the log empty, so only the second can be admitted at
the limit.

`LogHasRoom` is not inductive: the admission test counts reservations of calls in
progress, and what those have already logged is part of `Len(log.lh)`. `Room` bounds
the sum of the log and of `Reserved`, a set with one element for each write a call
may still make: `begin_op` adds `MaxWrites` elements, a first write of a block
removes one and adds at most one entry, `end_op` only removes. It needs `Counted`
(`outstanding` is the number of calls in progress), `OneCommits`, and `LogEmpty`. The
refinement adds three facts about the disk: a buffer that is neither pinned nor in
use is what the disk has (`Clean`); the log's blocks have what the cache has, as far
as `write_log` has come (`Copied`); and recovery has copied them home as far as it has
come (`Replayed`). `WriteHead` is the only step that changes what recovery would
find, and changes it to what the calls of the group wrote. `IInv` and `DInv` were
checked with TLC on the instance of `MCLog` first.

`BioProofs` proves, for any finite set of processes, any blocks and values, and any
number of buffers, whether `bget` panics or not:

- `TypeCorrect`: `Spec => []TypeOK`;
- `CacheCorrect`: `Spec => []CacheExact`;
- `BufferFound`: `Spec => []NoPanic`, when `EnoughBuffers`: there are at least as many
  buffers as processes and pinned blocks together;
- `StoreCorrect`: `Spec => ImplementsBlockStore`, a refinement.

The inductive invariant says of the buffers that no block is in two (`Unique`), that a
process inside a call has a buffer with a block (`Seated`), that `refcnt` is the number
of processes that have the buffer (`Counted`), and that at most `MaxPinned` dirty
buffers wait for no process (`FewPinned`); of the sleep locks that a lock is held by `p`
exactly when `p` is at a place that holds its buffer (`Locked`), where the buffer is
valid once it was read (`Known`); and of the driver that a request is in the queue once,
that the queue is the buffers of the processes that wait, with the first one started
(`Once`, `Served`, `Started`). `Filled` is what the refinement adds: a valid buffer that
is not dirty has what the disk has. `BufferFound`, the only one that rests on
`EnoughBuffers`, is a counting argument: if every buffer were in use or pinned, the processes and the pinned
blocks would be at least as many as buffers, without the process that asks.

`PipeProofs` proves, from `PipeAssumption` alone, for any set of processes, any
descriptors they start with, any ring size and any wrap of the counters that is a
multiple of it:

- `SoundCorrect`: `Spec => []Sound`;
- `ChannelCorrect`: `Spec => ImplementsChannel`, a refinement.

The inductive invariant has who holds each lock at which place (`LocksHeld`), what the
locals mean there (`Locals`), that an end is open exactly while a process has a
descriptor of it or is between `fileclose` and `pipeclose` with the last one
(`EndsOpen`), that `nwrite - nread` modulo `Wrap` is at most `PIPESIZE` and the slots
between them hold bytes (`Buffered`), and that a read at its copying loop which finds
the ring empty before its first byte has found an end nobody can write to (`EndSeen`).
The queue of the channel is what lies in the ring between the counters: that one more
`nwrite` appends to it and one more `nread` takes its first, also where the counters
wrap, are lemmas about `%`, for every ring size that divides the wrap. The code's is
2^32 over 512; with a ring size that does not divide 2^32 the lemmas, and the code,
would be wrong.

`LwpProofs` proves, for any number of slots, pids, tids, directories and pages and for
any programs, when `CPUs` has one processor (`OneCpu`) and `AnyJoin` is FALSE:

- `TypeCorrect`: `Spec => []TypeOK`;
- `OriginCorrect`: `Spec => []OneOrigin`;
- `LastCorrect`: `Spec => []LastThread`;
- `DirsCorrect`: `Spec => []DirsExact`;

and, when moreover `"thread_join" \notin Calls(InitProc)`:

- `JoinsWoken`: `Spec => []NoLostJoin`;
- `KilledEnds`: `Spec => []KilledCanEnd`.

One processor is what `bootxv6.sh` starts, and the theorems need it: with two, a join, an
`exec` or an `exit` frees the slot of a thread that another processor still runs (P03
`lwp.c:127`). That programs join threads of their own is all the code provides for (see
the bounds of `Lwp`). Init becomes the parent of threads whose creator has gone, under
the channel a join of init's would sleep on; `init.c` only forks, starts the shell and waits.

The invariant `IInv` has the three properties and what they rest on. Slots not in use are
blank but for a `killed` mark that `kill(0)` may set (`Blanks`), and pids and tids are below
the next to be given out (`Ids`). `Places` relates three things the code keeps apart: the
state of a slot, whether a processor runs it, and where its thread is. It knows that a thread in
`thread_exit` is ZOMBIE and still runs (`dying`), and that `exec` and `exit` go on in the
origin only. `Fillings` is about the slot `thread_create` or `fork` is filling while
`ptable.lock` is free: it is EMBRYO, no two threads fill the same, a thread's has its
creator's pid, a process's has a directory from the copy on. Without it the last section
of either call could put a directory where somebody else has one. `NewAlone` says that a
process under construction has no threads, and `DirOwn` that two slots with one
directory have one pid, so that giving up a directory with the last thread of the pid leaves
no user behind. `TidsOnce` and `JoinArgs` make `thread_join` reap one slot and never an origin.

`KInv` adds what joins and kills need. The creator of a thread is in the table, of the same
process and older, or init has adopted the thread (`Kinship`); what a join waits for has
not been reaped (`JoinDue`) and has yet to wake it if it sleeps (`SleepDue`). A process is killed as a
whole, but for threads that have made no call since they were born (`KilledAlike`), and a
killed thread sleeps in `thread_join` only (`KilledJoins`). A killed thread that sleeps
therefore waits for a younger thread of its process, which is killed too
and not over (`KilledAwaits`). The youngest of those is not asleep (`KilledGoesOn`), which
is what `KilledCanEnd` says: `thread_join`'s ignoring of `killed` delays the end of
a process and does not prevent it. That there is a youngest is the lemma `Least`, from the
well-foundedness of `<` on the naturals.

`FsProofs` proves, for any finite sets of processes and names, any number of inodes, open
files, descriptors and blocks, and any programs of calls that `CallsAssumption` calls well
formed:

- `TypeCorrect`: `Spec => []TypeOK`;
- `CountsCorrect`: `Spec => []CountsExact`;
- `LinksCorrect`: `Spec => []LinksCover`;
- `CirclesCorrect`: `Spec => []CirclesNeedIput`;
- `OpenCorrect`: `Spec => OpenStays`, an action property;
- `PanicsFew`: the kernel panics because inodes, entries of the inode cache or blocks
  have run out, or with `ilock: no type`, and for nothing else;
- `PanicsCorrect`: `Spec => []NoInternalPanic`, when `DotDotFirst`.

`CallsAssumption` says that a call's paths name something: an empty path, or `/` alone where a
parent is looked for, fails in `namex` before it changes anything. `DotDotFirst` says that no path
has `..` after another name. It is needed, as said above, and only for the last theorem.

None of the properties is inductive. `CountsExact` compares a count with a sum of
cardinalities over the tables and over the calls on their way; `DiffersAt` says what one
element more or less does to such a cardinality, and `Recount` what it does to the
sum. Which element that is depends on where each call is: `LocalInv` has, for every
place of a call, which inodes it holds a reference to (`Shapes`), and that a sleep lock is
held by `p` exactly when `p` is at a place that holds it (`LockInv`). `LinksCover`
holds at every step because `link` counts a name before it writes it and `unlink` erases
one before it discounts it, and for the same reason is not inductive: `LinkInv` adds the
names that calls owe (`OweN`), and counts among the names of a directory its
subdirectories' `..`, as far as they are in the tree. That a decrement in `unlink` takes
the name it found and no other needs the tree: a directory has one name and its `..` is the directory which has that name
(`NamedWell`), so that the parent `unlink` decrements is the one the victim counted.
`FilesInv` and `ValidInv` say that an open file and a valid cache entry are of an inode in
use, `EntInv` that a free inode is blank and only directories have entries, and `CountInv`
has the counts of references, descriptors and blocks, and that no block is in two files.
`CirclesNeedIput` follows from `LockInv` and the tree: a call that holds one lock and
waits for another, but in `iput`, waits for an entry of the directory it holds, and no
directory has the one it is in among its entries.

The panic proof adds `SoftInv`: a call can come to an inode that has been freed only through the `..`
of a directory that was removed while it was somebody's current one (`FromUp`,
`Climbs`). `OpenStays` follows from `Frees`: the one step that frees an inode is the
one which puts its last reference, and an open file is a reference.

The inductive invariants were checked with TLC on the instances of the runs before they
were proved.

`MlfqProofs` proves, for any number of slots, processors, pids, priorities and quanta and
for any programs:

- `TypeCorrect`: `Spec => []TypeOK`;
- `HeldOnce`: `Spec => []NoDuplicates`;
- `MovesAsDrawn`: `Spec => LevelMoves`, an action property;
- `RingsCorrect`: the rings hold the sequences, `Rings!RingMatches(Procs)`;

and, when `CPUs` has one processor (`OneCpu`):

- `NobodyIsLost`: `Spec => []RunnableIsQueued`;
- `ServesHighest`: `Spec => HighestFirst`;
- `BoostReaches`: `Spec => BoostReachesAll`.

With two processors TLC finds counterexamples to the last three. A process that runs from L3 stays in the
queue, where the other processor's `ByPriority` drops it because it is not RUNNABLE; a
process that yields for a boost is back in L0, where `RoundRobin` on the other processor
can pop it; and `setmonopoly` can move a process that runs. On one processor nobody looks
at the queues while a process runs.

`BInv` is the invariant for any number of processors: the types, that no queue holds a
process twice (`Queues`), that what a processor runs is RUNNING and no other processor
runs it, and that a slot being filled is EMBRYO and filled by one fork
(`Places`: `CpuOK`, `CpuOne`, `ForkOK`, `ForkOne`). `QInv` adds for one processor `Queued`,
the property, and `Kept`: who runs from L3 or the monopoly queue without having left it is
still in the queue of its level. That is what makes a yield safe, since `scheduler()`
pushes back only who came from L0, L1 or L2. A slot that is reused can be in a queue its
last process left it in (the stale entry of `MoqWaits`); the invariant does not
forbid it, and the theorems hold with it. Every action has a lemma that it has the
`Outcome`: `BInv` and, on one processor, `QInv` afterwards, and what the action properties
say of the step. Four shapes of step carry what actions share: one that leaves queues and states alone
(`Remains`), that gives the processor up (`Leaves`), that drops an entry of a process which
is not runnable (`Drops`), or that starts a process (`StartIs`).

`PushAll` is a recursive function, and the induction theorems of the library cannot be
instantiated; that a set of numbers has a least element (`Least`, from the
well-foundedness of `<`) gives induction over the number of pushes (`Induct`) and
that the function exists (`Recursion`), so that `PushedAll` says for every queue and every
sequence who is in the result. The proof about the rings needs no induction: a ring is a function of
its first cell and of the sequence it holds (`RingOf`), indices modulo `NPROC + 1` are taken
apart once (`Indices`), and each operation is followed at every cell. That a push finds
room is `LineFits`: a sequence of slots without duplicates has at most `NPROC`.

Only model-checked: the runs that end in a disagreement, and what is out of the provers'
reach, liveness under fairness (`NoStarvation`, `SleepersWake`, `IoCompletes`,
`WaitersWake`). Every invariant and every other action property of the passing runs, and
every refinement, is a theorem.

## Not modelled

`PROJECT.json` lists every component with its status. Of the kernel, device
drivers other than the disk's, boot and trap dispatch stay out: they are I/O or run
once. The copies of stock files in Project01 to Project03 are the same code as
Project04's but for the changes modelled here, and user programs (`usertests.c`
alone is 1800 lines in each copy) only drive the kernel. Of the modelled components, `Cow`
leaves out file descriptors, sleeping and `kill`; `copyout`, which writes a new
image before anybody can see it, is part of `exec`; `Mlfq` leaves out memory;
`Lwp` leaves out open files, the log and the contents of pages. On two processors
a thread removed by another goes on running without a slot: `Lwp` has the steps
that lead there, but what follows is undefined and the runs have one processor,
as `bootxv6.sh` of P03 starts.

## Plan

Each row builds on what is above it; the order is by how much of the projects'
own logic a module carries.

| step | modules | abstract specification | runs | theorems |
|---|---|---|---|---|
| 1 (done) | `Cow`, `MCCow`, `CowProofs` | `PrivateVm` | `cow`, `cow_three`, one disagreement | types and control |
| 2 (done) | `Mlfq`, `RingQueue`, `MCMlfq` | | `mlfq`, `mlfq_starvation` | |
| 3 (done) | `Lwp`, `MCLwp` | | `lwp`, one disagreement | |
| 4 (done) | `Log`, `MCLog`, `LogProofs` | `AtomicDisk` | `log` | types, room, pinning, refinement |
| 5 (done) | `Fs`, `MCFs` | | `fs`, one disagreement | |
| 6 (done) | `Bio`, `MCBio`, `BioProofs` | `BlockStore` | `bio` | types, the cache, when a buffer is found, refinement |
| 7 (done) | `Pipe`, `MCPipe`, `PipeProofs` | `Channel` | `pipe` | locks and lifetime, refinement |
| 8 (done) | `CowProofs` | | | `RefcExact`, `FreeListSound`, `NoLeak` for all sizes |
| 9 (done) | `CowPrivateProofs` | | | `WritableIsPrivate`, `CountersAgree`, `NoInternalPanic` |
| 10 (done) | `CowPrivateProofs` | | | the refinement of `PrivateVm` |
| 11 (done) | `LwpProofs` | | | `OneOrigin`, `LastThread`, `DirsExact`, `NoLostJoin`, `KilledCanEnd` for any number of slots |
| 12 (done) | `MlfqProofs` | | | all safety properties of `Mlfq`, `RingMatches` for every `NPROC` |
| 13 (done) | `FsProofs` | | | all safety properties of `Fs` for any number of inodes, calls and processes |
| 14 | `XchgLock` | a lock | P03 `pthread_lock_linux.c` | mutual exclusion |
