-------------------------------- MODULE Lwp ---------------------------------
(***************************************************************************)
(* Light-weight processes of Project03/xv6-public: threads are slots of    *)
(* ptable.proc that share a pid and a page directory (lwp.c), and fork,    *)
(* exec, sbrk, exit, wait and kill know about them (proc.c, exec.c).       *)
(*                                                                         *)
(* One step is one section of ptable.lock, or the code without a lock from *)
(* one such section to the next.  A page directory is a number; an address *)
(* is a page number.  Kernel stacks come and go with their slots; the      *)
(* memory for stacks, tables and pages is taken to suffice, so what fails  *)
(* for lack of room is the process table and the user half of an address   *)
(* space.  README.md is Project03/README.md.                               *)
(***************************************************************************)
EXTENDS Integers, FiniteSets

CONSTANTS
    NPROC,         \* slots of ptable.proc
    CPUs,          \* processors
    NoProc,        \* the null process pointer
    NoDir,         \* the null page directory pointer
    MaxPid,        \* bound: pids handed out
    MaxTid,        \* bound: tids handed out
    MaxSz,         \* pages of the largest user address space (below KERNBASE)
    ImageSz,       \* pages of a program's initial image
    StackSz,       \* pages of a thread's stack with its guard page (2 in the code)
    TargetPids,    \* pids given to kill
    Calls(_),      \* the system calls the program of a slot makes
    AnyJoin        \* whether programs join threads that are not their own

Procs == 1 .. NPROC
InitProc == 1
Dirs  == 1 .. NPROC + 1
VA    == 0 .. MaxSz - 1

ASSUME LwpAssumption ==
    /\ NPROC \in Nat \ {0} /\ NoProc \notin Procs /\ NoDir \notin Dirs
    /\ MaxPid \in Nat \ {0} /\ MaxTid \in Nat
    /\ ImageSz \in Nat \ {0} /\ StackSz \in Nat \ {0} /\ MaxSz \in Nat /\ ImageSz <= MaxSz
    /\ TargetPids \subseteq 0 .. MaxPid
    /\ AnyJoin \in BOOLEAN

VARIABLES
    proc,       \* ptable.proc, with where each thread is in the kernel
    cpu,        \* the slot each CPU runs
    dirs,       \* page directories in existence
    mem,        \* the user pages each of them maps
    nextpid, nexttid,
    panic       \* why the kernel stopped, or "none"

memory == <<dirs, mem>>
vars   == <<proc, cpu, memory, nextpid, nexttid, panic>>

(* A slot after init_proc; at, np and arg are where its thread is in the    *)
(* kernel, the slot it is filling, and an argument or local of its call.    *)
Blank == [state |-> "UNUSED", pid |-> 0, tid |-> 0, parent |-> NoProc,
          origin |-> NoProc, sleeps |-> "no", killed |-> FALSE, pgdir |-> NoDir,
          sz |-> 0, at |-> "none", np |-> NoProc, arg |-> 0]

InUse(p) == proc[p].state # "UNUSED"
Free(p)  == ~InUse(p) /\ \A r \in Procs : r < p => InUse(r)
Family(p) == {q \in Procs : proc[q].pid = proc[p].pid}

On(p) == \E c \in CPUs : cpu[c] = p
Leaves(p) == cpu' = [c \in CPUs |-> IF cpu[c] = p THEN NoProc ELSE cpu[c]]

(* A thread back from the sleep() of wait or join holds ptable.lock.        *)
Locked == \E p \in Procs : On(p) /\ proc[p].state = "RUNNING" /\ proc[p].at \in {"wait", "join"}

Runs(p, at) == panic = "none" /\ ~Locked /\ On(p) /\ proc[p].state = "RUNNING" /\ proc[p].at = at
Enters(p, call) == Runs(p, "user") /\ ~proc[p].killed /\ call \in Calls(p)

(* The loop body of wait or join after a sleep.                             *)
Loops(p, at) == panic = "none" /\ On(p) /\ proc[p].state = "RUNNING" /\ proc[p].at = at

Panic(msg) == panic' = msg /\ UNCHANGED <<proc, cpu, memory, nextpid, nexttid>>

(* wakeup1 on the slots of set S, in a process table pr: waiters and        *)
(* joiners sleep on their own slot.                                         *)
Woken(pr, S) ==
    [p \in Procs |-> IF p \in S /\ pr[p].state = "SLEEPING" /\ pr[p].sleeps = "self"
                     THEN [pr[p] EXCEPT !.state = "RUNNABLE", !.sleeps = "no"]
                     ELSE pr[p]]

(* The children of p go to init, which is woken if one is a zombie, and     *)
(* p's parent is woken: exit and thread_exit.                               *)
Abandon(p) ==
    LET kids   == {q \in Procs : proc[q].parent = p}
        called == {proc[p].parent} \union
                  {q \in {InitProc} : \E k \in kids : proc[k].state = "ZOMBIE"}
    IN Woken([q \in Procs |-> IF q \in kids THEN [proc[q] EXCEPT !.parent = InitProc]
                                            ELSE proc[q]], called)

-----------------------------------------------------------------------------
(* vm.c.                                                                    *)

Pages(from, to) == {v \in VA : from <= v /\ v < to}
Remaps(d, new)  == new \intersect mem[d] # {}
MapsIn(d, new)  == mem' = [mem EXCEPT ![d] = @ \union new] /\ UNCHANGED dirs
(* allocuvm's limit, KERNBASE, off by one page.                             *)
TooBigBug(sz)   == sz > MaxSz + 1
TooBig(sz)      == sz > MaxSz
NewDir(d)       == d \in Dirs \ dirs /\ \A e \in Dirs \ dirs : d <= e

-----------------------------------------------------------------------------
(* scheduler() and the timer's yield().                                     *)

(* swtch to p; switchuvm insists on a page directory.                       *)
Schedule(c, p) ==
    /\ panic = "none" /\ ~Locked /\ cpu[c] = NoProc
    /\ proc[p].state = "RUNNABLE"
    /\ IF proc[p].pgdir = NoDir
       THEN Panic("switchuvm: no pgdir")
       ELSE /\ cpu' = [cpu EXCEPT ![c] = p]
            /\ proc' = [proc EXCEPT ![p].state = "RUNNING"]
            /\ UNCHANGED <<memory, nextpid, nexttid, panic>>

Yield(p) ==
    /\ panic = "none" /\ ~Locked /\ On(p) /\ proc[p].state = "RUNNING"
    /\ proc' = [proc EXCEPT ![p].state = "RUNNABLE"]
    /\ Leaves(p)
    /\ UNCHANGED <<memory, nextpid, nexttid, panic>>

(* A sleep on something else than a slot, and the interrupt that ends all.  *)
Sleep(p) ==
    /\ Enters(p, "sleep")
    /\ proc' = [proc EXCEPT ![p].state = "SLEEPING", ![p].sleeps = "io"]
    /\ Leaves(p)
    /\ UNCHANGED <<memory, nextpid, nexttid, panic>>

Interrupt ==
    LET done == {p \in Procs : proc[p].state = "SLEEPING" /\ proc[p].sleeps = "io"} IN
    /\ panic = "none" /\ ~Locked /\ done # {}
    /\ proc' = [p \in Procs |->
          IF p \in done THEN [proc[p] EXCEPT !.state = "RUNNABLE", !.sleeps = "no"] ELSE proc[p]]
    /\ UNCHANGED <<cpu, memory, nextpid, nexttid, panic>>

-----------------------------------------------------------------------------
(* lwp.c.                                                                   *)

(* thread_create up to its first release.  A full table makes alloclwp      *)
(* return a null pointer, which init_proc follows into user memory and      *)
(* kfrees what it finds there.                                              *)
ThreadCreate(p) ==
    /\ Enters(p, "thread_create") /\ nexttid <= MaxTid
    /\ \/ (\A l \in Procs : InUse(l)) /\ Panic("kfree")
       \/ \E l \in Procs :
          LET ori == IF proc[p].tid = 0 THEN p ELSE proc[p].origin
              old == proc[ori].sz
              new == old + StackSz
          IN /\ Free(l)
             /\ \/ /\ TooBig(new)
                   /\ proc' = [proc EXCEPT ![ori].sz = 0, ![l] = Blank]
                   /\ nexttid' = nexttid + 1
                   /\ UNCHANGED <<cpu, memory, nextpid, panic>>
                \/ /\ ~TooBig(new) /\ Remaps(proc[p].pgdir, Pages(old, new))
                   /\ Panic("remap")
                \/ /\ ~TooBig(new) /\ ~Remaps(proc[p].pgdir, Pages(old, new))
                   /\ MapsIn(proc[p].pgdir, Pages(old, new))
                   /\ proc' = [q \in Procs |->
                         CASE q = l -> [proc[l] EXCEPT !.state = "EMBRYO", !.tid = nexttid,
                                           !.pid = proc[p].pid, !.parent = p, !.origin = ori,
                                           !.pgdir = proc[p].pgdir, !.sz = new]
                           [] q = p -> [proc[p] EXCEPT !.sz = new, !.at = "create", !.np = l]
                           [] q \in Family(p) \ {l, p} -> [proc[q] EXCEPT !.sz = new]
                           [] OTHER -> proc[q]]
                   /\ nexttid' = nexttid + 1
                   /\ UNCHANGED <<cpu, nextpid, panic>>

(* Its second section, after the files are shared.                          *)
CreateDone(p) ==
    /\ Runs(p, "create")
    /\ proc' = [proc EXCEPT ![proc[p].np].state = "RUNNABLE", ![proc[p].np].at = "user",
                            ![p].at = "user", ![p].np = NoProc]
    /\ UNCHANGED <<cpu, memory, nextpid, nexttid, panic>>

(* thread_exit marks itself ZOMBIE, then takes ptable.lock.                 *)
ThreadExitMark(p) ==
    /\ Enters(p, "thread_exit")
    /\ IF proc[p].tid = 0
       THEN Panic("thread_exit - not lwp")
       ELSE /\ proc' = [proc EXCEPT ![p].state = "ZOMBIE", ![p].at = "dying"]
            /\ UNCHANGED <<cpu, memory, nextpid, nexttid, panic>>

(* Without wakeup1(lwp->parent).                                            *)
ThreadExitBug(p) ==
    /\ panic = "none" /\ ~Locked /\ On(p) /\ proc[p].at = "dying"
    /\ proc' = [q \in Procs |-> IF q = p THEN [proc[p] EXCEPT !.at = "none"]
                                ELSE IF proc[q].parent = p
                                THEN [proc[q] EXCEPT !.parent = InitProc] ELSE proc[q]]
    /\ Leaves(p)
    /\ UNCHANGED <<memory, nextpid, nexttid, panic>>

ThreadExit(p) ==
    /\ panic = "none" /\ ~Locked /\ On(p) /\ proc[p].at = "dying"
    /\ proc' = [Abandon(p) EXCEPT ![p].at = "none"]
    /\ Leaves(p)
    /\ UNCHANGED <<memory, nextpid, nexttid, panic>>

(* thread_join scans for the tid alone, in every process; it neither gives  *)
(* up when there is no such thread nor when it is killed.                   *)
Joins(p) ==
    IF AnyJoin THEN 0 .. MaxTid
    ELSE {proc[q].tid : q \in {r \in Procs : proc[r].parent = p /\ proc[r].tid # 0}}

ThreadJoin(p, thread) ==
    /\ \/ Enters(p, "thread_join") /\ thread \in Joins(p)
       \/ Loops(p, "join") /\ thread = proc[p].arg
    /\ LET ended == {q \in Procs : proc[q].tid = thread /\ proc[q].state = "ZOMBIE"} IN
       \/ \E q \in ended :
             /\ \A r \in ended : q <= r
             /\ proc' = [proc EXCEPT ![q] = [Blank EXCEPT !.at = proc[q].at],
                                     ![p].at = "user", ![p].arg = 0]
             /\ UNCHANGED cpu
       \/ /\ ended = {}
          /\ proc' = [proc EXCEPT ![p].state = "SLEEPING", ![p].sleeps = "self",
                                  ![p].at = "join", ![p].arg = thread]
          /\ Leaves(p)
    /\ UNCHANGED <<memory, nextpid, nexttid, panic>>

(* thread_removeall(curproc->pid) by p, which becomes the origin: a slot    *)
(* taken from a thread that another processor runs does not stop it.        *)
RemovedBug(p) == Family(p) \ {p, proc[p].origin}
Removed(p) == Family(p) \ {p}

(* swap_origin without its reset of tid.                                    *)
RemoveAllBug(p, at) ==
    proc' = [q \in Procs |->
        CASE q \in Removed(p) -> Blank
          [] q = p /\ proc[p].tid # 0 ->
                [proc[p] EXCEPT !.parent = proc[proc[p].origin].parent,
                                !.origin = NoProc, !.at = at]
          [] q = p /\ proc[p].tid = 0 -> [proc[p] EXCEPT !.at = at]
          [] OTHER -> proc[q]]

RemoveAll(p, at) ==
    proc' = [q \in Procs |->
        CASE q \in Removed(p) -> [Blank EXCEPT !.at = IF On(q) THEN proc[q].at ELSE "none"]
          [] q = p /\ proc[p].tid # 0 ->
                [proc[p] EXCEPT !.parent = proc[proc[p].origin].parent,
                                !.origin = NoProc, !.tid = 0, !.at = at]
          [] q = p /\ proc[p].tid = 0 -> [proc[p] EXCEPT !.at = at]
          [] OTHER -> proc[q]]

-----------------------------------------------------------------------------
(* proc.c and exec.c.                                                       *)

(* fork: allocproc takes a slot; copyuvm copies the pages below the size    *)
(* read before; then the slot gets the size and parent, and is runnable.    *)
Fork(p) ==
    /\ Enters(p, "fork") /\ nextpid <= MaxPid
    /\ \E np \in Procs :
          /\ Free(np)
          /\ proc' = [proc EXCEPT ![np].state = "EMBRYO", ![np].pid = nextpid,
                                  ![p].at = "fork", ![p].np = np, ![p].arg = proc[p].sz]
    /\ nextpid' = nextpid + 1
    /\ UNCHANGED <<cpu, memory, nexttid, panic>>

ForkCopy(p) ==
    /\ Runs(p, "fork")
    /\ IF Pages(0, proc[p].arg) \subseteq mem[proc[p].pgdir]
       THEN \E d \in Dirs :
              /\ NewDir(d)
              /\ dirs' = dirs \union {d}
              /\ mem' = [mem EXCEPT ![d] = Pages(0, proc[p].arg)]
              /\ proc' = [proc EXCEPT ![proc[p].np].pgdir = d, ![p].at = "copied", ![p].arg = 0]
              /\ UNCHANGED <<cpu, nextpid, nexttid, panic>>
       ELSE Panic("copyuvm: page not present")

ForkDone(p) ==
    /\ Runs(p, "copied")
    /\ proc' = [proc EXCEPT ![proc[p].np] =
                    [@ EXCEPT !.state = "RUNNABLE", !.tid = 0, !.parent = p,
                              !.sz = proc[p].sz, !.at = "user"],
                            ![p].at = "user", ![p].np = NoProc]
    /\ UNCHANGED <<cpu, memory, nextpid, nexttid, panic>>

(* sbrk reads the size it will return, then growproc takes ptable.lock.     *)
Sbrk(p) ==
    /\ Enters(p, "sbrk")
    /\ proc' = [proc EXCEPT ![p].at = "sbrk", ![p].arg = proc[p].sz]
    /\ UNCHANGED <<cpu, memory, nextpid, nexttid, panic>>

Resized(p, sz) ==
    [q \in Procs |->
        IF q = p THEN [proc[p] EXCEPT !.sz = sz, !.at = "user", !.arg = 0]
        ELSE IF q \in Family(p) THEN [proc[q] EXCEPT !.sz = sz] ELSE proc[q]]

SbrkFails(p) ==
    proc' = [proc EXCEPT ![p].at = "user", ![p].arg = 0]

Size(p) == proc[IF proc[p].tid = 0 THEN p ELSE proc[p].origin].sz

Grow(p) ==
    /\ Runs(p, "sbrk")
    /\ LET old == Size(p)
           new == Pages(old, old + 1)
       IN \/ TooBig(old + 1) /\ SbrkFails(p) /\ UNCHANGED <<memory, panic>>
          \/ /\ ~TooBig(old + 1) /\ ~Remaps(proc[p].pgdir, new)
             /\ MapsIn(proc[p].pgdir, new)
             /\ proc' = Resized(p, old + 1)
             /\ UNCHANGED panic
          \/ /\ ~TooBig(old + 1) /\ Remaps(proc[p].pgdir, new)
             /\ panic' = "remap"
             /\ UNCHANGED <<proc, memory>>
    /\ UNCHANGED <<cpu, nextpid, nexttid>>

(* deallocuvm's new size 0 is an error to growproc, the pages being gone.   *)
Shrink(p) ==
    /\ Runs(p, "sbrk")
    /\ LET old == Size(p) IN
       IF old = 0
       THEN SbrkFails(p) /\ UNCHANGED memory
       ELSE /\ mem' = [mem EXCEPT ![proc[p].pgdir] = @ \ Pages(old - 1, old)]
            /\ IF old = 1 THEN SbrkFails(p) ELSE proc' = Resized(p, old - 1)
            /\ UNCHANGED dirs
    /\ UNCHANGED <<cpu, nextpid, nexttid, panic>>

(* exec drops the other threads, builds an image, and either commits it or  *)
(* fails and gives it back.                                                 *)
Exec(p) ==
    /\ Enters(p, "exec")
    /\ RemoveAll(p, "exec")
    /\ UNCHANGED <<cpu, memory, nextpid, nexttid, panic>>

ExecCommit(p) ==
    /\ Runs(p, "exec")
    /\ \E d \in Dirs :
          /\ NewDir(d)
          /\ dirs' = (dirs \union {d}) \ {proc[p].pgdir}
          /\ mem' = [mem EXCEPT ![d] = Pages(0, ImageSz), ![proc[p].pgdir] = {}]
          /\ proc' = [proc EXCEPT ![p].pgdir = d, ![p].sz = ImageSz, ![p].at = "user"]
    /\ UNCHANGED <<cpu, nextpid, nexttid, panic>>

ExecBad(p) ==
    /\ Runs(p, "exec")
    /\ proc' = [proc EXCEPT ![p].at = "user"]
    /\ UNCHANGED <<cpu, memory, nextpid, nexttid, panic>>

(* A program exits by itself or because it was killed.                      *)
Exit(p) ==
    /\ p # InitProc
    /\ Enters(p, "exit") \/ (Runs(p, "user") /\ proc[p].killed)
    /\ RemoveAll(p, "exit")
    /\ UNCHANGED <<cpu, memory, nextpid, nexttid, panic>>

ExitDone(p) ==
    /\ Runs(p, "exit")
    /\ proc' = [Abandon(p) EXCEPT ![p].state = "ZOMBIE", ![p].at = "none"]
    /\ Leaves(p)
    /\ UNCHANGED <<memory, nextpid, nexttid, panic>>

(* wait frees a directory only with a process, not with one of its threads. *)
FreesBug(q) == TRUE
Frees(q) == proc[q].tid = 0

Wait(p) ==
    /\ Enters(p, "wait") \/ Loops(p, "wait")
    /\ LET kids    == {q \in Procs : proc[q].parent = p}
           zombies == {q \in kids : proc[q].state = "ZOMBIE"}
       IN \/ \E q \in zombies :
                /\ \A r \in zombies : q <= r
                /\ IF Frees(q)
                   THEN /\ dirs' = dirs \ {proc[q].pgdir}
                        /\ mem' = [mem EXCEPT ![proc[q].pgdir] = {}]
                   ELSE UNCHANGED memory
                /\ proc' = [proc EXCEPT ![q] = [Blank EXCEPT !.at = proc[q].at],
                                        ![p].at = "user"]
                /\ UNCHANGED cpu
          \/ /\ zombies = {} /\ (kids = {} \/ proc[p].killed)
             /\ proc' = [proc EXCEPT ![p].at = "user"]
             /\ UNCHANGED <<cpu, memory>>
          \/ /\ zombies = {} /\ kids # {} /\ ~proc[p].killed
             /\ proc' = [proc EXCEPT ![p].state = "SLEEPING", ![p].sleeps = "self",
                                     ![p].at = "wait"]
             /\ Leaves(p)
             /\ UNCHANGED memory
    /\ UNCHANGED <<nextpid, nexttid, panic>>

(* kill of the first slot with the pid only, as before the project.         *)
VictimsBug(n) == {q \in Procs : proc[q].pid = n /\ \A r \in Procs : r < q => proc[r].pid # n}
Victims(n) == {q \in Procs : proc[q].pid = n}

Kill(p, n) ==
    /\ Enters(p, "kill")
    /\ proc' = [q \in Procs |->
          IF q \notin Victims(n) THEN proc[q]
          ELSE IF proc[q].state = "SLEEPING"
          THEN [proc[q] EXCEPT !.killed = TRUE, !.state = "RUNNABLE", !.sleeps = "no"]
          ELSE [proc[q] EXCEPT !.killed = TRUE]]
    /\ UNCHANGED <<cpu, memory, nextpid, nexttid, panic>>

-----------------------------------------------------------------------------
Init ==
    /\ proc = [p \in Procs |->
          IF p = InitProc THEN [Blank EXCEPT !.state = "RUNNABLE", !.pid = 1, !.pgdir = 1,
                                             !.sz = ImageSz, !.at = "user"]
                          ELSE Blank]
    /\ cpu = [c \in CPUs |-> NoProc]
    /\ dirs = {1}
    /\ mem = [d \in Dirs |-> IF d = 1 THEN Pages(0, ImageSz) ELSE {}]
    /\ nextpid = 2 /\ nexttid = 1
    /\ panic = "none"

Next ==
    \/ Interrupt
    \/ \E p \in Procs :
        \/ \E c \in CPUs : Schedule(c, p)
        \/ Yield(p)
        \/ Sleep(p)
        \/ ThreadCreate(p)
        \/ CreateDone(p)
        \/ ThreadExitMark(p)
        \/ ThreadExit(p)
        \/ \E thread \in 0 .. MaxTid : ThreadJoin(p, thread)
        \/ Fork(p)
        \/ ForkCopy(p)
        \/ ForkDone(p)
        \/ Sbrk(p)
        \/ Grow(p)
        \/ Shrink(p)
        \/ Exec(p)
        \/ ExecCommit(p)
        \/ ExecBad(p)
        \/ Exit(p)
        \/ ExitDone(p)
        \/ Wait(p)
        \/ \E n \in TargetPids : Kill(p, n)

Spec == Init /\ [][Next]_vars

-----------------------------------------------------------------------------
(* Properties.                                                              *)

States == {"UNUSED", "EMBRYO", "SLEEPING", "RUNNABLE", "RUNNING", "ZOMBIE"}
Ats == {"none", "user", "create", "dying", "join", "fork", "copied", "sbrk", "exec", "exit", "wait"}
Panics == {"none", "switchuvm: no pgdir", "kfree", "remap", "thread_exit - not lwp",
           "copyuvm: page not present"}

(* Every variable has its type; in particular no size passes KERNBASE.      *)
TypeOK ==
    /\ proc \in [Procs ->
          [state : States, pid : 0 .. MaxPid, tid : 0 .. MaxTid,
           parent : Procs \union {NoProc}, origin : Procs \union {NoProc},
           sleeps : {"no", "self", "io"}, killed : BOOLEAN, pgdir : Dirs \union {NoDir},
           sz : 0 .. MaxSz, at : Ats, np : Procs \union {NoProc},
           arg : 0 .. (IF MaxTid < MaxSz THEN MaxSz ELSE MaxTid)]]
    /\ cpu \in [CPUs -> Procs \union {NoProc}]
    /\ dirs \in SUBSET Dirs
    /\ mem \in [Dirs -> SUBSET VA]
    /\ nextpid \in 1 .. MaxPid + 1
    /\ nexttid \in 1 .. MaxTid + 1
    /\ panic \in Panics

(* A thread's origin is the one slot of its process with tid 0, and shares  *)
(* its page directory (README.md, "Design": origin and tid of struct proc). *)
OneOrigin ==
    /\ \A p \in Procs : InUse(p) /\ proc[p].tid # 0 =>
          LET o == proc[p].origin IN
          /\ o \in Procs /\ InUse(o) /\ proc[o].tid = 0
          /\ proc[o].pid = proc[p].pid /\ proc[o].pgdir = proc[p].pgdir
    /\ \A p, q \in Procs :
          InUse(p) /\ InUse(q) /\ proc[p].pid = proc[q].pid
          /\ proc[p].tid = proc[q].tid => p = q

(* exec commits and exit ends a process that has one thread left: the       *)
(* directory they give up has no other user (README.md:26).                 *)
LastThread ==
    \A p \in Procs :
        (proc[p].at \in {"exec", "exit"} \/ (proc[p].state = "ZOMBIE" /\ proc[p].tid = 0))
        => \A q \in Family(p) : q = p

(* The page directories in existence are those of the slots in use: none is *)
(* lost, none is freed twice or while a thread still has it.                *)
DirsExact == dirs = {proc[p].pgdir : p \in Procs} \ {NoDir}

(* No wakeup is lost: while a thread sleeps in thread_join, the thread it   *)
(* waits for has not ended, or has yet to wake it (programs that join their *)
(* own threads).                                                            *)
NoLostJoin ==
    \A p \in Procs : proc[p].state = "SLEEPING" /\ proc[p].at = "join" =>
        \E q \in Procs : /\ proc[q].tid = proc[p].arg /\ proc[q].parent = p
                         /\ proc[q].state = "ZOMBIE" => proc[q].at = "dying"

(* A killed process is not stuck: one of its threads can go on, and will    *)
(* exit for all of them when it is back in user mode (README.md:30).        *)
KilledCanEnd ==
    \A p \in Procs : proc[p].killed /\ InUse(p) /\ proc[p].state # "ZOMBIE" =>
        \E q \in Family(p) : /\ proc[q].killed /\ proc[q].state # "SLEEPING"
                             /\ proc[q].state = "ZOMBIE" => proc[q].at = "dying"

(* sbrk returns where the memory it added begins, so that no two threads    *)
(* are given the same pages (README.md:28).                                 *)
SbrkIsNew ==
    [][\A p \in Procs :
          LET d == proc[p].pgdir IN
          /\ proc[p].at = "sbrk" /\ proc'[p].at = "user"
          /\ d \in Dirs /\ mem[d] # mem'[d] /\ mem[d] \subseteq mem'[d]
          => proc[p].arg \in mem'[d] \ mem[d]]_vars

(* Abandoned children go to init (proc.c:316): nobody's parent is gone.     *)
ParentLives ==
    \A p \in Procs : InUse(p) /\ proc[p].parent # NoProc => InUse(proc[p].parent)
=============================================================================
