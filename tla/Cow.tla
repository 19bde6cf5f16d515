-------------------------------- MODULE Cow --------------------------------
(***************************************************************************)
(* Copy-on-write virtual memory of Project04/xv6-public: the page          *)
(* allocator with reference counts (kalloc.c), the page tables (vm.c), and *)
(* the system calls that change them (fork, exec, sbrk, exit, wait) with   *)
(* the page-fault handler CoW_handler.                                     *)
(*                                                                         *)
(* One step is the code from one kmem.lock or ptable.lock section to the   *)
(* next: the writes in between touch only memory of the running process.   *)
(* A page directory is named by its own physical page; user pages share    *)
(* one page-table page (utab), kernel mappings take KptPages more (ktab).  *)
(* A user address is a page number 0 .. MaxSz-1 and holds one value.       *)
(***************************************************************************)
EXTENDS Integers, FiniteSets

CONSTANTS
    Procs,        \* slots of ptable.proc
    InitProc,     \* the slot of initproc
    Pages,        \* physical pages handed to kinit1/kinit2
    NoPage,       \* the null page pointer
    NoProc,       \* the null process pointer
    Top(_),       \* pages that may be at the head of a free list with these pages
    MaxSz,        \* pages of a user address space (KERNBASE / PGSIZE)
    KptPages,     \* page-table pages setupkvm needs for the kernel half
    TextSz,       \* pages of the ELF segments an exec loads
    Vals,         \* contents of a user page
    Code,         \* a page of a program's initial image
    Zero,         \* the all-zero page
    Junk,         \* a page filled by kfree, or used by the kernel
    NCPU,         \* processors
    Calls,        \* system calls user programs make
    Stray         \* user accesses outside the image: "none", "guard", "unmapped"

ASSUME CowAssumption ==
    /\ IsFiniteSet(Pages) /\ IsFiniteSet(Procs)
    /\ NoPage \notin Pages /\ NoProc \notin Procs /\ InitProc \in Procs
    /\ \A S \in SUBSET Pages : Top(S) \subseteq S /\ (S # {} => Top(S) # {})
    /\ MaxSz \in Nat /\ TextSz \in Nat /\ TextSz + 2 <= MaxSz
    /\ KptPages \in Nat /\ NCPU \in Nat \ {0}
    /\ Zero \in Vals /\ Code \in Vals /\ Junk \notin Vals
    /\ Calls \subseteq {"fork", "exec", "grow", "shrink", "shrinkall"}
    /\ Stray \in {"none", "guard", "unmapped"}

VARIABLES
    free, fpcnt, pgrefc,              \* kmem
    content,                          \* what each physical page holds
    pt, utab, ktab,                   \* page tables, by page directory
    state, parent, pgdir, kstack, sz, \* ptable.proc
    tlb,                              \* writable translations a process's CPU caches
    pc, loc,                          \* where a process is in the kernel, its locals
    panic                             \* argument of panic(), "none" while running

kmem   == <<free, fpcnt, pgrefc>>
tables == <<pt, utab, ktab>>
ptable == <<state, parent, pgdir, kstack, sz>>
vars   == <<kmem, content, tables, ptable, tlb, pc, loc, panic>>

VA     == 0 .. MaxSz - 1
NoPte  == [pa |-> NoPage, w |-> FALSE, u |-> FALSE]
Pte(pa, u, w) == [pa |-> pa, w |-> w, u |-> u]
NoLoc  == [op |-> "none", np |-> NoProc, pd |-> NoPage, base |-> 0, i |-> 0,
           lim |-> 0, pg |-> NoPage, va |-> 0, pa |-> NoPage, refc |-> 0]

-----------------------------------------------------------------------------
(* kalloc.c: each operator is one kmem.lock section. *)

Kalloc(pg) ==
    /\ pg \in Top(free)
    /\ free' = free \ {pg}
    /\ fpcnt' = fpcnt - 1
    /\ pgrefc' = [pgrefc EXCEPT ![pg] = 1]

KallocFails == free = {} /\ UNCHANGED kmem

(* get_refc panics on a negative count.                                      *)
GetRefc(pg) == panic' = IF pgrefc[pg] < 0 THEN "negative refc" ELSE panic

(* Definitions named ..Bug are slips of the code that the properties below   *)
(* are confirmed to catch; no specification uses them.                       *)

(* kfree without looking at the count.                                       *)
KfreeBug(pg) ==
    /\ pgrefc' = [pgrefc EXCEPT ![pg] = 0]
    /\ free' = free \union {pg} /\ fpcnt' = fpcnt + 1
    /\ content' = [content EXCEPT ![pg] = Junk]
    /\ UNCHANGED panic

Kfree(pg) ==
    /\ GetRefc(pg)
    /\ pgrefc' = [pgrefc EXCEPT ![pg] = IF @ = 0 THEN 0 ELSE @ - 1]
    /\ IF pgrefc'[pg] = 0
       THEN /\ free' = free \union {pg}
            /\ fpcnt' = fpcnt + 1
            /\ content' = [content EXCEPT ![pg] = Junk]
       ELSE UNCHANGED <<free, fpcnt, content>>

(* copyuvm forgets incr_refc.                                                *)
IncrRefcBug(pa) == UNCHANGED pgrefc
IncrRefc(pa) == pgrefc' = [pgrefc EXCEPT ![pa] = @ + 1]
DecrRefc(pa) == pgrefc' = [pgrefc EXCEPT ![pa] = @ - 1]

-----------------------------------------------------------------------------
(* Control.  Page faults enter through an interrupt gate and wait() frees    *)
(* its child under ptable.lock: neither is preempted, so with NCPU of them   *)
(* under way no other process runs.  Everything else can be interleaved.     *)

Faulting(p)   == loc[p].op = "fault"
Reaping(p)    == loc[p].op = "wait"
HoldsCpu(p)   == Faulting(p) \/ Reaping(p)
CanRun(p)     == HoldsCpu(p) \/ Cardinality({q \in Procs : HoldsCpu(q)}) < NCPU
PtableFree    == \A q \in Procs : ~Reaping(q)

At(p, l)      == pc[p] = l /\ CanRun(p)
Goto(p, l)    == pc' = [pc EXCEPT ![p] = l] /\ UNCHANGED loc
GotoWith(p, l, r) == pc' = [pc EXCEPT ![p] = l] /\ loc' = [loc EXCEPT ![p] = r]
Return(p)     == GotoWith(p, "user", NoLoc)
Panic(msg)    == panic' = msg /\ UNCHANGED <<pc, loc>>
Lcr3(p)       == tlb' = [tlb EXCEPT ![p] = [v \in VA |-> NoPage]]

(* The page directory the current allocuvm, deallocuvm or freevm works on.   *)
Dir(p) == IF loc[p].pd = NoPage THEN pgdir[p] ELSE loc[p].pd

(* deallocuvm starts one page too high.                                      *)
MappedBug(d, a, b) == {v \in VA : a < v /\ v < b /\ pt[d][v].pa # NoPage}
Mapped(d, a, b) == {v \in VA : a <= v /\ v < b /\ pt[d][v].pa # NoPage}
IsFirst(v, S)   == v \in S /\ \A w \in S : v <= w

(* What a setupkvm without a page directory makes its caller do.             *)
AfterNoTable(p) ==
    \/ loc[p].op = "fork" /\ Goto(p, "undo") /\ UNCHANGED panic
    \/ loc[p].op = "exec" /\ Return(p) /\ UNCHANGED panic
    \/ loc[p].op = "init" /\ Panic("userinit")

-----------------------------------------------------------------------------
(* allocproc: an UNUSED slot becomes EMBRYO, then gets a kernel stack.  The  *)
(* code takes the first UNUSED slot, which slot is immaterial.               *)

Fork(p) ==
    /\ "fork" \in Calls /\ At(p, "user") /\ PtableFree
    /\ \E np \in Procs :
        /\ state[np] = "UNUSED"
        /\ state' = [state EXCEPT ![np] = "EMBRYO"]
        /\ GotoWith(p, "kstack", [NoLoc EXCEPT !.op = "fork", !.np = np])
    /\ UNCHANGED <<kmem, content, tables, parent, pgdir, kstack, sz, tlb, panic>>

AllocKstack(p) ==
    /\ At(p, "kstack")
    /\ \/ \E pg \in Pages :
            /\ Kalloc(pg)
            /\ kstack' = [kstack EXCEPT ![loc[p].np] = pg]
            /\ Goto(p, "pgdir")
            /\ UNCHANGED <<state, panic>>
       \/ /\ KallocFails
          /\ state' = [state EXCEPT ![loc[p].np] = "UNUSED"]
          /\ IF loc[p].op = "fork" THEN Return(p) /\ UNCHANGED panic
             ELSE Panic("userinit")
          /\ UNCHANGED kstack
    /\ UNCHANGED <<content, tables, parent, pgdir, sz, tlb>>

(* Where setupkvm's caller goes on once n kernel page tables are there.       *)
AfterKvm(p, n) == IF n < KptPages THEN "kpt"
                  ELSE IF loc[p].op = "fork" THEN "copy" ELSE "alloc"

(* setupkvm: the directory page, then the kernel's page-table pages.         *)
SetupDir(p) ==
    /\ At(p, "pgdir")
    /\ \/ \E pg \in Pages :
            /\ Kalloc(pg)
            /\ GotoWith(p, AfterKvm(p, 0), [loc[p] EXCEPT !.pd = pg])
            /\ pt' = [pt EXCEPT ![pg] = [v \in VA |-> NoPte]]
            /\ utab' = [utab EXCEPT ![pg] = NoPage]
            /\ ktab' = [ktab EXCEPT ![pg] = {}]
            /\ UNCHANGED panic
       \/ KallocFails /\ AfterNoTable(p) /\ UNCHANGED tables
    /\ UNCHANGED <<content, ptable, tlb>>

SetupKpt(p) ==
    /\ At(p, "kpt")
    /\ \/ \E pg \in Pages :
            /\ Kalloc(pg)
            /\ ktab' = [ktab EXCEPT ![loc[p].pd] = @ \union {pg}]
            /\ Goto(p, AfterKvm(p, Cardinality(ktab[loc[p].pd]) + 1))
            /\ UNCHANGED panic
       \/ /\ KallocFails
          /\ IF loc[p].op = "init" THEN Panic("userinit")
             ELSE Goto(p, "freevm") /\ UNCHANGED panic
          /\ UNCHANGED ktab
    /\ UNCHANGED <<content, pt, utab, ptable, tlb>>

(* copyuvm, one page: forbid the parent to write, map the page in the child  *)
(* (mappages may need the child's page-table page) ...                       *)
CopyUtab(p) ==
    LET d == loc[p].pd IN
    IF utab[d] # NoPage THEN UNCHANGED <<kmem, utab>>
    ELSE \E t \in Pages : Kalloc(t) /\ utab' = [utab EXCEPT ![d] = t]

CopyPage(p) ==
    LET i   == loc[p].i
        ro  == [pt[pgdir[p]][i] EXCEPT !.w = FALSE]
        own == [pt EXCEPT ![pgdir[p]][i] = ro]
    IN  /\ At(p, "copy") /\ i < sz[p]
        /\ IF ro.pa = NoPage
           THEN Panic("copyuvm: page not present") /\ UNCHANGED <<kmem, tables>>
           ELSE /\ \/ /\ CopyUtab(p)
                      /\ pt' = [own EXCEPT ![loc[p].pd][i] = ro]
                      /\ Goto(p, "incr")
                   \/ /\ utab[loc[p].pd] = NoPage /\ KallocFails
                      /\ pt' = own
                      /\ Goto(p, "freevm") /\ UNCHANGED utab
                /\ UNCHANGED <<ktab, panic>>
        /\ UNCHANGED <<content, ptable, tlb>>

(* ... and then count the new reference.                                     *)
CopyIncr(p) ==
    /\ At(p, "incr")
    /\ IncrRefc(pt[pgdir[p]][loc[p].i].pa)
    /\ GotoWith(p, "copy", [loc[p] EXCEPT !.i = @ + 1])
    /\ UNCHANGED <<free, fpcnt, content, tables, ptable, tlb, panic>>

(* copyuvm forgets to flush the parent's translations.                       *)
CopyDoneBug(p) ==
    /\ At(p, "copy") /\ loc[p].i >= sz[p]
    /\ Goto(p, "commit")
    /\ UNCHANGED <<kmem, content, tables, ptable, tlb, panic>>

CopyDone(p) ==
    /\ At(p, "copy") /\ loc[p].i >= sz[p]
    /\ Lcr3(p)
    /\ Goto(p, "commit")
    /\ UNCHANGED <<kmem, content, tables, ptable, panic>>

(* The end of fork: the child becomes runnable.                              *)
ForkCommit(p) ==
    LET np == loc[p].np IN
    /\ At(p, "commit") /\ loc[p].op = "fork" /\ PtableFree
    /\ pgdir'  = [pgdir  EXCEPT ![np] = loc[p].pd]
    /\ sz'     = [sz     EXCEPT ![np] = sz[p]]
    /\ parent' = [parent EXCEPT ![np] = p]
    /\ state'  = [state  EXCEPT ![np] = "RUNNABLE"]
    /\ pc'     = [pc  EXCEPT ![np] = "user", ![p] = "user"]
    /\ loc'    = [loc EXCEPT ![np] = NoLoc, ![p] = NoLoc]
    /\ tlb'    = [tlb EXCEPT ![np] = [v \in VA |-> NoPage]]
    /\ UNCHANGED <<kmem, content, tables, kstack, panic>>

(* fork after a failed copyuvm: give the stack and the slot back.            *)
ForkUndo(p) ==
    LET np == loc[p].np IN
    /\ At(p, "undo")
    /\ Kfree(kstack[np])
    /\ kstack' = [kstack EXCEPT ![np] = NoPage]
    /\ state'  = [state EXCEPT ![np] = "UNUSED"]
    /\ Return(p)
    /\ UNCHANGED <<tables, parent, pgdir, sz, tlb>>

-----------------------------------------------------------------------------
(* allocuvm from base to lim, one page after the other.  The calls exec makes *)
(* for its segments and for the stack follow each other, as one range here.  *)

Exec(p) ==
    /\ "exec" \in Calls /\ At(p, "user")
    /\ GotoWith(p, "pgdir", [NoLoc EXCEPT !.op = "exec", !.lim = TextSz + 2])
    /\ UNCHANGED <<kmem, content, tables, ptable, tlb, panic>>

(* allocuvm forgets the KERNBASE limit.                                      *)
GrowBug(p) ==
    /\ "grow" \in Calls /\ At(p, "user")
    /\ GotoWith(p, "alloc", [NoLoc EXCEPT !.op = "grow", !.base = sz[p], !.i = sz[p], !.lim = MaxSz + 1])
    /\ UNCHANGED <<kmem, content, tables, ptable, tlb, panic>>

Grow(p) ==
    /\ "grow" \in Calls /\ At(p, "user")
    /\ \E n \in (sz[p] + 1) .. MaxSz :
        GotoWith(p, "alloc", [NoLoc EXCEPT !.op = "grow", !.base = sz[p], !.i = sz[p], !.lim = n])
    /\ UNCHANGED <<kmem, content, tables, ptable, tlb, panic>>

AllocPage(p) ==
    /\ At(p, "alloc") /\ loc[p].i < loc[p].lim
    /\ \/ \E pg \in Pages :
            /\ Kalloc(pg)
            /\ content' = [content EXCEPT ![pg] = Zero]
            /\ GotoWith(p, "map", [loc[p] EXCEPT !.pg = pg])
            /\ UNCHANGED panic
       \/ /\ KallocFails
          /\ IF loc[p].op = "init" THEN Panic("userinit")
             ELSE Goto(p, "dealloc") /\ UNCHANGED panic
          /\ UNCHANGED content
    /\ UNCHANGED <<tables, ptable, tlb>>

(* mappages of the new page, which may need the page-table page first.       *)
MapPage(p) ==
    LET d == Dir(p) IN
    /\ At(p, "map")
    /\ IF pt[d][loc[p].i].pa # NoPage
       THEN Panic("remap") /\ UNCHANGED <<kmem, tables>>
       ELSE \/ /\ IF utab[d] # NoPage THEN UNCHANGED <<kmem, utab>>
                  ELSE \E t \in Pages : Kalloc(t) /\ utab' = [utab EXCEPT ![d] = t]
               /\ pt' = [pt EXCEPT ![d][loc[p].i] = Pte(loc[p].pg, TRUE, TRUE)]
               /\ GotoWith(p, "alloc", [loc[p] EXCEPT !.i = @ + 1, !.pg = NoPage])
               /\ UNCHANGED <<ktab, panic>>
            \/ /\ utab[d] = NoPage /\ KallocFails
               /\ IF loc[p].op = "init" THEN Panic("userinit")
                  ELSE Goto(p, "dealloc") /\ UNCHANGED panic
               /\ UNCHANGED tables
    /\ UNCHANGED <<content, ptable, tlb>>

Allocated(p, op) == At(p, "alloc") /\ loc[p].i >= loc[p].lim /\ loc[p].op = op

(* growproc: store the new size, switchuvm.                                  *)
GrowDone(p) ==
    /\ Allocated(p, "grow")
    /\ sz' = [sz EXCEPT ![p] = loc[p].lim]
    /\ Lcr3(p) /\ Return(p)
    /\ UNCHANGED <<kmem, content, tables, state, parent, pgdir, kstack, panic>>

(* userinit: initcode in the only page, and the process may run.             *)
InitDone(p) ==
    /\ Allocated(p, "init")
    /\ content' = [content EXCEPT ![pt[loc[p].pd][0].pa] = Code]
    /\ pgdir' = [pgdir EXCEPT ![p] = loc[p].pd]
    /\ sz'    = [sz    EXCEPT ![p] = 1]
    /\ state' = [state EXCEPT ![p] = "RUNNABLE"]
    /\ Return(p)
    /\ UNCHANGED <<kmem, tables, parent, kstack, tlb, panic>>

(* exec commits: segments loaded, guard page closed to the user, arguments   *)
(* on the stack, new directory in; the old image goes to freevm.             *)
ExecCommit(p) ==
    LET d    == loc[p].pd
        page(v) == pt[d][v].pa
    IN  /\ Allocated(p, "exec")
        /\ content' = [g \in Pages |->
            IF \E v \in VA \ {TextSz} : v < loc[p].lim /\ page(v) = g THEN Code ELSE content[g]]
        /\ pt'    = [pt    EXCEPT ![d][TextSz].u = FALSE]
        /\ pgdir' = [pgdir EXCEPT ![p] = d]
        /\ sz'    = [sz    EXCEPT ![p] = loc[p].lim]
        /\ Lcr3(p)
        /\ GotoWith(p, "freevm", [NoLoc EXCEPT !.op = "exec", !.pd = pgdir[p]])
        /\ UNCHANGED <<kmem, utab, ktab, state, parent, kstack, panic>>

(* exec gives up on the image, whole or in part: a bad segment, bad arguments. *)
ExecBad(p) ==
    /\ At(p, "alloc") /\ loc[p].op = "exec"
    /\ Goto(p, "freevm")
    /\ UNCHANGED <<kmem, content, tables, ptable, tlb, panic>>

-----------------------------------------------------------------------------
(* deallocuvm from lim down to base: each present page is given to kfree and *)
(* its entry cleared; freevm then frees the tables and the directory.        *)

Shrink(p) ==
    /\ At(p, "user")
    /\ \E n \in 0 .. sz[p] - 1 :
        /\ (IF n = 0 THEN "shrinkall" ELSE "shrink") \in Calls
        /\ GotoWith(p, "dealloc", [NoLoc EXCEPT !.op = "shrink", !.base = n, !.lim = sz[p]])
    /\ UNCHANGED <<kmem, content, tables, ptable, tlb, panic>>

DropPage(p, d, v) ==
    /\ Kfree(pt[d][v].pa)
    /\ pt' = [pt EXCEPT ![d][v] = NoPte]

DeallocPage(p) ==
    LET d == Dir(p) IN
    /\ At(p, "dealloc")
    /\ \E v \in VA : IsFirst(v, Mapped(d, loc[p].base, loc[p].lim)) /\ DropPage(p, d, v)
    /\ UNCHANGED <<utab, ktab, ptable, tlb, pc, loc>>

Deallocated(p) == At(p, "dealloc") /\ Mapped(Dir(p), loc[p].base, loc[p].lim) = {}

(* allocuvm ran out of memory: the page mappages could not map is freed.     *)
AllocFailed(p) ==
    /\ Deallocated(p) /\ loc[p].op \in {"grow", "exec"}
    /\ IF loc[p].pg = NoPage THEN UNCHANGED <<kmem, content, panic>> ELSE Kfree(loc[p].pg)
    /\ IF loc[p].op = "grow" THEN Return(p)
       ELSE GotoWith(p, "freevm", [loc[p] EXCEPT !.pg = NoPage])
    /\ UNCHANGED <<tables, ptable, tlb>>

(* growproc forgets to store the new size.                                   *)
ShrinkDoneBug(p) ==
    /\ Deallocated(p) /\ loc[p].op = "shrink"
    /\ Lcr3(p) /\ Return(p)
    /\ UNCHANGED <<kmem, content, tables, ptable, panic>>

(* growproc: deallocuvm returns the new size, and 0 is taken for an error.   *)
ShrinkDone(p) ==
    /\ Deallocated(p) /\ loc[p].op = "shrink"
    /\ IF loc[p].base = 0 THEN UNCHANGED <<sz, tlb>>
       ELSE sz' = [sz EXCEPT ![p] = loc[p].base] /\ Lcr3(p)
    /\ Return(p)
    /\ UNCHANGED <<kmem, content, tables, state, parent, pgdir, kstack, panic>>

FreePage(p) ==
    LET d == loc[p].pd IN
    /\ At(p, "freevm")
    /\ \E v \in VA : IsFirst(v, Mapped(d, 0, MaxSz)) /\ DropPage(p, d, v)
    /\ UNCHANGED <<utab, ktab, ptable, tlb, pc, loc>>

FreeTable(p) ==
    LET d == loc[p].pd IN
    /\ At(p, "freevm") /\ Mapped(d, 0, MaxSz) = {}
    /\ IF utab[d] # NoPage
       THEN Kfree(utab[d]) /\ utab' = [utab EXCEPT ![d] = NoPage] /\ UNCHANGED ktab
       ELSE \E t \in ktab[d] :
              Kfree(t) /\ ktab' = [ktab EXCEPT ![d] = @ \ {t}] /\ UNCHANGED utab
    /\ UNCHANGED <<pt, ptable, tlb, pc, loc>>

(* The directory goes last.  wait() then clears the child's slot and drops   *)
(* ptable.lock; a failed copyuvm still has the child's stack to free.        *)
FreeDir(p) ==
    LET np == loc[p].np IN
    /\ At(p, "freevm") /\ Mapped(loc[p].pd, 0, MaxSz) = {}
    /\ utab[loc[p].pd] = NoPage /\ ktab[loc[p].pd] = {}
    /\ Kfree(loc[p].pd)
    /\ \/ /\ loc[p].op = "fork"
          /\ GotoWith(p, "undo", [loc[p] EXCEPT !.pd = NoPage])
          /\ UNCHANGED <<state, parent>>
       \/ loc[p].op = "exec" /\ Return(p) /\ UNCHANGED <<state, parent>>
       \/ /\ loc[p].op = "wait" /\ Return(p)
          /\ state'  = [state  EXCEPT ![np] = "UNUSED"]
          /\ parent' = [parent EXCEPT ![np] = NoProc]
    /\ UNCHANGED <<tables, pgdir, kstack, sz, tlb>>

-----------------------------------------------------------------------------
(* exit: children go to initproc, the process becomes a zombie.              *)
Exit(p) ==
    /\ At(p, "user") /\ PtableFree
    /\ IF p = InitProc
       THEN Panic("init exiting") /\ UNCHANGED <<state, parent, tlb>>
       ELSE /\ parent' = [q \in Procs |-> IF parent[q] = p THEN InitProc ELSE parent[q]]
            /\ state' = [state EXCEPT ![p] = "ZOMBIE"]
            /\ GotoWith(p, "none", NoLoc)
            /\ Lcr3(p)
            /\ UNCHANGED panic
    /\ UNCHANGED <<kmem, content, tables, pgdir, kstack, sz>>

(* wait finds a zombie child, frees its stack and starts on its image.  The  *)
(* dangling p->pgdir, which fork overwrites before anyone reads it, is moved *)
(* to the reaper's local; without a zombie wait changes nothing.             *)
Wait(p) ==
    /\ At(p, "user") /\ PtableFree
    /\ \E c \in Procs :
        /\ parent[c] = p /\ state[c] = "ZOMBIE"
        /\ Kfree(kstack[c])
        /\ GotoWith(p, "freevm", [NoLoc EXCEPT !.op = "wait", !.np = c, !.pd = pgdir[c]])
        /\ kstack' = [kstack EXCEPT ![c] = NoPage]
        /\ pgdir'  = [pgdir  EXCEPT ![c] = NoPage]
        /\ sz'     = [sz     EXCEPT ![c] = 0]
    /\ UNCHANGED <<tables, state, parent, tlb>>

-----------------------------------------------------------------------------
(* A user store: through a cached translation, or by a page-table walk.      *)
Store(p) ==
    /\ At(p, "user")
    /\ \E v \in VA, x \in Vals :
        LET e == pt[pgdir[p]][v]
            t == tlb[p][v]
        IN  \/ /\ e.w /\ e.u
               /\ content' = [content EXCEPT ![e.pa] = x]
               /\ tlb' = [tlb EXCEPT ![p][v] = e.pa]
            \/ /\ t # NoPage
               /\ content' = [content EXCEPT ![t] = x]
               /\ UNCHANGED tlb
    /\ UNCHANGED <<kmem, tables, ptable, pc, loc, panic>>

(* CoW_handler, up to get_refc.  A store faults on a page that is not        *)
(* writable, any access on one the user may not touch or that is absent.     *)
Fault(p) ==
    /\ At(p, "user")
    /\ \E v \in VA :
        LET e == pt[pgdir[p]][v] IN
        IF e.pa = NoPage
        THEN Stray = "unmapped" /\ Panic("page not present")
        ELSE /\ IF e.u THEN ~e.w ELSE Stray = "guard"
             /\ GetRefc(e.pa)
             /\ GotoWith(p, IF pgrefc[e.pa] > 1 THEN "dup" ELSE "own",
                   [NoLoc EXCEPT !.op = "fault", !.va = v, !.pa = e.pa, !.refc = pgrefc[e.pa]])
    /\ UNCHANGED <<kmem, content, tables, ptable, tlb>>

(* refc = 1: the page is the process's own.                                  *)
CowOwn(p) ==
    /\ At(p, "own")
    /\ pt' = IF loc[p].refc = 1 THEN [pt EXCEPT ![pgdir[p]][loc[p].va].w = TRUE] ELSE pt
    /\ Lcr3(p) /\ Return(p)
    /\ UNCHANGED <<kmem, content, utab, ktab, ptable, panic>>

(* refc > 1: take a page, copy into it, point the entry at it, and drop the  *)
(* reference to the old one.                                                 *)
CowAlloc(p) ==
    /\ At(p, "dup")
    /\ \/ \E pg \in Pages :
            Kalloc(pg) /\ GotoWith(p, "move", [loc[p] EXCEPT !.pg = pg]) /\ UNCHANGED panic
       \/ KallocFails /\ Panic("out of memory")
    /\ UNCHANGED <<content, tables, ptable, tlb>>

(* The handler forgets memmove.                                              *)
CowMoveBug(p) ==
    /\ At(p, "move")
    /\ pt' = [pt EXCEPT ![pgdir[p]][loc[p].va] = Pte(loc[p].pg, TRUE, TRUE)]
    /\ GotoWith(p, "decr", [loc[p] EXCEPT !.pg = NoPage])
    /\ UNCHANGED <<kmem, content, utab, ktab, ptable, tlb, panic>>

CowMove(p) ==
    /\ At(p, "move")
    /\ content' = [content EXCEPT ![loc[p].pg] = content[loc[p].pa]]
    /\ pt' = [pt EXCEPT ![pgdir[p]][loc[p].va] = Pte(loc[p].pg, TRUE, TRUE)]
    /\ GotoWith(p, "decr", [loc[p] EXCEPT !.pg = NoPage])
    /\ UNCHANGED <<kmem, utab, ktab, ptable, tlb, panic>>

(* The handler forgets decr_refc.                                            *)
CowDecrBug(p) ==
    /\ At(p, "decr")
    /\ Lcr3(p) /\ Return(p)
    /\ UNCHANGED <<kmem, content, tables, ptable, panic>>

CowDecr(p) ==
    /\ At(p, "decr")
    /\ DecrRefc(loc[p].pa)
    /\ Lcr3(p) /\ Return(p)
    /\ UNCHANGED <<free, fpcnt, content, tables, ptable, panic>>

-----------------------------------------------------------------------------
(* After kinit2 every page is on the free list and main calls userinit: its  *)
(* allocproc has taken the first slot for initproc.                          *)
Init ==
    /\ free = Pages
    /\ fpcnt = Cardinality(Pages)
    /\ pgrefc = [g \in Pages |-> 0]
    /\ content = [g \in Pages |-> Junk]
    /\ pt = [d \in Pages |-> [v \in VA |-> NoPte]]
    /\ utab = [d \in Pages |-> NoPage]
    /\ ktab = [d \in Pages |-> {}]
    /\ state = [p \in Procs |-> IF p = InitProc THEN "EMBRYO" ELSE "UNUSED"]
    /\ parent = [p \in Procs |-> NoProc]
    /\ pgdir = [p \in Procs |-> NoPage]
    /\ kstack = [p \in Procs |-> NoPage]
    /\ sz = [p \in Procs |-> 0]
    /\ tlb = [p \in Procs |-> [v \in VA |-> NoPage]]
    /\ pc = [p \in Procs |-> IF p = InitProc THEN "kstack" ELSE "none"]
    /\ loc = [p \in Procs |-> IF p = InitProc
                THEN [NoLoc EXCEPT !.op = "init", !.np = p, !.lim = 1] ELSE NoLoc]
    /\ panic = "none"

ForkStep(p)  == Fork(p) \/ AllocKstack(p) \/ CopyPage(p) \/ CopyIncr(p) \/ CopyDone(p)
                \/ ForkCommit(p) \/ ForkUndo(p)
BuildStep(p) == SetupDir(p) \/ SetupKpt(p) \/ AllocPage(p) \/ MapPage(p) \/ AllocFailed(p)
                \/ InitDone(p)
SbrkStep(p)  == Grow(p) \/ GrowDone(p) \/ Shrink(p) \/ DeallocPage(p) \/ ShrinkDone(p)
ExecStep(p)  == Exec(p) \/ ExecCommit(p) \/ ExecBad(p)
FreeStep(p)  == FreePage(p) \/ FreeTable(p) \/ FreeDir(p)
LifeStep(p)  == Exit(p) \/ Wait(p)
UserStep(p)  == Store(p) \/ Fault(p)
CowStep(p)   == CowOwn(p) \/ CowAlloc(p) \/ CowMove(p) \/ CowDecr(p)

Step(p) == ForkStep(p) \/ BuildStep(p) \/ SbrkStep(p) \/ ExecStep(p) \/ FreeStep(p)
           \/ LifeStep(p) \/ UserStep(p) \/ CowStep(p)

(* panic() stops the machine.                                                *)
Halted == panic # "none" /\ UNCHANGED vars

Next == (panic = "none" /\ \E p \in Procs : Step(p)) \/ Halted

Spec == Init /\ [][Next]_vars

-----------------------------------------------------------------------------
(* Properties. *)

Ptes == [pa : Pages \union {NoPage}, w : BOOLEAN, u : BOOLEAN]
Ops  == {"none", "init", "fork", "exec", "grow", "shrink", "wait", "fault"}
Pcs  == {"none", "user", "kstack", "pgdir", "kpt", "copy", "incr", "commit", "undo",
         "alloc", "map", "dealloc", "freevm", "own", "dup", "move", "decr"}
Locs == [op : Ops, np : Procs \union {NoProc}, pd : Pages \union {NoPage},
         base : 0 .. MaxSz, i : 0 .. MaxSz, lim : 0 .. MaxSz,
         pg : Pages \union {NoPage}, va : VA, pa : Pages \union {NoPage}, refc : Int]

Panics == {"none", "userinit", "negative refc", "copyuvm: page not present", "remap",
           "page not present", "out of memory", "init exiting"}

KmemType ==
    /\ free \in SUBSET Pages
    /\ fpcnt \in Int
    /\ pgrefc \in [Pages -> Int]
    /\ content \in [Pages -> Vals \union {Junk}]

TablesType ==
    /\ pt \in [Pages -> [VA -> Ptes]]
    /\ utab \in [Pages -> Pages \union {NoPage}]
    /\ ktab \in [Pages -> SUBSET Pages]

PtableType ==
    /\ state \in [Procs -> {"UNUSED", "EMBRYO", "RUNNABLE", "ZOMBIE"}]
    /\ parent \in [Procs -> Procs \union {NoProc}]
    /\ pgdir \in [Procs -> Pages \union {NoPage}]
    /\ kstack \in [Procs -> Pages \union {NoPage}]
    /\ sz \in [Procs -> 0 .. MaxSz]

LocalType ==
    /\ tlb \in [Procs -> [VA -> Pages \union {NoPage}]]
    /\ pc \in [Procs -> Pcs]
    /\ loc \in [Procs -> Locs]

(* Every variable has its type: in particular sizes and indices stay within  *)
(* MaxSz and nothing but a page is ever freed, mapped or stored to.          *)
TypeOK == KmemType /\ TablesType /\ PtableType /\ LocalType /\ panic \in Panics

(* Which system call is in which part of the kernel, and what its locals     *)
(* hold there: the facts about control that TypeOK needs to be inductive.    *)
OpAt(op) ==
    CASE op = "none"   -> {"none", "user"}
      [] op = "init"   -> {"kstack", "pgdir", "kpt", "alloc", "map"}
      [] op = "fork"   -> {"kstack", "pgdir", "kpt", "copy", "incr", "commit", "freevm", "undo"}
      [] op = "exec"   -> {"pgdir", "kpt", "alloc", "map", "dealloc", "freevm"}
      [] op = "grow"   -> {"alloc", "map", "dealloc"}
      [] op = "shrink" -> {"dealloc"}
      [] op = "wait"   -> {"freevm"}
      [] op = "fault"  -> {"own", "dup", "move", "decr"}

LocalsOK(at, l) ==
    /\ at \in OpAt(l.op)
    /\ l.op = "none" => l = NoLoc
    /\ l.pd \in Pages <=> /\ l.op \in {"init", "fork", "exec", "wait"}
                          /\ at \notin {"kstack", "pgdir", "undo"}
    /\ at \in {"map", "move"} => l.pg \in Pages
    /\ l.op = "fault" => l.pa \in Pages
    /\ at = "map" => l.i < l.lim
    /\ at = "incr" => l.i < MaxSz

(* A slot's state against what its owner, or the fork or wait at work on it, *)
(* has given it.                                                             *)
SlotOK(p) ==
    /\ state[p] = "RUNNABLE" <=> pc[p] # "none" /\ loc[p].op # "init"
    /\ loc[p].op = "init" => /\ state[p] = "EMBRYO" /\ loc[p].np = p
                             /\ pc[p] # "kstack" => kstack[p] \in Pages
    /\ state[p] = "RUNNABLE" => pgdir[p] \in Pages
    /\ state[p] = "RUNNABLE" => kstack[p] \in Pages
    /\ state[p] = "ZOMBIE" => \/ pgdir[p] \in Pages /\ kstack[p] \in Pages
                              \/ \E q \in Procs : loc[q].op = "wait" /\ loc[q].np = p

ForksOK(p) ==
    loc[p].op = "fork" =>
        /\ loc[p].np \in Procs /\ loc[p].np # p
        /\ state[loc[p].np] = "EMBRYO" /\ pc[loc[p].np] = "none"
        /\ pc[p] # "kstack" => kstack[loc[p].np] \in Pages
        /\ \A q \in Procs : loc[q].op = "fork" /\ loc[q].np = loc[p].np => q = p

WaitsOK(p) ==
    loc[p].op = "wait" =>
        /\ loc[p].np \in Procs /\ loc[p].np # p
        /\ state[loc[p].np] = "ZOMBIE"
        /\ \A q \in Procs : loc[q].op = "wait" => q = p

Control == \A p \in Procs : LocalsOK(pc[p], loc[p]) /\ SlotOK(p) /\ ForksOK(p) /\ WaitsOK(p)

(* The places that hold a reference to a physical page: page-table entries,  *)
(* page directories' tables, processes' directory and stack, the directory   *)
(* and page a system call has in hand, and the page a fault is to give up.   *)
Mappings(g) == {m \in Pages \X VA : pt[m[1]][m[2]].pa = g}
Uses(g) ==
    Cardinality(Mappings(g))
    + Cardinality({d \in Pages : utab[d] = g}) + Cardinality({d \in Pages : g \in ktab[d]})
    + Cardinality({p \in Procs : pgdir[p] = g}) + Cardinality({p \in Procs : kstack[p] = g})
    + Cardinality({p \in Procs : loc[p].pd = g}) + Cardinality({p \in Procs : loc[p].pg = g})
    + Cardinality({p \in Procs : pc[p] = "decr" /\ loc[p].pa = g})

(* copyuvm maps a page in the child before it counts the child's reference.  *)
Uncounted(g) == Cardinality({p \in Procs : pc[p] = "incr" /\ pt[pgdir[p]][loc[p].i].pa = g})

(* A page's reference count is the number of its uses, except inside         *)
(* copyuvm between mapping the child's page and counting it: no page is      *)
(* freed early (kfree at the last use) and none counted twice.               *)
RefcExact == panic = "none" => \A g \in Pages : pgrefc[g] + Uncounted(g) = Uses(g)

(* The free list holds fpcnt pages and no page in use, so sys_countfp is     *)
(* right and kalloc never hands out a page twice.                            *)
FreeListSound ==
    /\ fpcnt = Cardinality(free)
    /\ \A g \in free : Uses(g) = 0

(* kfree is the only way back to the free list: a page nobody uses and whose *)
(* count is 0 must be on it, or it is lost.                                  *)
NoLeak == panic = "none" => \A g \in Pages : Uses(g) = 0 => g \in free

(* Whatever a process in user mode can write, by its page table or by a      *)
(* translation its processor still caches, is mapped once, by it.            *)
WritableIsPrivate ==
    \A p \in Procs, v \in VA : pc[p] = "user" =>
        LET d == pgdir[p] IN
        /\ pt[d][v].w => Mappings(pt[d][v].pa) = {<<d, v>>}
        /\ tlb[p][v] # NoPage => Mappings(tlb[p][v]) = {<<d, v>>}

(* sys_countvp (user pages below sz) and sys_countpp (user pages in the page *)
(* table) agree whenever a user program can call them.                       *)
CountVp(p) == Cardinality({v \in VA : v < sz[p] /\ pt[pgdir[p]][v].u})
CountPp(p) == Cardinality({v \in VA : pt[pgdir[p]][v].u})
CountersAgree == panic = "none" => \A p \in Procs : pc[p] = "user" => CountVp(p) = CountPp(p)

(* The kernel never meets a page-table entry it did not expect: fork finds   *)
(* every page below sz, nothing is mapped twice, no count is negative.       *)
NoInternalPanic ==
    panic \notin {"negative refc", "copyuvm: page not present", "remap", "page not present"}
(* clearpteu's promise: a page exec made inaccessible stays so as long as    *)
(* the process keeps that image.                                             *)
GuardStaysClosed ==
    [][\A p \in Procs, v \in VA :
        LET e == pt[pgdir[p]][v] IN
        /\ state[p] = "RUNNABLE" /\ pgdir'[p] = pgdir[p] /\ e.pa # NoPage /\ ~e.u
        => ~pt'[pgdir[p]][v].u]_vars

(* The address space a user program sees: a shrinking sbrk takes its pages   *)
(* away at once, a growing one shows them when it succeeds, and an exec when *)
(* it commits.                                                               *)
Size(p)  == IF loc[p].op = "shrink" THEN loc[p].base ELSE sz[p]
Image(p) ==
    LET e(v) == pt[pgdir[p]][v] IN
    IF state[p] # "RUNNABLE" THEN [v \in {} |-> Zero]
    ELSE [v \in 0 .. Size(p) - 1 |->
            [val |-> IF e(v).pa = NoPage THEN Junk ELSE content[e(v).pa], user |-> e(v).u]]

VM == INSTANCE PrivateVm WITH image <- [p \in Procs |-> Image(p)]

(* Sharing pages is invisible: every process sees the memory it would see if *)
(* fork had copied all of its parent's pages.                                *)
ImplementsPrivateVm == VM!Spec
=============================================================================
