----------------------------- MODULE CowProofs -----------------------------
(* Types, control, the reference counts of kalloc.c and the free list, for   *)
(* any number of pages, processes and processors.                            *)
EXTENDS Cow, FiniteSetTheorems, TLAPS

(* The inductive invariant.  A panic may leave the slot it stopped at half   *)
(* made, so Control holds only of a running machine; every step starts from  *)
(* one, where the invariant is TypeInv.                                      *)
TypeInv == TypeOK /\ Control
RunInv  == TypeOK /\ (panic = "none" => Control)

LEMMA NoLocType == NoLoc \in Locs
BY CowAssumption DEF NoLoc, Locs, Ops, VA

LEMMA KallocType ==
    ASSUME KmemType, NEW g \in Pages, Kalloc(g)
    PROVE  free' \in SUBSET Pages /\ fpcnt' \in Int /\ pgrefc' \in [Pages -> Int]
BY DEF KmemType, Kalloc

LEMMA GetRefcType ==
    ASSUME NEW g \in Pages, GetRefc(g), panic \in Panics
    PROVE  panic' \in Panics
BY DEF GetRefc, Panics

LEMMA KfreeType ==
    ASSUME KmemType, NEW g \in Pages, Kfree(g), panic \in Panics
    PROVE  KmemType' /\ panic' \in Panics
<1>1. panic' \in Panics
  BY GetRefcType DEF Kfree
<1>2. pgrefc' \in [Pages -> Int]
  BY DEF KmemType, Kfree
<1>3. free' \in SUBSET Pages /\ fpcnt' \in Int /\ content' \in [Pages -> Vals \union {Junk}]
  BY DEF KmemType, Kfree
<1> QED BY <1>1, <1>2, <1>3 DEF KmemType

LEMMA GotoType ==
    ASSUME LocalType, NEW p \in Procs, NEW l \in Pcs, NEW r \in Locs, GotoWith(p, l, r)
    PROVE  pc' \in [Procs -> Pcs] /\ loc' \in [Procs -> Locs]
BY DEF LocalType, GotoWith

LEMMA Lcr3Type ==
    ASSUME LocalType, NEW p \in Procs, Lcr3(p)
    PROVE  tlb' \in [Procs -> [VA -> Pages \union {NoPage}]]
BY DEF LocalType, Lcr3

(* A step of p that moves it in the kernel, within one system call or from   *)
(* or to user mode, and leaves the process table alone, preserves Control.   *)
LEMMA LocalStep ==
    ASSUME TypeInv, NEW p \in Procs, NEW l \in Pcs, NEW r \in Locs, GotoWith(p, l, r),
           UNCHANGED <<state, pgdir, kstack>>,
           LocalsOK(l, r), pc[p] # "none", l # "none",
           r.op = "init" <=> loc[p].op = "init",
           r.op = "init" => r.np = loc[p].np /\ (l # "kstack" => pc[p] # "kstack"),
           r.op = "fork" => /\ loc[p].op = "fork" /\ r.np = loc[p].np
                            /\ l # "kstack" => pc[p] # "kstack",
           r.op = "wait" <=> loc[p].op = "wait",
           r.op = "wait" => r.np = loc[p].np
    PROVE  Control'
<1> USE DEF TypeInv
<1>1. pc \in [Procs -> Pcs] /\ loc \in [Procs -> Locs]
  BY DEF TypeOK, LocalType
<1>2. /\ pc'[p] = l /\ loc'[p] = r
      /\ \A q \in Procs : q # p => pc'[q] = pc[q] /\ loc'[q] = loc[q]
  BY <1>1 DEF GotoWith
<1> SUFFICES ASSUME NEW q \in Procs
             PROVE  (LocalsOK(pc[q], loc[q]) /\ SlotOK(q) /\ ForksOK(q) /\ WaitsOK(q))'
  BY DEF Control
<1>3. LocalsOK(pc[q], loc[q])'
  BY <1>2 DEF Control, LocalsOK
<1>4. SlotOK(q)'
  BY <1>2 DEF Control, SlotOK
<1>5. ForksOK(q)'
  BY <1>2 DEF Control, ForksOK
<1>6. WaitsOK(q)'
  BY <1>2 DEF Control, WaitsOK
<1> QED BY <1>3, <1>4, <1>5, <1>6

LEMMA InitTypeInv == Init => TypeInv
<1> SUFFICES ASSUME Init PROVE TypeInv
  OBVIOUS
<1>1. KmemType
  <2>1. Cardinality(Pages) \in Int
    BY FS_CardinalityType, CowAssumption
  <2>2. free \in SUBSET Pages /\ fpcnt \in Int
    BY <2>1 DEF Init
  <2>3. pgrefc = [g \in Pages |-> 0] /\ content = [g \in Pages |-> Junk]
    BY DEF Init
  <2> QED BY <2>2, <2>3 DEF KmemType
<1>2. TablesType
  BY DEF Init, TablesType, NoPte, Ptes
<1>3. PtableType
  <2>1. 0 \in 0 .. MaxSz
    BY CowAssumption
  <2> QED BY <2>1 DEF Init, PtableType
<1>4. LocalType
  <2>1. 1 \in 0 .. MaxSz
    BY CowAssumption
  <2>2. [NoLoc EXCEPT !.op = "init", !.np = InitProc, !.lim = 1] \in Locs
    BY <2>1, NoLocType, CowAssumption DEF Locs, Ops
  <2>3. loc \in [Procs -> Locs]
    BY <2>2, NoLocType DEF Init
  <2>4. pc \in [Procs -> Pcs]
    BY DEF Init, Pcs
  <2>5. tlb \in [Procs -> [VA -> Pages \union {NoPage}]]
    BY DEF Init
  <2> QED BY <2>3, <2>4, <2>5 DEF LocalType
<1>5. Control
  <2>1. \A p \in Procs : /\ pc[p] = IF p = InitProc THEN "kstack" ELSE "none"
                         /\ loc[p] = IF p = InitProc
                              THEN [NoLoc EXCEPT !.op = "init", !.np = p, !.lim = 1] ELSE NoLoc
                         /\ state[p] = IF p = InitProc THEN "EMBRYO" ELSE "UNUSED"
    BY DEF Init
  <2> SUFFICES ASSUME NEW p \in Procs
               PROVE  LocalsOK(pc[p], loc[p]) /\ SlotOK(p) /\ ForksOK(p) /\ WaitsOK(p)
    BY DEF Control
  <2>2. CASE p = InitProc
    <3>1. /\ pc[p] = "kstack" /\ state[p] = "EMBRYO"
          /\ loc[p] = [NoLoc EXCEPT !.op = "init", !.np = p, !.lim = 1]
      BY <2>1, <2>2
    <3> QED BY <2>2, <3>1, CowAssumption DEF LocalsOK, OpAt, NoLoc, SlotOK, ForksOK, WaitsOK
  <2>3. CASE p # InitProc
    <3>1. pc[p] = "none" /\ state[p] = "UNUSED" /\ loc[p] = NoLoc
      BY <2>1, <2>3
    <3> QED BY <3>1, CowAssumption DEF LocalsOK, OpAt, NoLoc, SlotOK, ForksOK, WaitsOK
  <2> QED BY <2>2, <2>3
<1> QED BY <1>1, <1>2, <1>3, <1>4, <1>5 DEF TypeInv, TypeOK, Init, Panics

-----------------------------------------------------------------------------
(* Parts of the state a step leaves alone keep their types.                  *)
LEMMA KmemSame == KmemType /\ UNCHANGED <<kmem, content>> => KmemType'
BY DEF kmem, KmemType

LEMMA TablesSame == TablesType /\ UNCHANGED tables => TablesType'
BY DEF tables, TablesType

LEMMA PtableSame == PtableType /\ UNCHANGED ptable => PtableType'
BY DEF ptable, PtableType

LEMMA LocalSame == LocalType /\ UNCHANGED <<tlb, pc, loc>> => LocalType'
BY DEF LocalType

LEMMA ControlSame == Control /\ UNCHANGED <<state, pgdir, kstack, pc, loc>> => Control'
BY DEF Control, SlotOK, ForksOK, WaitsOK

LEMMA LocalMove ==
    ASSUME LocalType, NEW p \in Procs, NEW l \in Pcs, NEW r \in Locs, GotoWith(p, l, r),
           UNCHANGED tlb \/ Lcr3(p)
    PROVE  LocalType'
BY GotoType, Lcr3Type DEF LocalType

LEMMA GotoIsGotoWith ==
    ASSUME LocalType, NEW p \in Procs, NEW l, Goto(p, l)
    PROVE  GotoWith(p, l, loc[p])
BY DEF LocalType, Goto, GotoWith

(* What TypeInv says of one process and its locals.                          *)
LEMMA LocalsOf ==
    ASSUME TypeInv, NEW p \in Procs
    PROVE  /\ pc[p] \in Pcs /\ loc[p] \in Locs /\ sz[p] \in 0 .. MaxSz
           /\ LocalsOK(pc[p], loc[p])
           /\ pgdir[p] \in Pages \union {NoPage} /\ kstack[p] \in Pages \union {NoPage}
BY DEF TypeInv, TypeOK, LocalType, PtableType, Control

(* A process that executes, other than userinit's, has a page directory.     *)
LEMMA RunnableOf ==
    ASSUME TypeInv, NEW p \in Procs, pc[p] # "none", loc[p].op # "init"
    PROVE  state[p] = "RUNNABLE" /\ pgdir[p] \in Pages /\ kstack[p] \in Pages
BY DEF TypeInv, Control, SlotOK

LEMMA InitOf ==
    ASSUME TypeInv, NEW p \in Procs, loc[p].op = "init"
    PROVE  state[p] = "EMBRYO" /\ loc[p].np = p /\ (pc[p] # "kstack" => kstack[p] \in Pages)
BY DEF TypeInv, Control, SlotOK

(* An unused slot takes part in nothing.                                     *)
LEMMA UnusedOf ==
    ASSUME TypeInv, NEW p \in Procs, state[p] = "UNUSED"
    PROVE  pc[p] = "none" /\ loc[p].op = "none"
<1>1. pc[p] = "none" /\ loc[p].op # "init"
  BY DEF TypeInv, Control, SlotOK
<1>2. LocalsOK(pc[p], loc[p]) /\ loc[p] \in Locs
  BY LocalsOf
<1> QED BY <1>1, <1>2 DEF LocalsOK, OpAt, Locs, Ops

LEMMA ForkOf ==
    ASSUME TypeInv, NEW p \in Procs, loc[p].op = "fork"
    PROVE  /\ loc[p].np \in Procs /\ loc[p].np # p
           /\ state[loc[p].np] = "EMBRYO" /\ pc[loc[p].np] = "none"
           /\ pc[p] # "kstack" => kstack[loc[p].np] \in Pages
           /\ \A q \in Procs : loc[q].op = "fork" /\ loc[q].np = loc[p].np => q = p
BY DEF TypeInv, Control, ForksOK

LEMMA WaitOf ==
    ASSUME TypeInv, NEW p \in Procs, loc[p].op = "wait"
    PROVE  /\ loc[p].np \in Procs /\ loc[p].np # p
           /\ state[loc[p].np] = "ZOMBIE"
           /\ \A q \in Procs : loc[q].op = "wait" => q = p
BY DEF TypeInv, Control, WaitsOK

(* A slot whose process is not in the system is in no system call.           *)
LEMMA IdleOf ==
    ASSUME TypeInv, NEW p \in Procs, pc[p] = "none" \/ state[p] = "ZOMBIE"
    PROVE  pc[p] = "none" /\ loc[p].op = "none"
<1>1. CASE pc[p] = "none"
  BY <1>1, LocalsOf DEF LocalsOK, OpAt, Locs, Ops
<1>2. CASE state[p] = "ZOMBIE"
  <2>1. pc[p] = "none"
    BY <1>2 DEF TypeInv, Control, SlotOK
  <2> QED BY <2>1, <1>1
<1> QED BY <1>1, <1>2

(* What a zombie leaves is there until a wait is at work on it.              *)
LEMMA ZombieOf ==
    ASSUME TypeInv, NEW p \in Procs, state[p] = "ZOMBIE"
    PROVE  \/ pgdir[p] \in Pages /\ kstack[p] \in Pages
           \/ \E q \in Procs : loc[q].op = "wait" /\ loc[q].np = p
BY DEF TypeInv, Control, SlotOK

(* In allocuvm, deallocuvm and freevm the directory in hand is a page.       *)
LEMMA DirOf ==
    ASSUME TypeInv, NEW p \in Procs,
           pc[p] \in {"kpt", "copy", "incr", "commit", "alloc", "map", "dealloc", "freevm"}
    PROVE  Dir(p) \in Pages /\ (loc[p].pd # NoPage => loc[p].pd \in Pages)
<1>1. loc[p].pd \in Pages \union {NoPage}
  BY LocalsOf DEF Locs
<1>2. CASE loc[p].pd \in Pages
  BY <1>2, CowAssumption DEF Dir
<1>3. CASE loc[p].pd = NoPage
  <2>1. loc[p].op # "init"
    BY <1>3, LocalsOf, CowAssumption DEF LocalsOK
  <2> QED BY <1>3, <2>1, RunnableOf DEF Dir
<1> QED BY <1>1, <1>2, <1>3

(* The three ways a step moves one process: on within a system call, back to *)
(* user mode, and from user mode into a call that takes no other slot.       *)
LEMMA Advance ==
    ASSUME TypeInv, NEW p \in Procs, NEW l \in Pcs, NEW r \in Locs, GotoWith(p, l, r),
           UNCHANGED <<state, pgdir, kstack>>, UNCHANGED tlb \/ Lcr3(p),
           LocalsOK(l, r), pc[p] \notin {"none", "kstack"}, l # "none",
           r.op = loc[p].op, r.np = loc[p].np,
           KmemType', TablesType', PtableType', panic' \in Panics
    PROVE  TypeInv'
<1>1. Control'
  BY LocalStep
<1>2. LocalType'
  BY LocalMove DEF TypeInv, TypeOK
<1> QED BY <1>1, <1>2 DEF TypeInv, TypeOK

LEMMA Returns ==
    ASSUME TypeInv, NEW p \in Procs, Return(p), UNCHANGED <<state, pgdir, kstack>>,
           UNCHANGED tlb \/ Lcr3(p), pc[p] # "none", loc[p].op \notin {"init", "wait"},
           KmemType', TablesType', PtableType', panic' \in Panics
    PROVE  TypeInv'
<1>1. "user" \in Pcs /\ NoLoc \in Locs /\ NoLoc.op = "none" /\ GotoWith(p, "user", NoLoc)
  BY NoLocType DEF Pcs, NoLoc, Return
<1>2. LocalsOK("user", NoLoc)
  BY CowAssumption DEF LocalsOK, OpAt, NoLoc
<1>3. Control'
  BY <1>1, <1>2, LocalStep
<1>4. LocalType'
  BY <1>1, LocalMove DEF TypeInv, TypeOK
<1> QED BY <1>3, <1>4 DEF TypeInv, TypeOK

LEMMA Enters ==
    ASSUME TypeInv, NEW p \in Procs, NEW l \in Pcs, NEW r \in Locs, GotoWith(p, l, r),
           UNCHANGED <<ptable, tlb>>, LocalsOK(l, r), pc[p] = "user", l # "none",
           r.op \in {"exec", "grow", "shrink", "fault"},
           KmemType', TablesType', panic' \in Panics
    PROVE  TypeInv'
<1>1. loc[p] = NoLoc
  BY LocalsOf DEF LocalsOK, OpAt, Locs, Ops
<1>2. loc[p].op = "none"
  BY <1>1 DEF NoLoc
<1>3. Control'
  BY <1>2, LocalStep DEF ptable
<1>4. LocalType'
  BY LocalMove DEF TypeInv, TypeOK
<1> QED BY <1>3, <1>4, PtableSame DEF TypeInv, TypeOK

(* A panic leaves every process where it is.                                 *)
LEMMA Panics_ ==
    ASSUME TypeInv, UNCHANGED <<state, pgdir, kstack, tlb, pc, loc>>,
           KmemType', TablesType', PtableType', panic' \in Panics
    PROVE  TypeInv'
BY ControlSame, LocalSame DEF TypeInv, TypeOK

-----------------------------------------------------------------------------
(* The steps that stay within the process's own locals. *)

LEMMA ExecInv ==
    ASSUME TypeInv, NEW p \in Procs, Exec(p)
    PROVE  TypeInv'
<1> DEFINE r == [NoLoc EXCEPT !.op = "exec", !.lim = TextSz + 2]
<1>1. GotoWith(p, "pgdir", r) /\ pc[p] = "user"
      /\ UNCHANGED <<kmem, content, tables, ptable, tlb, panic>>
  BY DEF Exec, At
<1>2. r \in Locs /\ r.op = "exec"
  <2>1. TextSz + 2 \in 0 .. MaxSz
    BY CowAssumption
  <2> QED BY <2>1, NoLocType DEF Locs, Ops
<1>3. LocalsOK("pgdir", r)
  BY CowAssumption DEF LocalsOK, OpAt, NoLoc
<1> HIDE DEF r
<1> QED BY <1>1, <1>2, <1>3, Enters, KmemSame, TablesSame DEF TypeInv, TypeOK, Pcs

LEMMA GrowInv ==
    ASSUME TypeInv, NEW p \in Procs, Grow(p)
    PROVE  TypeInv'
<1>1. pc[p] = "user" /\ UNCHANGED <<kmem, content, tables, ptable, tlb, panic>>
  BY DEF Grow, At
<1>2. PICK n \in (sz[p] + 1) .. MaxSz :
        GotoWith(p, "alloc", [NoLoc EXCEPT !.op = "grow", !.base = sz[p], !.i = sz[p], !.lim = n])
  BY DEF Grow
<1> DEFINE r == [NoLoc EXCEPT !.op = "grow", !.base = sz[p], !.i = sz[p], !.lim = n]
<1>3. r \in Locs /\ r.op = "grow"
  <2>1. sz[p] \in 0 .. MaxSz /\ n \in 0 .. MaxSz
    BY LocalsOf, CowAssumption
  <2> QED BY <2>1, NoLocType DEF Locs, Ops
<1>4. LocalsOK("alloc", r)
  BY CowAssumption DEF LocalsOK, OpAt, NoLoc
<1>5. GotoWith(p, "alloc", r)
  BY <1>2
<1> HIDE DEF r
<1> QED BY <1>1, <1>3, <1>4, <1>5, Enters, KmemSame, TablesSame DEF TypeInv, TypeOK, Pcs

LEMMA ShrinkInv ==
    ASSUME TypeInv, NEW p \in Procs, Shrink(p)
    PROVE  TypeInv'
<1>1. pc[p] = "user" /\ UNCHANGED <<kmem, content, tables, ptable, tlb, panic>>
  BY DEF Shrink, At
<1>2. PICK n \in 0 .. sz[p] - 1 :
        GotoWith(p, "dealloc", [NoLoc EXCEPT !.op = "shrink", !.base = n, !.lim = sz[p]])
  BY DEF Shrink
<1> DEFINE r == [NoLoc EXCEPT !.op = "shrink", !.base = n, !.lim = sz[p]]
<1>3. r \in Locs /\ r.op = "shrink"
  <2>1. sz[p] \in 0 .. MaxSz /\ n \in 0 .. MaxSz
    BY LocalsOf, CowAssumption
  <2> QED BY <2>1, NoLocType DEF Locs, Ops
<1>4. LocalsOK("dealloc", r)
  BY CowAssumption DEF LocalsOK, OpAt, NoLoc
<1>5. GotoWith(p, "dealloc", r)
  BY <1>2
<1> HIDE DEF r
<1> QED BY <1>1, <1>3, <1>4, <1>5, Enters, KmemSame, TablesSame DEF TypeInv, TypeOK, Pcs

LEMMA FaultInv ==
    ASSUME TypeInv, NEW p \in Procs, Fault(p)
    PROVE  TypeInv'
<1>1. pc[p] = "user" /\ UNCHANGED <<kmem, content, tables, ptable, tlb>>
  BY DEF Fault, At
<1>2. KmemType' /\ TablesType' /\ PtableType' /\ panic \in Panics
  BY <1>1, KmemSame, TablesSame, PtableSame DEF TypeInv, TypeOK
<1>3. CASE Panic("page not present")
  BY <1>1, <1>2, <1>3, Panics_ DEF Panic, Panics, ptable
<1>4. CASE ~Panic("page not present")
  <2> DEFINE r(v) == [NoLoc EXCEPT !.op = "fault", !.va = v, !.pa = pt[pgdir[p]][v].pa,
                                   !.refc = pgrefc[pt[pgdir[p]][v].pa]]
  <2>1. PICK v \in VA : /\ pt[pgdir[p]][v].pa # NoPage
                        /\ GetRefc(pt[pgdir[p]][v].pa)
                        /\ GotoWith(p, IF pgrefc[pt[pgdir[p]][v].pa] > 1 THEN "dup" ELSE "own", r(v))
    BY <1>4 DEF Fault
  <2>2. PICK l \in {"dup", "own"} : GotoWith(p, l, r(v))
    BY <2>1
  <2>3. loc[p] = NoLoc
    BY <1>1, LocalsOf DEF LocalsOK, OpAt, Locs, Ops
  <2>4. pt[pgdir[p]][v].pa \in Pages
    <3>1. pgdir[p] \in Pages
      BY <1>1, <2>3, RunnableOf DEF NoLoc
    <3> QED BY <3>1, <2>1 DEF TypeInv, TypeOK, TablesType, Ptes
  <2>5. r(v) \in Locs /\ r(v).op = "fault"
    <3>1. pgrefc[pt[pgdir[p]][v].pa] \in Int
      BY <2>4 DEF TypeInv, TypeOK, KmemType
    <3> QED BY <2>4, <3>1, NoLocType DEF Locs, Ops
  <2>6. LocalsOK(l, r(v))
    BY <2>4, CowAssumption DEF LocalsOK, OpAt, NoLoc
  <2>7. panic' \in Panics
    BY <1>2, <2>1, <2>4, GetRefcType
  <2> HIDE DEF r
  <2> QED BY <1>1, <1>2, <2>2, <2>5, <2>6, <2>7, Enters DEF Pcs
<1> QED BY <1>3, <1>4

-----------------------------------------------------------------------------
(* setupkvm and copyuvm. *)

LEMMA PtUpdate ==
    ASSUME TablesType, NEW d, NEW v, NEW e \in Ptes, pt' = [pt EXCEPT ![d][v] = e]
    PROVE  pt' \in [Pages -> [VA -> Ptes]]
BY DEF TablesType

LEMMA NoPteType == NoPte \in Ptes
BY DEF NoPte, Ptes

LEMMA PteOf ==
    ASSUME TypeInv, NEW d \in Pages, NEW v \in VA
    PROVE  pt[d][v] \in Ptes
BY DEF TypeInv, TypeOK, TablesType

(* One kalloc of a step that keeps the contents of pages.                    *)
LEMMA KallocKeeps ==
    ASSUME KmemType, NEW g \in Pages, Kalloc(g), UNCHANGED content
    PROVE  KmemType'
BY KallocType DEF KmemType

LEMMA SetupDirInv ==
    ASSUME TypeInv, NEW p \in Procs, SetupDir(p)
    PROVE  TypeInv'
<1>1. pc[p] = "pgdir" /\ UNCHANGED <<content, ptable, tlb>>
  BY DEF SetupDir, At
<1>2. loc[p] \in Locs /\ loc[p].op \in {"init", "fork", "exec"}
  BY <1>1, LocalsOf DEF LocalsOK, OpAt, Locs, Ops
<1>3. PtableType' /\ panic \in Panics
  BY <1>1, PtableSame DEF TypeInv, TypeOK
<1>4. ASSUME NEW g \in Pages, Kalloc(g),
             GotoWith(p, AfterKvm(p, 0), [loc[p] EXCEPT !.pd = g]),
             pt' = [pt EXCEPT ![g] = [v \in VA |-> NoPte]],
             utab' = [utab EXCEPT ![g] = NoPage], ktab' = [ktab EXCEPT ![g] = {}],
             UNCHANGED panic
      PROVE  TypeInv'
  <2> DEFINE r == [loc[p] EXCEPT !.pd = g]
  <2>1. TablesType'
    BY <1>4, NoPteType DEF TypeInv, TypeOK, TablesType
  <2>2. PICK l \in {"kpt", "copy", "alloc"} : AfterKvm(p, 0) = l /\ LocalsOK(l, r)
    <3>1. r \in Locs /\ r.pd = g /\ r.op = loc[p].op /\ r.pg = loc[p].pg
      BY <1>2, <1>4 DEF Locs
    <3>2. LocalsOK(AfterKvm(p, 0), r)
      BY <1>2, <1>4, <3>1 DEF LocalsOK, OpAt, AfterKvm
    <3> QED BY <3>2 DEF AfterKvm
  <2>3. r \in Locs /\ r.op = loc[p].op /\ r.np = loc[p].np
    BY <1>2, <1>4 DEF Locs
  <2>4. KmemType'
    BY <1>1, <1>4, KallocKeeps DEF TypeInv, TypeOK
  <2>5. GotoWith(p, AfterKvm(p, 0), r)
    BY <1>4
  <2> HIDE DEF r
  <2> QED BY <1>1, <1>3, <1>4, <2>1, <2>2, <2>3, <2>4, <2>5, Advance DEF Pcs, ptable
<1>5. ASSUME KallocFails, AfterNoTable(p), UNCHANGED tables
      PROVE  TypeInv'
  <2>1. KmemType' /\ TablesType'
    BY <1>1, <1>5, KmemSame, TablesSame DEF TypeInv, TypeOK, KallocFails
  <2>2. CASE loc[p].op = "fork" /\ Goto(p, "undo") /\ UNCHANGED panic
    <3>1. GotoWith(p, "undo", loc[p])
      BY <2>2, GotoIsGotoWith DEF TypeInv, TypeOK
    <3>2. LocalsOK("undo", loc[p])
      BY <1>1, <2>2, LocalsOf DEF LocalsOK, OpAt
    <3> QED BY <1>1, <1>2, <1>3, <2>1, <2>2, <3>1, <3>2, Advance DEF Pcs, ptable
  <2>3. CASE loc[p].op = "exec" /\ Return(p) /\ UNCHANGED panic
    BY <1>1, <1>3, <2>1, <2>3, Returns DEF ptable
  <2>4. CASE loc[p].op = "init" /\ Panic("userinit")
    BY <1>1, <1>3, <2>1, <2>4, Panics_ DEF Panic, Panics, ptable
  <2> QED BY <1>5, <2>2, <2>3, <2>4 DEF AfterNoTable
<1> QED BY <1>4, <1>5 DEF SetupDir

LEMMA SetupKptInv ==
    ASSUME TypeInv, NEW p \in Procs, SetupKpt(p)
    PROVE  TypeInv'
<1>1. pc[p] = "kpt" /\ UNCHANGED <<content, pt, utab, ptable, tlb>>
  BY DEF SetupKpt, At
<1>2. loc[p] \in Locs /\ loc[p].op \in {"init", "fork", "exec"} /\ LocalsOK("kpt", loc[p])
  BY <1>1, LocalsOf DEF LocalsOK, OpAt, Locs, Ops
<1>3. PtableType' /\ panic \in Panics
  BY <1>1, PtableSame DEF TypeInv, TypeOK
<1>4. ASSUME NEW g \in Pages, Kalloc(g), NEW n, Goto(p, AfterKvm(p, n)),
             ktab' = [ktab EXCEPT ![loc[p].pd] = @ \union {g}], UNCHANGED panic
      PROVE  TypeInv'
  <2>1. TablesType'
    BY <1>1, <1>4 DEF TypeInv, TypeOK, TablesType
  <2>2. PICK l \in {"kpt", "copy", "alloc"} : AfterKvm(p, n) = l /\ LocalsOK(l, loc[p])
    <3>1. LocalsOK(AfterKvm(p, n), loc[p])
      BY <1>2 DEF LocalsOK, OpAt, AfterKvm
    <3> QED BY <3>1 DEF AfterKvm
  <2>3. KmemType'
    BY <1>1, <1>4, KallocKeeps DEF TypeInv, TypeOK
  <2>4. GotoWith(p, AfterKvm(p, n), loc[p])
    BY <1>4, GotoIsGotoWith DEF TypeInv, TypeOK
  <2> QED BY <1>1, <1>2, <1>3, <1>4, <2>1, <2>2, <2>3, <2>4, Advance DEF Pcs, ptable
<1>5. ASSUME KallocFails, UNCHANGED ktab,
             IF loc[p].op = "init" THEN Panic("userinit")
             ELSE Goto(p, "freevm") /\ UNCHANGED panic
      PROVE  TypeInv'
  <2>1. KmemType' /\ TablesType'
    BY <1>1, <1>5, KmemSame, TablesSame DEF TypeInv, TypeOK, KallocFails, tables
  <2>2. CASE loc[p].op # "init"
    <3>1. GotoWith(p, "freevm", loc[p])
      BY <1>5, <2>2, GotoIsGotoWith DEF TypeInv, TypeOK
    <3>2. LocalsOK("freevm", loc[p])
      BY <1>2, <2>2 DEF LocalsOK, OpAt
    <3> QED BY <1>1, <1>2, <1>3, <1>5, <2>1, <2>2, <3>1, <3>2, Advance DEF Pcs, ptable
  <2>3. CASE loc[p].op = "init"
    BY <1>1, <1>3, <1>5, <2>1, <2>3, Panics_ DEF Panic, Panics, ptable
  <2> QED BY <2>2, <2>3
<1> QED BY <1>4, <1>5 DEF SetupKpt

LEMMA CopyPageInv ==
    ASSUME TypeInv, NEW p \in Procs, CopyPage(p)
    PROVE  TypeInv'
<1> DEFINE d   == loc[p].pd
           i   == loc[p].i
           ro  == [pt[pgdir[p]][i] EXCEPT !.w = FALSE]
           own == [pt EXCEPT ![pgdir[p]][i] = ro]
<1>1. pc[p] = "copy" /\ i < sz[p] /\ UNCHANGED <<content, ptable, tlb>>
  BY DEF CopyPage, At
<1>2. loc[p] \in Locs /\ loc[p].op = "fork" /\ LocalsOK("copy", loc[p])
  <2>1. loc[p] \in Locs /\ LocalsOK("copy", loc[p])
    BY <1>1, LocalsOf
  <2>2. loc[p].op \in Ops
    BY <2>1 DEF Locs
  <2>3. "copy" \in OpAt(loc[p].op)
    BY <2>1 DEF LocalsOK
  <2> QED BY <2>1, <2>2, <2>3 DEF OpAt, Ops
<1>3. PtableType' /\ panic \in Panics
  BY <1>1, PtableSame DEF TypeInv, TypeOK
<1>4. ro \in Ptes
  <2>1. i \in VA
    BY <1>1, <1>2, LocalsOf, CowAssumption DEF Locs, VA
  <2>2. pgdir[p] \in Pages
    BY <1>1, <1>2, RunnableOf
  <2>3. pt[pgdir[p]][i] \in Ptes
    BY <2>1, <2>2, PteOf
  <2> QED BY <2>3 DEF Ptes
<1>5. own \in [Pages -> [VA -> Ptes]]
  <2>1. pt \in [Pages -> [VA -> Ptes]]
    BY DEF TypeInv, TypeOK, TablesType
  <2> HIDE DEF ro
  <2> QED BY <1>4, <2>1
<1>6. CASE Panic("copyuvm: page not present") /\ UNCHANGED <<kmem, tables>>
  BY <1>1, <1>3, <1>6, Panics_, KmemSame, TablesSame
     DEF Panic, Panics, ptable, TypeInv, TypeOK
<1>7. ASSUME CopyUtab(p), pt' = [own EXCEPT ![d][i] = ro], Goto(p, "incr"),
             UNCHANGED <<ktab, panic>>
      PROVE  TypeInv'
  <2> HIDE DEF own, ro
  <2>1. pt' \in [Pages -> [VA -> Ptes]]
    BY <1>4, <1>5, <1>7
  <2>2. KmemType' /\ utab' \in [Pages -> Pages \union {NoPage}]
    <3>1. CASE UNCHANGED <<kmem, utab>>
      BY <1>1, <3>1, KmemSame DEF TypeInv, TypeOK, TablesType
    <3>2. ASSUME NEW t \in Pages, Kalloc(t), utab' = [utab EXCEPT ![d] = t]
          PROVE  KmemType' /\ utab' \in [Pages -> Pages \union {NoPage}]
      BY <1>1, <3>2, KallocKeeps DEF TypeInv, TypeOK, TablesType
    <3> QED BY <1>7, <3>1, <3>2 DEF CopyUtab
  <2>3. TablesType'
    BY <1>7, <2>1, <2>2 DEF TypeInv, TypeOK, TablesType
  <2>4. GotoWith(p, "incr", loc[p])
    BY <1>7, GotoIsGotoWith DEF TypeInv, TypeOK
  <2>5. LocalsOK("incr", loc[p])
    <3>1. loc[p].i < MaxSz
      BY <1>1, <1>2, LocalsOf, CowAssumption DEF Locs
    <3> QED BY <1>2, <3>1 DEF LocalsOK, OpAt
  <2> QED BY <1>1, <1>2, <1>3, <1>7, <2>2, <2>3, <2>4, <2>5, Advance DEF Pcs, ptable
<1>8. ASSUME KallocFails, pt' = own, Goto(p, "freevm"), UNCHANGED <<utab, ktab, panic>>
      PROVE  TypeInv'
  <2>1. KmemType' /\ TablesType'
    BY <1>1, <1>5, <1>8, KmemSame DEF TypeInv, TypeOK, KallocFails, TablesType
  <2>2. GotoWith(p, "freevm", loc[p])
    BY <1>8, GotoIsGotoWith DEF TypeInv, TypeOK
  <2>3. LocalsOK("freevm", loc[p])
    BY <1>2 DEF LocalsOK, OpAt
  <2> HIDE DEF own
  <2> QED BY <1>1, <1>2, <1>3, <1>8, <2>1, <2>2, <2>3, Advance DEF Pcs, ptable
<1> QED BY <1>6, <1>7, <1>8 DEF CopyPage

(* The loops change one field of their locals and keep the others.           *)
LEMMA IndexUpdate ==
    ASSUME NEW l \in Locs, NEW n \in 0 .. MaxSz, NEW r, r = [l EXCEPT !.i = n]
    PROVE  /\ r \in Locs /\ r.i = n
           /\ r.op = l.op /\ r.np = l.np /\ r.pd = l.pd /\ r.pg = l.pg /\ r.pa = l.pa
BY DEF Locs

LEMMA PageUpdate ==
    ASSUME NEW l \in Locs, NEW g \in Pages \union {NoPage}, NEW r, r = [l EXCEPT !.pg = g]
    PROVE  /\ r \in Locs /\ r.pg = g /\ r.i = l.i /\ r.lim = l.lim
           /\ r.op = l.op /\ r.np = l.np /\ r.pd = l.pd /\ r.pa = l.pa
BY DEF Locs

LEMMA NextIndex ==
    ASSUME NEW l \in Locs, l.i < MaxSz
    PROVE  l.i + 1 \in 0 .. MaxSz
<1>1. l.i \in 0 .. MaxSz
  BY DEF Locs
<1> QED BY <1>1, CowAssumption

LEMMA IncrType ==
    ASSUME KmemType, NEW g, IncrRefc(g) \/ DecrRefc(g), UNCHANGED <<free, fpcnt, content>>
    PROVE  KmemType'
<1>1. CASE g \in Pages
  <2>1. pgrefc[g] + 1 \in Int /\ pgrefc[g] - 1 \in Int
    BY <1>1 DEF KmemType
  <2>2. PICK n \in Int : pgrefc' = [pgrefc EXCEPT ![g] = n]
    BY <2>1 DEF IncrRefc, DecrRefc
  <2> QED BY <2>2 DEF KmemType
<1>2. CASE g \notin Pages
  <2>1. PICK n : pgrefc' = [pgrefc EXCEPT ![g] = n]
    BY DEF IncrRefc, DecrRefc
  <2> QED BY <1>2, <2>1 DEF KmemType
<1> QED BY <1>1, <1>2

LEMMA CopyIncrInv ==
    ASSUME TypeInv, NEW p \in Procs, CopyIncr(p)
    PROVE  TypeInv'
<1> DEFINE r == [loc[p] EXCEPT !.i = @ + 1]
<1>1. /\ pc[p] = "incr" /\ GotoWith(p, "copy", r)
      /\ IncrRefc(pt[pgdir[p]][loc[p].i].pa)
      /\ UNCHANGED <<free, fpcnt, content, tables, ptable, tlb, panic>>
  BY DEF CopyIncr, At
<1>2. loc[p] \in Locs /\ loc[p].op = "fork" /\ LocalsOK("incr", loc[p])
  BY <1>1, LocalsOf DEF LocalsOK, OpAt, Locs, Ops
<1>3. loc[p].i + 1 \in 0 .. MaxSz
  BY <1>2, NextIndex DEF LocalsOK
<1>4. r \in Locs /\ r.op = "fork" /\ r.np = loc[p].np /\ r.pd = loc[p].pd /\ r.pg = loc[p].pg
  BY <1>2, <1>3, IndexUpdate
<1>5. LocalsOK("copy", r)
  BY <1>2, <1>4 DEF LocalsOK, OpAt
<1>6. KmemType'
  BY <1>1, IncrType DEF TypeInv, TypeOK
<1>7. TablesType' /\ PtableType' /\ panic' \in Panics
  BY <1>1, TablesSame, PtableSame DEF TypeInv, TypeOK
<1> HIDE DEF r
<1> QED BY <1>1, <1>2, <1>3, <1>4, <1>5, <1>6, <1>7, Advance DEF Pcs, ptable

LEMMA CopyDoneInv ==
    ASSUME TypeInv, NEW p \in Procs, CopyDone(p)
    PROVE  TypeInv'
<1>1. /\ pc[p] = "copy" /\ Goto(p, "commit") /\ Lcr3(p)
      /\ UNCHANGED <<kmem, content, tables, ptable, panic>>
  BY DEF CopyDone, At
<1>2. loc[p] \in Locs /\ loc[p].op = "fork" /\ LocalsOK("copy", loc[p])
  BY <1>1, LocalsOf DEF LocalsOK, OpAt, Locs, Ops
<1>3. GotoWith(p, "commit", loc[p]) /\ LocalsOK("commit", loc[p])
  BY <1>1, <1>2, GotoIsGotoWith DEF TypeInv, TypeOK, LocalsOK, OpAt
<1>4. KmemType' /\ TablesType' /\ PtableType' /\ panic' \in Panics
  BY <1>1, KmemSame, TablesSame, PtableSame DEF TypeInv, TypeOK
<1> QED BY <1>1, <1>2, <1>3, <1>4, Advance DEF Pcs, ptable

-----------------------------------------------------------------------------
(* allocuvm, deallocuvm and freevm. *)

LEMMA KallocFills ==
    ASSUME KmemType, NEW g \in Pages, Kalloc(g), NEW x \in Vals,
           content' = [content EXCEPT ![g] = x]
    PROVE  KmemType'
BY KallocType DEF KmemType

LEMMA AllocPageInv ==
    ASSUME TypeInv, NEW p \in Procs, AllocPage(p)
    PROVE  TypeInv'
<1>1. pc[p] = "alloc" /\ loc[p].i < loc[p].lim /\ UNCHANGED <<tables, ptable, tlb>>
  BY DEF AllocPage, At
<1>2. loc[p] \in Locs /\ loc[p].op \in {"init", "exec", "grow"} /\ LocalsOK("alloc", loc[p])
  BY <1>1, LocalsOf DEF LocalsOK, OpAt, Locs, Ops
<1>3. TablesType' /\ PtableType' /\ panic \in Panics
  BY <1>1, TablesSame, PtableSame DEF TypeInv, TypeOK
<1>4. ASSUME NEW g \in Pages, Kalloc(g), content' = [content EXCEPT ![g] = Zero],
             GotoWith(p, "map", [loc[p] EXCEPT !.pg = g]), UNCHANGED panic
      PROVE  TypeInv'
  <2> DEFINE r == [loc[p] EXCEPT !.pg = g]
  <2>1. r \in Locs /\ r.op = loc[p].op /\ r.np = loc[p].np /\ r.pd = loc[p].pd
        /\ r.pg = g /\ r.i = loc[p].i /\ r.lim = loc[p].lim
    BY <1>2, PageUpdate
  <2>2. KmemType'
    BY <1>4, KallocFills, CowAssumption DEF TypeInv, TypeOK
  <2>3. GotoWith(p, "map", r)
    BY <1>4
  <2> HIDE DEF r
  <2>4. LocalsOK("map", r)
    BY <1>1, <1>2, <2>1 DEF LocalsOK, OpAt
  <2> QED BY <1>1, <1>3, <1>4, <2>1, <2>2, <2>3, <2>4, Advance DEF Pcs, ptable
<1>5. ASSUME KallocFails, UNCHANGED content,
             IF loc[p].op = "init" THEN Panic("userinit")
             ELSE Goto(p, "dealloc") /\ UNCHANGED panic
      PROVE  TypeInv'
  <2>1. KmemType'
    BY <1>5, KmemSame DEF TypeInv, TypeOK, KallocFails
  <2>2. CASE loc[p].op # "init"
    <3>1. GotoWith(p, "dealloc", loc[p])
      BY <1>5, <2>2, GotoIsGotoWith DEF TypeInv, TypeOK
    <3>2. LocalsOK("dealloc", loc[p])
      BY <1>2, <2>2 DEF LocalsOK, OpAt
    <3> QED BY <1>1, <1>2, <1>3, <1>5, <2>1, <2>2, <3>1, <3>2, Advance DEF Pcs, ptable
  <2>3. CASE loc[p].op = "init"
    BY <1>1, <1>3, <1>5, <2>1, <2>3, Panics_ DEF Panic, Panics, ptable
  <2> QED BY <2>2, <2>3
<1> QED BY <1>4, <1>5 DEF AllocPage

LEMMA MapPageInv ==
    ASSUME TypeInv, NEW p \in Procs, MapPage(p)
    PROVE  TypeInv'
<1> DEFINE d == Dir(p)
           r == [loc[p] EXCEPT !.i = @ + 1, !.pg = NoPage]
<1>1. pc[p] = "map" /\ UNCHANGED <<content, ptable, tlb>>
  BY DEF MapPage, At
<1>2. loc[p] \in Locs /\ loc[p].op \in {"init", "exec", "grow"} /\ LocalsOK("map", loc[p])
  BY <1>1, LocalsOf DEF LocalsOK, OpAt, Locs, Ops
<1>3. PtableType' /\ panic \in Panics
  BY <1>1, PtableSame DEF TypeInv, TypeOK
<1>4. CASE Panic("remap") /\ UNCHANGED <<kmem, tables>>
  BY <1>1, <1>3, <1>4, Panics_, KmemSame, TablesSame
     DEF Panic, Panics, ptable, TypeInv, TypeOK
<1>5. ASSUME IF utab[d] # NoPage THEN UNCHANGED <<kmem, utab>>
             ELSE \E t \in Pages : Kalloc(t) /\ utab' = [utab EXCEPT ![d] = t],
             pt' = [pt EXCEPT ![d][loc[p].i] = Pte(loc[p].pg, TRUE, TRUE)],
             GotoWith(p, "alloc", r), UNCHANGED <<ktab, panic>>
      PROVE  TypeInv'
  <2>1. Pte(loc[p].pg, TRUE, TRUE) \in Ptes
    BY <1>2 DEF LocalsOK, Pte, Ptes
  <2>2. pt' \in [Pages -> [VA -> Ptes]]
    BY <1>5, <2>1, PtUpdate DEF TypeInv, TypeOK
  <2>3. KmemType' /\ utab' \in [Pages -> Pages \union {NoPage}]
    <3>1. CASE UNCHANGED <<kmem, utab>>
      BY <1>1, <3>1, KmemSame DEF TypeInv, TypeOK, TablesType
    <3>2. ASSUME NEW t \in Pages, Kalloc(t), utab' = [utab EXCEPT ![d] = t]
          PROVE  KmemType' /\ utab' \in [Pages -> Pages \union {NoPage}]
      BY <1>1, <3>2, KallocKeeps DEF TypeInv, TypeOK, TablesType
    <3> QED BY <1>5, <3>1, <3>2
  <2>4. TablesType'
    BY <1>5, <2>2, <2>3 DEF TypeInv, TypeOK, TablesType
  <2>5. r \in Locs /\ r.op = loc[p].op /\ r.np = loc[p].np /\ r.pd = loc[p].pd
    <3>1. loc[p].i + 1 \in 0 .. MaxSz
      <4>1. loc[p].i \in 0 .. MaxSz /\ loc[p].lim \in 0 .. MaxSz /\ loc[p].i < loc[p].lim
        BY <1>2 DEF Locs, LocalsOK
      <4> QED BY <4>1, CowAssumption
    <3> DEFINE s == [loc[p] EXCEPT !.i = @ + 1]
    <3>2. s \in Locs /\ s.op = loc[p].op /\ s.np = loc[p].np /\ s.pd = loc[p].pd
      BY <1>2, <3>1, IndexUpdate
    <3>3. r = [s EXCEPT !.pg = NoPage]
      BY <1>2 DEF Locs
    <3> HIDE DEF r, s
    <3> QED BY <3>2, <3>3, PageUpdate
  <2> HIDE DEF r
  <2>6. LocalsOK("alloc", r)
    BY <1>2, <2>5 DEF LocalsOK, OpAt
  <2> QED BY <1>1, <1>2, <1>3, <1>5, <2>3, <2>4, <2>5, <2>6, Advance DEF Pcs, ptable
<1>6. ASSUME KallocFails, UNCHANGED tables,
             IF loc[p].op = "init" THEN Panic("userinit")
             ELSE Goto(p, "dealloc") /\ UNCHANGED panic
      PROVE  TypeInv'
  <2>1. KmemType' /\ TablesType'
    BY <1>1, <1>6, KmemSame, TablesSame DEF TypeInv, TypeOK, KallocFails
  <2>2. CASE loc[p].op # "init"
    <3>1. GotoWith(p, "dealloc", loc[p])
      BY <1>6, <2>2, GotoIsGotoWith DEF TypeInv, TypeOK
    <3>2. LocalsOK("dealloc", loc[p])
      BY <1>2, <2>2 DEF LocalsOK, OpAt
    <3> QED BY <1>1, <1>2, <1>3, <1>6, <2>1, <2>2, <3>1, <3>2, Advance DEF Pcs, ptable
  <2>3. CASE loc[p].op = "init"
    BY <1>1, <1>3, <1>6, <2>1, <2>3, Panics_ DEF Panic, Panics, ptable
  <2> QED BY <2>2, <2>3
<1> HIDE DEF r
<1> QED BY <1>4, <1>5, <1>6 DEF MapPage, r

(* A page given back from a page table: deallocuvm and freevm.               *)
LEMMA DropPageInv ==
    ASSUME TypeInv, NEW p \in Procs, NEW d \in Pages, NEW v \in VA, pt[d][v].pa # NoPage,
           DropPage(p, d, v), UNCHANGED <<utab, ktab, ptable, tlb, pc, loc>>
    PROVE  TypeInv'
<1>1. pt[d][v].pa \in Pages
  BY PteOf DEF Ptes
<1>2. KmemType' /\ panic' \in Panics
  BY <1>1, KfreeType DEF DropPage, TypeInv, TypeOK
<1>3. TablesType'
  BY NoPteType, PtUpdate DEF DropPage, TypeInv, TypeOK, TablesType
<1> QED BY <1>2, <1>3, Panics_, PtableSame DEF TypeInv, TypeOK, ptable

LEMMA DeallocPageInv ==
    ASSUME TypeInv, NEW p \in Procs, DeallocPage(p)
    PROVE  TypeInv'
<1>1. pc[p] = "dealloc" /\ UNCHANGED <<utab, ktab, ptable, tlb, pc, loc>>
  BY DEF DeallocPage, At
<1>2. PICK v \in VA : pt[Dir(p)][v].pa # NoPage /\ DropPage(p, Dir(p), v)
  BY DEF DeallocPage, IsFirst, Mapped
<1>3. Dir(p) \in Pages
  BY <1>1, DirOf
<1> QED BY <1>1, <1>2, <1>3, DropPageInv

LEMMA FreePageInv ==
    ASSUME TypeInv, NEW p \in Procs, FreePage(p)
    PROVE  TypeInv'
<1>1. pc[p] = "freevm" /\ UNCHANGED <<utab, ktab, ptable, tlb, pc, loc>>
  BY DEF FreePage, At
<1>2. PICK v \in VA : pt[loc[p].pd][v].pa # NoPage /\ DropPage(p, loc[p].pd, v)
  BY DEF FreePage, IsFirst, Mapped
<1>3. loc[p].pd \in Pages
  BY <1>1, LocalsOf DEF LocalsOK, OpAt, Locs, Ops
<1> QED BY <1>1, <1>2, <1>3, DropPageInv

LEMMA FreeTableInv ==
    ASSUME TypeInv, NEW p \in Procs, FreeTable(p)
    PROVE  TypeInv'
<1>1. pc[p] = "freevm" /\ UNCHANGED <<pt, ptable, tlb, pc, loc>>
  BY DEF FreeTable, At
<1>2. loc[p].pd \in Pages
  BY <1>1, LocalsOf DEF LocalsOK, OpAt, Locs, Ops
<1>3. PICK t \in Pages :
        /\ Kfree(t)
        /\ \/ utab' = [utab EXCEPT ![loc[p].pd] = NoPage] /\ UNCHANGED ktab
           \/ ktab' = [ktab EXCEPT ![loc[p].pd] = @ \ {t}] /\ UNCHANGED utab
  BY <1>2 DEF FreeTable, TypeInv, TypeOK, TablesType
<1>4. KmemType' /\ panic' \in Panics
  BY <1>3, KfreeType DEF TypeInv, TypeOK
<1>5. TablesType'
  <2>1. TablesType
    BY DEF TypeInv, TypeOK
  <2>2. CASE utab' = [utab EXCEPT ![loc[p].pd] = NoPage] /\ UNCHANGED ktab
    BY <1>1, <2>1, <2>2 DEF TablesType
  <2>3. CASE ktab' = [ktab EXCEPT ![loc[p].pd] = @ \ {t}] /\ UNCHANGED utab
    <3>1. ktab[loc[p].pd] \ {t} \in SUBSET Pages
      BY <1>2, <2>1 DEF TablesType
    <3> QED BY <1>1, <2>1, <2>3, <3>1 DEF TablesType
  <2> QED BY <1>3, <2>2, <2>3
<1> QED BY <1>1, <1>4, <1>5, Panics_, PtableSame DEF TypeInv, TypeOK, ptable

LEMMA AllocFailedInv ==
    ASSUME TypeInv, NEW p \in Procs, AllocFailed(p)
    PROVE  TypeInv'
<1> DEFINE r == [loc[p] EXCEPT !.pg = NoPage]
<1>1. /\ pc[p] = "dealloc" /\ loc[p].op \in {"grow", "exec"}
      /\ UNCHANGED <<tables, ptable, tlb>>
  BY DEF AllocFailed, Deallocated, At
<1>2. loc[p] \in Locs /\ LocalsOK("dealloc", loc[p])
  BY <1>1, LocalsOf
<1>3. TablesType' /\ PtableType'
  BY <1>1, TablesSame, PtableSame DEF TypeInv, TypeOK
<1>4. KmemType' /\ panic' \in Panics
  <2>1. CASE UNCHANGED <<kmem, content, panic>>
    BY <2>1, KmemSame DEF TypeInv, TypeOK
  <2>2. CASE loc[p].pg # NoPage /\ Kfree(loc[p].pg)
    BY <1>2, <2>2, KfreeType DEF TypeInv, TypeOK, Locs
  <2> QED BY <2>1, <2>2 DEF AllocFailed
<1>5. CASE Return(p)
  BY <1>1, <1>3, <1>4, <1>5, Returns DEF ptable
<1>6. CASE loc[p].op = "exec" /\ GotoWith(p, "freevm", r)
  <2>1. r \in Locs /\ r.op = loc[p].op /\ r.np = loc[p].np /\ r.pd = loc[p].pd
    BY <1>2, PageUpdate
  <2> HIDE DEF r
  <2>2. LocalsOK("freevm", r)
    BY <1>2, <1>6, <2>1 DEF LocalsOK, OpAt
  <2> QED BY <1>1, <1>3, <1>4, <1>6, <2>1, <2>2, Advance DEF Pcs, ptable
<1> QED BY <1>1, <1>5, <1>6 DEF AllocFailed

LEMMA ExecBadInv ==
    ASSUME TypeInv, NEW p \in Procs, ExecBad(p)
    PROVE  TypeInv'
<1>1. /\ pc[p] = "alloc" /\ loc[p].op = "exec" /\ Goto(p, "freevm")
      /\ UNCHANGED <<kmem, content, tables, ptable, tlb, panic>>
  BY DEF ExecBad, At
<1>2. loc[p] \in Locs /\ LocalsOK("alloc", loc[p])
  BY <1>1, LocalsOf
<1>3. GotoWith(p, "freevm", loc[p]) /\ LocalsOK("freevm", loc[p])
  BY <1>1, <1>2, GotoIsGotoWith DEF TypeInv, TypeOK, LocalsOK, OpAt
<1>4. KmemType' /\ TablesType' /\ PtableType' /\ panic' \in Panics
  BY <1>1, KmemSame, TablesSame, PtableSame DEF TypeInv, TypeOK
<1> QED BY <1>1, <1>2, <1>3, <1>4, Advance DEF Pcs, ptable

(* growproc's new size.                                                      *)
LEMMA SizeUpdate ==
    ASSUME PtableType, NEW p \in Procs, NEW n \in 0 .. MaxSz, sz' = [sz EXCEPT ![p] = n],
           UNCHANGED <<state, parent, pgdir, kstack>>
    PROVE  PtableType'
BY DEF PtableType

LEMMA GrowDoneInv ==
    ASSUME TypeInv, NEW p \in Procs, GrowDone(p)
    PROVE  TypeInv'
<1>1. /\ pc[p] = "alloc" /\ loc[p].op = "grow" /\ Lcr3(p) /\ Return(p)
      /\ sz' = [sz EXCEPT ![p] = loc[p].lim]
      /\ UNCHANGED <<kmem, content, tables, state, parent, pgdir, kstack, panic>>
  BY DEF GrowDone, Allocated, At
<1>2. loc[p].lim \in 0 .. MaxSz
  BY LocalsOf DEF Locs
<1>3. PtableType'
  BY <1>1, <1>2, SizeUpdate DEF TypeInv, TypeOK
<1>4. KmemType' /\ TablesType' /\ panic' \in Panics
  BY <1>1, KmemSame, TablesSame DEF TypeInv, TypeOK
<1> QED BY <1>1, <1>3, <1>4, Returns

LEMMA ShrinkDoneInv ==
    ASSUME TypeInv, NEW p \in Procs, ShrinkDone(p)
    PROVE  TypeInv'
<1>1. /\ pc[p] = "dealloc" /\ loc[p].op = "shrink" /\ Return(p)
      /\ UNCHANGED <<kmem, content, tables, state, parent, pgdir, kstack, panic>>
  BY DEF ShrinkDone, Deallocated, At
<1>2. loc[p].base \in 0 .. MaxSz
  BY LocalsOf DEF Locs
<1>3. PtableType' /\ (UNCHANGED tlb \/ Lcr3(p))
  <2>1. CASE UNCHANGED <<sz, tlb>>
    BY <1>1, <2>1, PtableSame DEF TypeInv, TypeOK, ptable
  <2>2. CASE sz' = [sz EXCEPT ![p] = loc[p].base] /\ Lcr3(p)
    BY <1>1, <1>2, <2>2, SizeUpdate DEF TypeInv, TypeOK
  <2> QED BY <2>1, <2>2 DEF ShrinkDone
<1>4. KmemType' /\ TablesType' /\ panic' \in Panics
  BY <1>1, KmemSame, TablesSame DEF TypeInv, TypeOK
<1> QED BY <1>1, <1>3, <1>4, Returns

-----------------------------------------------------------------------------
(* User stores and CoW_handler. *)

LEMMA StoreInv ==
    ASSUME TypeInv, NEW p \in Procs, Store(p)
    PROVE  TypeInv'
<1>1. UNCHANGED <<kmem, tables, ptable, pc, loc, panic>>
  BY DEF Store
<1>2. PICK v \in VA, x \in Vals :
        LET e == pt[pgdir[p]][v] IN
        \/ content' = [content EXCEPT ![e.pa] = x] /\ tlb' = [tlb EXCEPT ![p][v] = e.pa]
           /\ pc[p] = "user"
        \/ content' = [content EXCEPT ![tlb[p][v]] = x] /\ UNCHANGED tlb
  BY DEF Store, At
<1>3. KmemType'
  BY <1>1, <1>2 DEF TypeInv, TypeOK, KmemType, kmem
<1>4. tlb' \in [Procs -> [VA -> Pages \union {NoPage}]]
  <2>1. CASE UNCHANGED tlb
    BY <2>1 DEF TypeInv, TypeOK, LocalType
  <2>2. CASE tlb' = [tlb EXCEPT ![p][v] = pt[pgdir[p]][v].pa] /\ pc[p] = "user"
    <3>1. pgdir[p] \in Pages
      <4>1. loc[p].op = "none"
        BY <2>2, LocalsOf DEF LocalsOK, OpAt, Locs, Ops
      <4> QED BY <2>2, <4>1, RunnableOf
    <3>2. pt[pgdir[p]][v].pa \in Pages \union {NoPage}
      BY <3>1, PteOf DEF Ptes
    <3> QED BY <2>2, <3>2 DEF TypeInv, TypeOK, LocalType
  <2> QED BY <1>2, <2>1, <2>2
<1>5. TablesType' /\ PtableType' /\ panic' \in Panics
  BY <1>1, TablesSame, PtableSame DEF TypeInv, TypeOK
<1>6. LocalType'
  BY <1>1, <1>4 DEF TypeInv, TypeOK, LocalType
<1> QED BY <1>1, <1>3, <1>5, <1>6, ControlSame DEF TypeInv, TypeOK, ptable

LEMMA CowOwnInv ==
    ASSUME TypeInv, NEW p \in Procs, CowOwn(p)
    PROVE  TypeInv'
<1>1. /\ pc[p] = "own" /\ Lcr3(p) /\ Return(p)
      /\ UNCHANGED <<kmem, content, utab, ktab, ptable, panic>>
      /\ pt' = IF loc[p].refc = 1 THEN [pt EXCEPT ![pgdir[p]][loc[p].va].w = TRUE] ELSE pt
  BY DEF CowOwn, At
<1>2. loc[p] \in Locs /\ loc[p].op = "fault"
  BY <1>1, LocalsOf DEF LocalsOK, OpAt, Locs, Ops
<1>3. pt' \in [Pages -> [VA -> Ptes]]
  <2>1. CASE pt' = pt
    BY <2>1 DEF TypeInv, TypeOK, TablesType
  <2>2. CASE pt' = [pt EXCEPT ![pgdir[p]][loc[p].va].w = TRUE]
    <3>1. pgdir[p] \in Pages /\ loc[p].va \in VA
      BY <1>1, <1>2, RunnableOf DEF Locs
    <3>2. [pt[pgdir[p]][loc[p].va] EXCEPT !.w = TRUE] \in Ptes
      <4>1. pt[pgdir[p]][loc[p].va] \in Ptes
        BY <3>1, PteOf
      <4> QED BY <4>1 DEF Ptes
    <3> QED BY <2>2, <3>1, <3>2 DEF TypeInv, TypeOK, TablesType
  <2> QED BY <1>1, <2>1, <2>2
<1>4. KmemType' /\ TablesType' /\ PtableType' /\ panic' \in Panics
  BY <1>1, <1>3, KmemSame, PtableSame DEF TypeInv, TypeOK, TablesType
<1> QED BY <1>1, <1>2, <1>4, Returns DEF ptable

LEMMA CowAllocInv ==
    ASSUME TypeInv, NEW p \in Procs, CowAlloc(p)
    PROVE  TypeInv'
<1>1. pc[p] = "dup" /\ UNCHANGED <<content, tables, ptable, tlb>>
  BY DEF CowAlloc, At
<1>2. loc[p] \in Locs /\ loc[p].op = "fault" /\ LocalsOK("dup", loc[p])
  BY <1>1, LocalsOf DEF LocalsOK, OpAt, Locs, Ops
<1>3. TablesType' /\ PtableType' /\ panic \in Panics
  BY <1>1, TablesSame, PtableSame DEF TypeInv, TypeOK
<1>4. ASSUME NEW g \in Pages, Kalloc(g), GotoWith(p, "move", [loc[p] EXCEPT !.pg = g]),
             UNCHANGED panic
      PROVE  TypeInv'
  <2> DEFINE r == [loc[p] EXCEPT !.pg = g]
  <2>1. r \in Locs /\ r.op = "fault" /\ r.np = loc[p].np /\ r.pd = loc[p].pd
        /\ r.pg = g /\ r.pa = loc[p].pa
    BY <1>2, PageUpdate
  <2>2. GotoWith(p, "move", r) /\ KmemType'
    BY <1>1, <1>4, KallocKeeps DEF TypeInv, TypeOK
  <2> HIDE DEF r
  <2>3. LocalsOK("move", r)
    BY <1>2, <2>1 DEF LocalsOK, OpAt
  <2> QED BY <1>1, <1>2, <1>3, <1>4, <2>1, <2>2, <2>3, Advance DEF Pcs, ptable
<1>5. CASE KallocFails /\ Panic("out of memory")
  <2>1. KmemType'
    BY <1>1, <1>5, KmemSame DEF TypeInv, TypeOK, KallocFails
  <2> QED BY <1>1, <1>3, <1>5, <2>1, Panics_ DEF Panic, Panics, ptable
<1> QED BY <1>4, <1>5 DEF CowAlloc

LEMMA CowMoveInv ==
    ASSUME TypeInv, NEW p \in Procs, CowMove(p)
    PROVE  TypeInv'
<1> DEFINE r == [loc[p] EXCEPT !.pg = NoPage]
<1>1. /\ pc[p] = "move" /\ GotoWith(p, "decr", r)
      /\ content' = [content EXCEPT ![loc[p].pg] = content[loc[p].pa]]
      /\ pt' = [pt EXCEPT ![pgdir[p]][loc[p].va] = Pte(loc[p].pg, TRUE, TRUE)]
      /\ UNCHANGED <<kmem, utab, ktab, ptable, tlb, panic>>
  BY DEF CowMove, At
<1>2. loc[p] \in Locs /\ loc[p].op = "fault" /\ LocalsOK("move", loc[p])
  BY <1>1, LocalsOf DEF LocalsOK, OpAt, Locs, Ops
<1>3. loc[p].pg \in Pages /\ loc[p].pa \in Pages
  BY <1>2 DEF LocalsOK
<1>4. KmemType'
  BY <1>1, <1>3 DEF TypeInv, TypeOK, KmemType, kmem
<1>5. TablesType'
  <2>1. Pte(loc[p].pg, TRUE, TRUE) \in Ptes
    BY <1>3 DEF Pte, Ptes
  <2> QED BY <1>1, <2>1, PtUpdate DEF TypeInv, TypeOK, TablesType
<1>6. r \in Locs /\ r.op = "fault" /\ r.np = loc[p].np /\ r.pd = loc[p].pd /\ r.pa = loc[p].pa
  BY <1>2, PageUpdate
<1> HIDE DEF r
<1>7. LocalsOK("decr", r)
  BY <1>2, <1>6 DEF LocalsOK, OpAt
<1>8. PtableType' /\ panic' \in Panics
  BY <1>1, PtableSame DEF TypeInv, TypeOK
<1> QED BY <1>1, <1>2, <1>4, <1>5, <1>6, <1>7, <1>8, Advance DEF Pcs, ptable

LEMMA CowDecrInv ==
    ASSUME TypeInv, NEW p \in Procs, CowDecr(p)
    PROVE  TypeInv'
<1>1. /\ pc[p] = "decr" /\ DecrRefc(loc[p].pa) /\ Lcr3(p) /\ Return(p)
      /\ UNCHANGED <<free, fpcnt, content, tables, ptable, panic>>
  BY DEF CowDecr, At
<1>2. loc[p].op = "fault"
  BY <1>1, LocalsOf DEF LocalsOK, OpAt, Locs, Ops
<1>3. KmemType'
  BY <1>1, IncrType DEF TypeInv, TypeOK
<1>4. TablesType' /\ PtableType' /\ panic' \in Panics
  BY <1>1, TablesSame, PtableSame DEF TypeInv, TypeOK
<1> QED BY <1>1, <1>2, <1>3, <1>4, Returns DEF ptable

-----------------------------------------------------------------------------
(* The steps that change the process table. *)

LEMMA InitDoneInv ==
    ASSUME TypeInv, NEW p \in Procs, InitDone(p)
    PROVE  TypeInv'
<1>1. /\ pc[p] = "alloc" /\ loc[p].op = "init" /\ Return(p)
      /\ content' = [content EXCEPT ![pt[loc[p].pd][0].pa] = Code]
      /\ pgdir' = [pgdir EXCEPT ![p] = loc[p].pd]
      /\ sz'    = [sz    EXCEPT ![p] = 1]
      /\ state' = [state EXCEPT ![p] = "RUNNABLE"]
      /\ UNCHANGED <<kmem, tables, parent, kstack, tlb, panic>>
  BY DEF InitDone, Allocated, At
<1>2. loc[p] \in Locs /\ loc[p].pd \in Pages
  BY <1>1, LocalsOf DEF LocalsOK, OpAt
<1>3. KmemType'
  BY <1>1, CowAssumption DEF TypeInv, TypeOK, KmemType, kmem
<1>4. PtableType'
  <2>1. 1 \in 0 .. MaxSz
    BY CowAssumption
  <2> QED BY <1>1, <1>2, <2>1 DEF TypeInv, TypeOK, PtableType
<1>5. LocalType'
  BY <1>1, NoLocType, LocalMove DEF Return, Pcs, TypeInv, TypeOK
<1>6. Control'
  <2>1. pc \in [Procs -> Pcs] /\ loc \in [Procs -> Locs] /\ PtableType
    BY DEF TypeInv, TypeOK, LocalType
  <2>2. /\ pc'[p] = "user" /\ loc'[p] = NoLoc
        /\ state'[p] = "RUNNABLE" /\ pgdir'[p] \in Pages /\ kstack' = kstack
        /\ \A q \in Procs : q # p => /\ pc'[q] = pc[q] /\ loc'[q] = loc[q]
                                     /\ state'[q] = state[q] /\ pgdir'[q] = pgdir[q]
    BY <1>1, <1>2, <2>1 DEF Return, GotoWith, PtableType
  <2>3. LocalsOK("user", NoLoc) /\ NoLoc.op = "none"
    BY CowAssumption DEF LocalsOK, OpAt, NoLoc
  <2>4. kstack[p] \in Pages
    BY <1>1, InitOf
  <2> SUFFICES ASSUME NEW q \in Procs
               PROVE  (LocalsOK(pc[q], loc[q]) /\ SlotOK(q) /\ ForksOK(q) /\ WaitsOK(q))'
    BY DEF Control
  <2>5. LocalsOK(pc[q], loc[q])'
    BY <2>2, <2>3 DEF TypeInv, Control, LocalsOK
  <2>6. SlotOK(q)'
    BY <1>1, <2>2, <2>3, <2>4 DEF TypeInv, Control, SlotOK
  <2>7. ForksOK(q)'
    BY <1>1, <2>2, <2>3 DEF TypeInv, Control, SlotOK, ForksOK
  <2>8. WaitsOK(q)'
    BY <1>1, <2>2, <2>3 DEF TypeInv, Control, SlotOK, WaitsOK
  <2> QED BY <2>5, <2>6, <2>7, <2>8
<1> QED BY <1>1, <1>3, <1>4, <1>5, <1>6, TablesSame DEF TypeInv, TypeOK

LEMMA PteUserUpdate ==
    ASSUME TypeInv, NEW d \in Pages, NEW v \in VA, pt' = [pt EXCEPT ![d][v].u = FALSE]
    PROVE  pt' \in [Pages -> [VA -> Ptes]]
<1>1. [pt[d][v] EXCEPT !.u = FALSE] \in Ptes
  BY PteOf DEF Ptes
<1> QED BY <1>1 DEF TypeInv, TypeOK, TablesType

LEMMA ExecCommitInv ==
    ASSUME TypeInv, NEW p \in Procs, ExecCommit(p)
    PROVE  TypeInv'
<1> DEFINE d == loc[p].pd
           r == [NoLoc EXCEPT !.op = "exec", !.pd = pgdir[p]]
<1>1. /\ pc[p] = "alloc" /\ loc[p].op = "exec" /\ Lcr3(p) /\ GotoWith(p, "freevm", r)
      /\ pt'    = [pt    EXCEPT ![d][TextSz].u = FALSE]
      /\ pgdir' = [pgdir EXCEPT ![p] = d]
      /\ sz'    = [sz    EXCEPT ![p] = loc[p].lim]
      /\ UNCHANGED <<kmem, utab, ktab, state, parent, kstack, panic>>
  BY DEF ExecCommit, Allocated, At
<1>2. loc[p] \in Locs /\ d \in Pages /\ pgdir[p] \in Pages /\ state[p] = "RUNNABLE"
  BY <1>1, LocalsOf, RunnableOf DEF LocalsOK, OpAt
<1>3. KmemType'
  <2>1. content' \in [Pages -> Vals \union {Junk}]
    BY CowAssumption DEF ExecCommit, TypeInv, TypeOK, KmemType
  <2> QED BY <1>1, <2>1 DEF TypeInv, TypeOK, KmemType, kmem
<1>4. TablesType'
  <2>1. TextSz \in VA
    BY CowAssumption DEF VA
  <2> QED BY <1>1, <1>2, <2>1, PteUserUpdate DEF TypeInv, TypeOK, TablesType
<1>5. PtableType'
  BY <1>1, <1>2 DEF TypeInv, TypeOK, PtableType, Locs
<1>6. r \in Locs /\ r.op = "exec" /\ r.pd \in Pages
  BY <1>2, NoLocType DEF Locs, Ops
<1>7. LocalsOK("freevm", r)
  BY <1>6 DEF LocalsOK, OpAt
<1> HIDE DEF r
<1>8. LocalType'
  BY <1>1, <1>6, LocalMove DEF Pcs, TypeInv, TypeOK
<1>9. Control'
  <2>1. pc \in [Procs -> Pcs] /\ loc \in [Procs -> Locs] /\ PtableType
    BY DEF TypeInv, TypeOK, LocalType
  <2>2. /\ pc'[p] = "freevm" /\ loc'[p] = r /\ pgdir'[p] \in Pages
        /\ state' = state /\ kstack' = kstack
        /\ \A q \in Procs : q # p => /\ pc'[q] = pc[q] /\ loc'[q] = loc[q]
                                     /\ pgdir'[q] = pgdir[q]
    BY <1>1, <1>2, <2>1 DEF GotoWith, PtableType
  <2> SUFFICES ASSUME NEW q \in Procs
               PROVE  (LocalsOK(pc[q], loc[q]) /\ SlotOK(q) /\ ForksOK(q) /\ WaitsOK(q))'
    BY DEF Control
  <2>5. LocalsOK(pc[q], loc[q])'
    BY <1>7, <2>2 DEF TypeInv, Control, LocalsOK
  <2>6. SlotOK(q)'
    BY <1>1, <1>2, <1>6, <2>2 DEF TypeInv, Control, SlotOK
  <2>7. ForksOK(q)'
    BY <1>1, <1>6, <2>2 DEF TypeInv, Control, SlotOK, ForksOK
  <2>8. WaitsOK(q)'
    BY <1>1, <1>6, <2>2 DEF TypeInv, Control, SlotOK, WaitsOK
  <2> QED BY <2>5, <2>6, <2>7, <2>8
<1> QED BY <1>1, <1>3, <1>4, <1>5, <1>8, <1>9 DEF TypeInv, TypeOK

LEMMA ForkInv ==
    ASSUME TypeInv, NEW p \in Procs, Fork(p)
    PROVE  TypeInv'
<1>1. pc[p] = "user" /\ UNCHANGED <<kmem, content, tables, parent, pgdir, kstack, sz, tlb, panic>>
  BY DEF Fork, At
<1>2. PICK np \in Procs :
        /\ state[np] = "UNUSED" /\ state' = [state EXCEPT ![np] = "EMBRYO"]
        /\ GotoWith(p, "kstack", [NoLoc EXCEPT !.op = "fork", !.np = np])
  BY DEF Fork
<1> DEFINE r == [NoLoc EXCEPT !.op = "fork", !.np = np]
<1>3. r \in Locs /\ r.op = "fork" /\ r.np = np
  BY NoLocType DEF Locs, Ops
<1>4. LocalsOK("kstack", r)
  BY CowAssumption DEF LocalsOK, OpAt, NoLoc
<1>5. GotoWith(p, "kstack", r) /\ loc[p].op = "none"
  BY <1>1, <1>2, LocalsOf DEF LocalsOK, OpAt, Locs, Ops
<1> HIDE DEF r
<1>6. KmemType' /\ TablesType' /\ panic' \in Panics
  BY <1>1, KmemSame, TablesSame DEF TypeInv, TypeOK
<1>7. PtableType'
  BY <1>1, <1>2 DEF TypeInv, TypeOK, PtableType
<1>8. LocalType'
  BY <1>1, <1>3, <1>5, LocalMove DEF Pcs, TypeInv, TypeOK
<1>9. Control'
  <2>1. pc \in [Procs -> Pcs] /\ loc \in [Procs -> Locs] /\ PtableType
    BY DEF TypeInv, TypeOK, LocalType
  <2>2. /\ pc'[p] = "kstack" /\ loc'[p] = r /\ state'[np] = "EMBRYO"
        /\ pgdir' = pgdir /\ kstack' = kstack
        /\ \A q \in Procs : q # p => pc'[q] = pc[q] /\ loc'[q] = loc[q]
        /\ \A q \in Procs : q # np => state'[q] = state[q]
    BY <1>1, <1>2, <1>5, <2>1 DEF GotoWith, PtableType
  <2>3. np # p /\ pc[np] = "none"
    <3>1. state[p] = "RUNNABLE"
      BY <1>1, <1>5, RunnableOf
    <3>2. pc[np] = "none"
      BY <1>2, UnusedOf
    <3> QED BY <1>2, <3>1, <3>2
  <2> SUFFICES ASSUME NEW q \in Procs
               PROVE  (LocalsOK(pc[q], loc[q]) /\ SlotOK(q) /\ ForksOK(q) /\ WaitsOK(q))'
    BY DEF Control
  <2>5. LocalsOK(pc[q], loc[q])'
    BY <1>4, <2>2 DEF TypeInv, Control, LocalsOK
  <2>6. SlotOK(q)'
    BY <1>1, <1>2, <1>3, <1>5, <2>2, <2>3 DEF TypeInv, Control, SlotOK
  <2>7. ForksOK(q)'
    BY <1>1, <1>2, <1>3, <1>5, <2>2, <2>3 DEF TypeInv, Control, ForksOK
  <2>8. WaitsOK(q)'
    BY <1>1, <1>2, <1>3, <1>5, <2>2 DEF TypeInv, Control, WaitsOK
  <2> QED BY <2>5, <2>6, <2>7, <2>8
<1> QED BY <1>6, <1>7, <1>8, <1>9 DEF TypeInv, TypeOK

LEMMA AllocKstackInv ==
    ASSUME TypeInv, NEW p \in Procs, AllocKstack(p)
    PROVE  RunInv'
<1> DEFINE np == loc[p].np
<1>1. pc[p] = "kstack" /\ UNCHANGED <<content, tables, parent, pgdir, sz, tlb>>
  BY DEF AllocKstack, At
<1>2. loc[p] \in Locs /\ loc[p].op \in {"init", "fork"} /\ LocalsOK("kstack", loc[p])
  BY <1>1, LocalsOf DEF LocalsOK, OpAt, Locs, Ops
<1>3. TablesType' /\ panic \in Panics
  BY <1>1, TablesSame DEF TypeInv, TypeOK
<1>4. pc \in [Procs -> Pcs] /\ loc \in [Procs -> Locs] /\ PtableType
  BY DEF TypeInv, TypeOK, LocalType
<1>5. /\ np \in Procs /\ state[np] = "EMBRYO"
      /\ loc[p].op = "fork" => np # p /\ pc[np] = "none" /\ loc[np].op = "none"
      /\ loc[p].op = "init" => np = p
  BY <1>2, ForkOf, InitOf, IdleOf
<1>6. ASSUME NEW g \in Pages, Kalloc(g), kstack' = [kstack EXCEPT ![np] = g],
             Goto(p, "pgdir"), UNCHANGED <<state, panic>>
      PROVE  TypeInv'
  <2>1. KmemType' /\ PtableType'
    BY <1>1, <1>6, KallocKeeps DEF TypeInv, TypeOK, PtableType
  <2>2. GotoWith(p, "pgdir", loc[p]) /\ LocalsOK("pgdir", loc[p])
    BY <1>2, <1>6, GotoIsGotoWith DEF TypeInv, TypeOK, LocalsOK, OpAt
  <2>3. LocalType'
    BY <1>1, <1>2, <2>2, LocalMove DEF Pcs, TypeInv, TypeOK
  <2>4. Control'
    <3>1. /\ pc'[p] = "pgdir" /\ loc' = loc /\ state' = state /\ pgdir' = pgdir
          /\ kstack'[np] = g
          /\ \A q \in Procs : q # p => pc'[q] = pc[q]
          /\ \A q \in Procs : q # np => kstack'[q] = kstack[q]
      BY <1>1, <1>4, <1>5, <1>6 DEF Goto, PtableType
    <3> HIDE DEF np
    <3> SUFFICES ASSUME NEW q \in Procs
                 PROVE  (LocalsOK(pc[q], loc[q]) /\ SlotOK(q) /\ ForksOK(q) /\ WaitsOK(q))'
      BY DEF Control
    <3>2. LocalsOK(pc[q], loc[q])'
      BY <2>2, <3>1 DEF TypeInv, Control, LocalsOK
    <3>3. SlotOK(q)'
      BY <1>1, <1>2, <1>5, <3>1 DEF TypeInv, Control, SlotOK
    <3>4. ForksOK(q)'
      BY <1>1, <1>2, <1>5, <3>1 DEF TypeInv, Control, ForksOK, np
    <3>5. WaitsOK(q)'
      BY <1>1, <1>2, <3>1 DEF TypeInv, Control, WaitsOK
    <3> QED BY <3>2, <3>3, <3>4, <3>5
  <2> QED BY <1>3, <1>6, <2>1, <2>3, <2>4 DEF TypeInv, TypeOK
<1>7. ASSUME KallocFails, state' = [state EXCEPT ![np] = "UNUSED"], UNCHANGED kstack,
             loc[p].op = "fork", Return(p), UNCHANGED panic
      PROVE  TypeInv'
  <2>1. KmemType' /\ PtableType'
    BY <1>1, <1>7, KmemSame DEF TypeInv, TypeOK, PtableType, KallocFails
  <2>2. LocalsOK("user", NoLoc) /\ NoLoc.op = "none"
    BY CowAssumption DEF LocalsOK, OpAt, NoLoc
  <2>3. LocalType'
    BY <1>1, <1>7, NoLocType, LocalMove DEF Return, Pcs, TypeInv, TypeOK
  <2>4. Control'
    <3>1. /\ pc'[p] = "user" /\ loc'[p] = NoLoc /\ state'[np] = "UNUSED"
          /\ pgdir' = pgdir /\ kstack' = kstack
          /\ \A q \in Procs : q # p => pc'[q] = pc[q] /\ loc'[q] = loc[q]
          /\ \A q \in Procs : q # np => state'[q] = state[q]
      BY <1>1, <1>4, <1>5, <1>7 DEF Return, GotoWith, PtableType
    <3>2. np # p /\ pc[np] = "none" /\ loc[np].op = "none"
      BY <1>5, <1>7
    <3>3. \A q \in Procs : loc[q].op = "fork" /\ loc[q].np = np => q = p
      BY <1>7, ForkOf
    <3> HIDE DEF np
    <3> SUFFICES ASSUME NEW q \in Procs
                 PROVE  (LocalsOK(pc[q], loc[q]) /\ SlotOK(q) /\ ForksOK(q) /\ WaitsOK(q))'
      BY DEF Control
    <3>4. LocalsOK(pc[q], loc[q])'
      BY <2>2, <3>1 DEF TypeInv, Control, LocalsOK
    <3>5. SlotOK(q)'
      BY <1>1, <1>7, <2>2, <3>1, <3>2 DEF TypeInv, Control, SlotOK
    <3>6. ForksOK(q)'
      BY <1>1, <1>7, <2>2, <3>1, <3>2, <3>3 DEF TypeInv, Control, ForksOK
    <3>7. WaitsOK(q)'
      BY <1>1, <1>5, <1>7, <2>2, <3>1 DEF TypeInv, Control, WaitsOK
    <3> QED BY <3>4, <3>5, <3>6, <3>7
  <2> QED BY <1>3, <1>7, <2>1, <2>3, <2>4 DEF TypeInv, TypeOK
<1>8. ASSUME KallocFails, state' = [state EXCEPT ![np] = "UNUSED"], UNCHANGED kstack,
             Panic("userinit")
      PROVE  RunInv'
  <2>1. KmemType' /\ PtableType'
    BY <1>1, <1>8, KmemSame DEF TypeInv, TypeOK, PtableType, KallocFails
  <2>2. LocalType' /\ panic' = "userinit"
    BY <1>1, <1>8, LocalSame DEF Panic, TypeInv, TypeOK
  <2> QED BY <1>3, <2>1, <2>2 DEF RunInv, TypeOK, Panics
<1> QED BY <1>6, <1>7, <1>8 DEF AllocKstack, RunInv, TypeInv

LEMMA ForkCommitInv ==
    ASSUME TypeInv, NEW p \in Procs, ForkCommit(p)
    PROVE  TypeInv'
<1> DEFINE np == loc[p].np
<1>1. /\ pc[p] = "commit" /\ loc[p].op = "fork"
      /\ pgdir'  = [pgdir  EXCEPT ![np] = loc[p].pd]
      /\ sz'     = [sz     EXCEPT ![np] = sz[p]]
      /\ parent' = [parent EXCEPT ![np] = p]
      /\ state'  = [state  EXCEPT ![np] = "RUNNABLE"]
      /\ pc'     = [pc  EXCEPT ![np] = "user", ![p] = "user"]
      /\ loc'    = [loc EXCEPT ![np] = NoLoc, ![p] = NoLoc]
      /\ tlb'    = [tlb EXCEPT ![np] = [v \in VA |-> NoPage]]
      /\ UNCHANGED <<kmem, content, tables, kstack, panic>>
  BY DEF ForkCommit, At
<1>2. loc[p].pd \in Pages /\ state[p] = "RUNNABLE" /\ pgdir[p] \in Pages /\ kstack[p] \in Pages
  BY <1>1, LocalsOf, RunnableOf DEF LocalsOK, OpAt
<1>3. /\ np \in Procs /\ np # p /\ state[np] = "EMBRYO" /\ kstack[np] \in Pages
      /\ pc[np] = "none" /\ loc[np].op = "none"
      /\ \A q \in Procs : loc[q].op = "fork" /\ loc[q].np = np => q = p
  BY <1>1, ForkOf, IdleOf
<1>4. pc \in [Procs -> Pcs] /\ loc \in [Procs -> Locs] /\ PtableType
  BY DEF TypeInv, TypeOK, LocalType
<1>5. KmemType' /\ TablesType' /\ panic' \in Panics
  BY <1>1, KmemSame, TablesSame DEF TypeInv, TypeOK
<1>6. PtableType'
  BY <1>1, <1>2, <1>4, LocalsOf DEF PtableType
<1>7. LocalType'
  BY <1>1, <1>4, NoLocType DEF Pcs, TypeInv, TypeOK, LocalType
<1>8. Control'
  <2>1. LocalsOK("user", NoLoc) /\ NoLoc.op = "none"
    BY CowAssumption DEF LocalsOK, OpAt, NoLoc
  <2>2. /\ pc'[p] = "user" /\ loc'[p] = NoLoc /\ pc'[np] = "user" /\ loc'[np] = NoLoc
        /\ state'[np] = "RUNNABLE" /\ pgdir'[np] \in Pages /\ kstack' = kstack
        /\ \A q \in Procs : q \notin {p, np} => pc'[q] = pc[q] /\ loc'[q] = loc[q]
        /\ \A q \in Procs : q # np => state'[q] = state[q] /\ pgdir'[q] = pgdir[q]
    BY <1>1, <1>2, <1>3, <1>4 DEF PtableType
  <2> HIDE DEF np
  <2> SUFFICES ASSUME NEW q \in Procs
               PROVE  (LocalsOK(pc[q], loc[q]) /\ SlotOK(q) /\ ForksOK(q) /\ WaitsOK(q))'
    BY DEF Control
  <2>3. LocalsOK(pc[q], loc[q])'
    BY <2>1, <2>2 DEF TypeInv, Control, LocalsOK
  <2>4. SlotOK(q)'
    <3>1. CASE q \in {p, np}
      BY <1>2, <1>3, <2>1, <2>2, <3>1 DEF SlotOK
    <3>2. CASE q \notin {p, np}
      <4>1. \A w \in Procs : loc[w].op = "wait" => w \notin {p, np}
        BY <1>1, <1>3
      <4> QED BY <1>3, <2>1, <2>2, <3>2, <4>1 DEF TypeInv, Control, SlotOK
    <3> QED BY <3>1, <3>2
  <2>5. ForksOK(q)'
    <3>1. CASE q \in {p, np}
      BY <2>1, <2>2, <3>1 DEF ForksOK
    <3>2. CASE q \notin {p, np}
      <4>1. loc[q].op = "fork" => loc[q].np \notin {p, np}
        BY <1>2, <1>3, <3>2, ForkOf
      <4> QED BY <2>1, <2>2, <3>2, <4>1, ForkOf DEF ForksOK
    <3> QED BY <3>1, <3>2
  <2>6. WaitsOK(q)'
    BY <1>3, <2>1, <2>2, WaitOf DEF WaitsOK
  <2> QED BY <2>3, <2>4, <2>5, <2>6
<1> QED BY <1>5, <1>6, <1>7, <1>8 DEF TypeInv, TypeOK

LEMMA ForkUndoInv ==
    ASSUME TypeInv, NEW p \in Procs, ForkUndo(p)
    PROVE  TypeInv'
<1> DEFINE np == loc[p].np
<1>1. /\ pc[p] = "undo" /\ Kfree(kstack[np]) /\ Return(p)
      /\ kstack' = [kstack EXCEPT ![np] = NoPage]
      /\ state'  = [state EXCEPT ![np] = "UNUSED"]
      /\ UNCHANGED <<tables, parent, pgdir, sz, tlb>>
  BY DEF ForkUndo, At
<1>2. loc[p].op = "fork"
  BY <1>1, LocalsOf DEF LocalsOK, OpAt, Locs, Ops
<1>3. /\ np \in Procs /\ np # p /\ state[np] = "EMBRYO" /\ kstack[np] \in Pages
      /\ pc[np] = "none" /\ loc[np].op = "none"
      /\ \A q \in Procs : loc[q].op = "fork" /\ loc[q].np = np => q = p
  BY <1>1, <1>2, ForkOf, IdleOf
<1>4. pc \in [Procs -> Pcs] /\ loc \in [Procs -> Locs] /\ PtableType
  BY DEF TypeInv, TypeOK, LocalType
<1>5. KmemType' /\ panic' \in Panics
  BY <1>1, <1>3, KfreeType DEF TypeInv, TypeOK
<1>6. TablesType' /\ PtableType'
  BY <1>1, <1>4, TablesSame DEF TypeInv, TypeOK, PtableType
<1>7. LocalType'
  BY <1>1, NoLocType, LocalMove DEF Return, Pcs, TypeInv, TypeOK
<1>8. Control'
  <2>1. LocalsOK("user", NoLoc) /\ NoLoc.op = "none"
    BY CowAssumption DEF LocalsOK, OpAt, NoLoc
  <2>2. /\ pc'[p] = "user" /\ loc'[p] = NoLoc /\ state'[np] = "UNUSED" /\ pgdir' = pgdir
        /\ \A q \in Procs : q # p => pc'[q] = pc[q] /\ loc'[q] = loc[q]
        /\ \A q \in Procs : q # np => state'[q] = state[q] /\ kstack'[q] = kstack[q]
    BY <1>1, <1>3, <1>4 DEF Return, GotoWith, PtableType
  <2> HIDE DEF np
  <2> SUFFICES ASSUME NEW q \in Procs
               PROVE  (LocalsOK(pc[q], loc[q]) /\ SlotOK(q) /\ ForksOK(q) /\ WaitsOK(q))'
    BY DEF Control
  <2>3. LocalsOK(pc[q], loc[q])'
    BY <2>1, <2>2 DEF TypeInv, Control, LocalsOK
  <2>4. SlotOK(q)'
    BY <1>1, <1>2, <1>3, <2>1, <2>2 DEF TypeInv, Control, SlotOK
  <2>5. ForksOK(q)'
    BY <1>1, <1>3, <2>1, <2>2, ForkOf DEF ForksOK
  <2>6. WaitsOK(q)'
    BY <1>3, <2>1, <2>2, WaitOf DEF WaitsOK
  <2> QED BY <2>3, <2>4, <2>5, <2>6
<1> QED BY <1>5, <1>6, <1>7, <1>8 DEF TypeInv, TypeOK

LEMMA FreeDirInv ==
    ASSUME TypeInv, NEW p \in Procs, FreeDir(p)
    PROVE  TypeInv'
<1> DEFINE np == loc[p].np
           r  == [loc[p] EXCEPT !.pd = NoPage]
<1>1. pc[p] = "freevm" /\ Kfree(loc[p].pd) /\ UNCHANGED <<tables, pgdir, kstack, sz, tlb>>
  BY DEF FreeDir, At
<1>2. loc[p] \in Locs /\ loc[p].pd \in Pages /\ loc[p].op \in {"fork", "exec", "wait"}
  BY <1>1, LocalsOf DEF LocalsOK, OpAt, Locs, Ops
<1>3. KmemType' /\ panic' \in Panics
  BY <1>1, <1>2, KfreeType DEF TypeInv, TypeOK
<1>4. CASE loc[p].op = "fork" /\ GotoWith(p, "undo", r) /\ UNCHANGED <<state, parent>>
  <2>1. r \in Locs /\ r.op = "fork" /\ r.np = loc[p].np /\ r.pd = NoPage
    BY <1>2, <1>4 DEF Locs
  <2> HIDE DEF r
  <2>2. LocalsOK("undo", r)
    BY <2>1, CowAssumption DEF LocalsOK, OpAt
  <2>3. TablesType' /\ PtableType'
    BY <1>1, <1>4, TablesSame, PtableSame DEF TypeInv, TypeOK, ptable
  <2> QED BY <1>1, <1>3, <1>4, <2>1, <2>2, <2>3, Advance DEF Pcs
<1>5. CASE loc[p].op = "exec" /\ Return(p) /\ UNCHANGED <<state, parent>>
  <2>1. TablesType' /\ PtableType'
    BY <1>1, <1>5, TablesSame, PtableSame DEF TypeInv, TypeOK, ptable
  <2> QED BY <1>1, <1>3, <1>5, <2>1, Returns
<1>6. ASSUME loc[p].op = "wait", Return(p), state' = [state EXCEPT ![np] = "UNUSED"],
             parent' = [parent EXCEPT ![np] = NoProc]
      PROVE  TypeInv'
  <2>1. pc \in [Procs -> Pcs] /\ loc \in [Procs -> Locs] /\ PtableType
    BY DEF TypeInv, TypeOK, LocalType
  <2>2. TablesType' /\ PtableType'
    BY <1>1, <1>6, <2>1, TablesSame DEF TypeInv, TypeOK, PtableType
  <2>3. LocalType'
    BY <1>1, <1>6, NoLocType, LocalMove DEF Return, Pcs, TypeInv, TypeOK
  <2>4. /\ np \in Procs /\ np # p /\ state[np] = "ZOMBIE"
        /\ pc[np] = "none" /\ loc[np].op = "none"
        /\ \A q \in Procs : loc[q].op = "wait" => q = p
    BY <1>6, WaitOf, IdleOf
  <2>5. LocalsOK("user", NoLoc) /\ NoLoc.op = "none"
    BY CowAssumption DEF LocalsOK, OpAt, NoLoc
  <2>6. /\ pc'[p] = "user" /\ loc'[p] = NoLoc /\ state'[np] = "UNUSED"
        /\ pgdir' = pgdir /\ kstack' = kstack
        /\ \A q \in Procs : q # p => pc'[q] = pc[q] /\ loc'[q] = loc[q]
        /\ \A q \in Procs : q # np => state'[q] = state[q]
    BY <1>1, <1>6, <2>1, <2>4 DEF Return, GotoWith, PtableType
  <2>7. Control'
    <3> HIDE DEF np
    <3> SUFFICES ASSUME NEW q \in Procs
                 PROVE  (LocalsOK(pc[q], loc[q]) /\ SlotOK(q) /\ ForksOK(q) /\ WaitsOK(q))'
      BY DEF Control
    <3>1. LocalsOK(pc[q], loc[q])'
      BY <2>5, <2>6 DEF TypeInv, Control, LocalsOK
    <3>2. SlotOK(q)'
      <4>1. state[q] = "ZOMBIE" => q = np \/ (pgdir[q] \in Pages /\ kstack[q] \in Pages)
        BY <2>4, ZombieOf DEF np
      <4>2. CASE q = np
        BY <2>4, <2>6, <4>2 DEF SlotOK
      <4>3. CASE q = p
        <5>1. state[p] = "RUNNABLE" /\ pgdir[p] \in Pages /\ kstack[p] \in Pages
          BY <1>1, <1>6, RunnableOf
        <5> QED BY <2>4, <2>5, <2>6, <4>3, <5>1 DEF SlotOK
      <4>4. CASE q \notin {p, np}
        BY <2>6, <4>1, <4>4 DEF TypeInv, Control, SlotOK
      <4> QED BY <4>2, <4>3, <4>4
    <3>3. ForksOK(q)'
      <4>1. loc[q].op = "fork" => loc[q].np \notin {p, np}
        BY <1>1, <1>6, <2>4, ForkOf
      <4> QED BY <2>5, <2>6, <4>1, ForkOf DEF ForksOK
    <3>4. WaitsOK(q)'
      BY <2>4, <2>5, <2>6 DEF WaitsOK
    <3> QED BY <3>1, <3>2, <3>3, <3>4
  <2> QED BY <1>3, <2>2, <2>3, <2>7 DEF TypeInv, TypeOK
<1> HIDE DEF r
<1> QED BY <1>4, <1>5, <1>6 DEF FreeDir, r

LEMMA ExitInv ==
    ASSUME TypeInv, NEW p \in Procs, Exit(p)
    PROVE  TypeInv'
<1>1. pc[p] = "user" /\ PtableFree /\ UNCHANGED <<kmem, content, tables, pgdir, kstack, sz>>
  BY DEF Exit, At
<1>2. KmemType' /\ TablesType'
  BY <1>1, KmemSame, TablesSame DEF TypeInv, TypeOK
<1>3. pc \in [Procs -> Pcs] /\ loc \in [Procs -> Locs] /\ PtableType /\ panic \in Panics
  BY DEF TypeInv, TypeOK, LocalType
<1>4. CASE Panic("init exiting") /\ UNCHANGED <<state, parent, tlb>>
  <2>1. PtableType'
    BY <1>1, <1>3, <1>4, PtableSame DEF ptable
  <2> QED BY <1>1, <1>2, <1>4, <2>1, Panics_ DEF Panic, Panics
<1>5. ASSUME parent' = [q \in Procs |-> IF parent[q] = p THEN InitProc ELSE parent[q]],
             state' = [state EXCEPT ![p] = "ZOMBIE"], GotoWith(p, "none", NoLoc),
             Lcr3(p), UNCHANGED panic
      PROVE  TypeInv'
  <2>1. PtableType'
    BY <1>1, <1>3, <1>5, CowAssumption DEF PtableType
  <2>2. LocalType'
    BY <1>5, NoLocType, LocalMove DEF Pcs, TypeInv, TypeOK
  <2>3. /\ pc'[p] = "none" /\ loc'[p] = NoLoc /\ state'[p] = "ZOMBIE"
        /\ pgdir' = pgdir /\ kstack' = kstack
        /\ \A q \in Procs : q # p => /\ pc'[q] = pc[q] /\ loc'[q] = loc[q]
                                     /\ state'[q] = state[q]
    BY <1>1, <1>3, <1>5 DEF GotoWith, PtableType
  <2>4. LocalsOK("none", NoLoc) /\ NoLoc.op = "none"
    BY CowAssumption DEF LocalsOK, OpAt, NoLoc
  <2>5. loc[p].op = "none" /\ \A q \in Procs : loc[q].op # "wait"
    BY <1>1, LocalsOf DEF LocalsOK, OpAt, Locs, Ops, PtableFree, Reaping
  <2>6. state[p] = "RUNNABLE" /\ pgdir[p] \in Pages /\ kstack[p] \in Pages
    BY <1>1, <2>5, RunnableOf
  <2>7. Control'
    <3> SUFFICES ASSUME NEW q \in Procs
                 PROVE  (LocalsOK(pc[q], loc[q]) /\ SlotOK(q) /\ ForksOK(q) /\ WaitsOK(q))'
      BY DEF Control
    <3>1. LocalsOK(pc[q], loc[q])'
      BY <2>3, <2>4 DEF TypeInv, Control, LocalsOK
    <3>2. SlotOK(q)'
      BY <2>3, <2>4, <2>5, <2>6 DEF TypeInv, Control, SlotOK
    <3>3. ForksOK(q)'
      BY <2>3, <2>4, <2>5, <2>6, ForkOf DEF ForksOK
    <3>4. WaitsOK(q)'
      BY <2>3, <2>4, <2>5 DEF WaitsOK
    <3> QED BY <3>1, <3>2, <3>3, <3>4
  <2> QED BY <1>2, <1>3, <1>5, <2>1, <2>2, <2>7 DEF TypeInv, TypeOK
<1> QED BY <1>4, <1>5 DEF Exit

LEMMA WaitInv ==
    ASSUME TypeInv, NEW p \in Procs, Wait(p)
    PROVE  TypeInv'
<1>1. pc[p] = "user" /\ PtableFree /\ UNCHANGED <<tables, state, parent, tlb>>
  BY DEF Wait, At
<1>2. PICK c \in Procs :
        /\ state[c] = "ZOMBIE" /\ Kfree(kstack[c])
        /\ GotoWith(p, "freevm", [NoLoc EXCEPT !.op = "wait", !.np = c, !.pd = pgdir[c]])
        /\ kstack' = [kstack EXCEPT ![c] = NoPage]
        /\ pgdir'  = [pgdir  EXCEPT ![c] = NoPage]
        /\ sz'     = [sz     EXCEPT ![c] = 0]
  BY DEF Wait
<1>3. pc \in [Procs -> Pcs] /\ loc \in [Procs -> Locs] /\ PtableType
  BY DEF TypeInv, TypeOK, LocalType
<1>4. loc[p].op = "none" /\ \A q \in Procs : loc[q].op # "wait"
  BY <1>1, LocalsOf DEF LocalsOK, OpAt, Locs, Ops, PtableFree, Reaping
<1>5. state[p] = "RUNNABLE" /\ c # p /\ pc[c] = "none" /\ loc[c].op = "none"
  BY <1>1, <1>2, <1>4, RunnableOf, IdleOf
<1>6. pgdir[c] \in Pages /\ kstack[c] \in Pages
  BY <1>2, <1>4 DEF TypeInv, Control, SlotOK
<1> DEFINE r == [NoLoc EXCEPT !.op = "wait", !.np = c, !.pd = pgdir[c]]
<1>7. r \in Locs /\ r.op = "wait" /\ r.np = c /\ r.pd \in Pages
  BY <1>6, NoLocType DEF Locs, Ops
<1>8. GotoWith(p, "freevm", r) /\ LocalsOK("freevm", r)
  BY <1>2, <1>7 DEF LocalsOK, OpAt
<1> HIDE DEF r
<1>9. KmemType' /\ panic' \in Panics
  BY <1>2, <1>6, KfreeType DEF TypeInv, TypeOK
<1>10. TablesType' /\ PtableType'
  <2>1. 0 \in 0 .. MaxSz
    BY CowAssumption
  <2> QED BY <1>1, <1>2, <1>3, <2>1, TablesSame DEF TypeInv, TypeOK, PtableType
<1>11. LocalType'
  BY <1>1, <1>7, <1>8, LocalMove DEF Pcs, TypeInv, TypeOK
<1>12. Control'
  <2>1. /\ pc'[p] = "freevm" /\ loc'[p] = r /\ state' = state
        /\ \A q \in Procs : q # p => pc'[q] = pc[q] /\ loc'[q] = loc[q]
        /\ \A q \in Procs : q # c => pgdir'[q] = pgdir[q] /\ kstack'[q] = kstack[q]
    BY <1>1, <1>2, <1>3, <1>8 DEF GotoWith, PtableType
  <2> SUFFICES ASSUME NEW q \in Procs
               PROVE  (LocalsOK(pc[q], loc[q]) /\ SlotOK(q) /\ ForksOK(q) /\ WaitsOK(q))'
    BY DEF Control
  <2>2. LocalsOK(pc[q], loc[q])'
    BY <1>8, <2>1 DEF TypeInv, Control, LocalsOK
  <2>3. SlotOK(q)'
    <3>1. CASE q = c
      BY <1>2, <1>5, <1>7, <2>1, <3>1 DEF SlotOK
    <3>2. CASE q # c
      BY <1>1, <1>4, <1>5, <1>7, <2>1, <3>2 DEF TypeInv, Control, SlotOK
    <3> QED BY <3>1, <3>2
  <2>4. ForksOK(q)'
    <3>1. loc[q].op = "fork" => loc[q].np # c /\ loc[q].np # p
      BY <1>2, <1>5, ForkOf
    <3> QED BY <1>7, <2>1, <3>1, ForkOf DEF ForksOK
  <2>5. WaitsOK(q)'
    BY <1>2, <1>4, <1>5, <1>7, <2>1 DEF WaitsOK
  <2> QED BY <2>2, <2>3, <2>4, <2>5
<1> QED BY <1>9, <1>10, <1>11, <1>12 DEF TypeInv, TypeOK

-----------------------------------------------------------------------------
(* Every step, by the group of system calls it belongs to.                   *)
LEMMA StepInv ==
    ASSUME TypeInv, NEW p \in Procs, Step(p)
    PROVE  RunInv'
<1>1. CASE ForkStep(p)
  BY <1>1, ForkInv, AllocKstackInv, CopyPageInv, CopyIncrInv, CopyDoneInv, ForkCommitInv,
     ForkUndoInv DEF ForkStep, TypeInv, RunInv
<1>2. CASE BuildStep(p)
  BY <1>2, SetupDirInv, SetupKptInv, AllocPageInv, MapPageInv, AllocFailedInv, InitDoneInv
     DEF BuildStep, TypeInv, RunInv
<1>3. CASE SbrkStep(p)
  BY <1>3, GrowInv, GrowDoneInv, ShrinkInv, DeallocPageInv, ShrinkDoneInv
     DEF SbrkStep, TypeInv, RunInv
<1>4. CASE ExecStep(p)
  BY <1>4, ExecInv, ExecCommitInv, ExecBadInv DEF ExecStep, TypeInv, RunInv
<1>5. CASE FreeStep(p)
  BY <1>5, FreePageInv, FreeTableInv, FreeDirInv DEF FreeStep, TypeInv, RunInv
<1>6. CASE LifeStep(p)
  BY <1>6, ExitInv, WaitInv DEF LifeStep, TypeInv, RunInv
<1>7. CASE UserStep(p)
  BY <1>7, StoreInv, FaultInv DEF UserStep, TypeInv, RunInv
<1>8. CASE CowStep(p)
  BY <1>8, CowOwnInv, CowAllocInv, CowMoveInv, CowDecrInv DEF CowStep, TypeInv, RunInv
<1> QED BY <1>1, <1>2, <1>3, <1>4, <1>5, <1>6, <1>7, <1>8 DEF Step

LEMMA RunInvariant == Spec => []RunInv
<1>1. Init => RunInv
  BY InitTypeInv DEF TypeInv, RunInv
<1>2. RunInv /\ [Next]_vars => RunInv'
  <2> SUFFICES ASSUME RunInv, [Next]_vars
               PROVE  RunInv'
    OBVIOUS
  <2>1. CASE UNCHANGED vars
    BY <2>1, KmemSame, TablesSame, PtableSame, LocalSame, ControlSame
       DEF RunInv, TypeOK, vars, ptable
  <2>2. CASE panic = "none" /\ \E p \in Procs : Step(p)
    BY <2>2, StepInv DEF RunInv, TypeInv
  <2> QED BY <2>1, <2>2 DEF Next, Halted
<1> QED BY <1>1, <1>2, PTL DEF Spec

(* The kernel's variables keep their types whatever the number of pages,     *)
(* processes and processors: user sizes and copyuvm's and allocuvm's indices *)
(* never pass KERNBASE, and kfree, mappages and the CoW handler are only     *)
(* ever given physical pages.                                                *)
THEOREM TypeCorrect == Spec => []TypeOK
<1>1. RunInv => TypeOK
  BY DEF RunInv
<1> QED BY <1>1, RunInvariant, PTL

(* While the machine runs, every process is at a place of the kernel that    *)
(* its system call passes through and its locals fit that place; a process   *)
(* that executes has a page directory and a stack; a slot fork builds is     *)
(* built by one fork only; one wait() reaps at a time.                       *)
THEOREM ControlCorrect == Spec => [](panic = "none" => Control)
<1>1. RunInv => (panic = "none" => Control)
  BY DEF RunInv
<1> QED BY <1>1, RunInvariant, PTL

-----------------------------------------------------------------------------
(* Reference counts and the free list.                                        *)

(* The uses of a page, by the kind of place that holds it.                   *)
MapN(g)   == Cardinality(Mappings(g))
UtabN(g)  == Cardinality({d \in Pages : utab[d] = g})
KtabN(g)  == Cardinality({d \in Pages : g \in ktab[d]})
DirN(g)   == Cardinality({p \in Procs : pgdir[p] = g})
StackN(g) == Cardinality({p \in Procs : kstack[p] = g})
PdN(g)    == Cardinality({p \in Procs : loc[p].pd = g})
PgN(g)    == Cardinality({p \in Procs : loc[p].pg = g})
PaN(g)    == Cardinality({p \in Procs : pc[p] = "decr" /\ loc[p].pa = g})

TabN(g)   == MapN(g) + UtabN(g) + KtabN(g)
SlotN(g)  == DirN(g) + StackN(g)
HandN(g)  == PdN(g) + PgN(g) + PaN(g)

One(g, a) == IF g = a THEN 1 ELSE 0

(* The page p has mapped in a child and not counted yet.                     *)
Pend(p) == IF pc[p] = "incr" THEN pt[pgdir[p]][loc[p].i].pa ELSE NoPage

-----------------------------------------------------------------------------
(* The inductive invariant. *)

Counts == \A g \in Pages : pgrefc[g] + Uncounted(g) = Uses(g)

(* The free list holds fpcnt pages, and their counts are 0.                  *)
FreeZero == fpcnt = Cardinality(free) /\ \A g \in free : pgrefc[g] = 0

DirHeld(d) == \E p \in Procs : pgdir[p] = d \/ loc[p].pd = d

(* A page directory has one owner: a process, or a system call at work on it. *)
OneOwner ==
    /\ \A p, q \in Procs : pgdir[p] \in Pages /\ pgdir[p] = pgdir[q] => p = q
    /\ \A p, q \in Procs : loc[p].pd \in Pages /\ loc[p].pd = loc[q].pd => p = q
    /\ \A p, q \in Procs : pgdir[p] \in Pages => pgdir[p] # loc[q].pd

(* A page that is no directory has no tables.                                *)
Clear ==
    \A d \in Pages : ~DirHeld(d) =>
        (\A v \in VA : pt[d][v].pa = NoPage) /\ utab[d] = NoPage /\ ktab[d] = {}

(* What a process in the kernel holds, and what it has yet to map.           *)
EmptyFrom(d, i) == \A v \in VA : v >= i => pt[d][v].pa = NoPage

PageHeld(p) == loc[p].pg # NoPage => pc[p] \in {"map", "move", "dealloc"} /\ loc[p].op # "shrink"
SlotGiven(p) ==
    /\ state[p] \in {"UNUSED", "EMBRYO"} => pgdir[p] = NoPage
    /\ state[p] = "UNUSED" => kstack[p] = NoPage
StackDue(p) ==
    /\ pc[p] = "kstack" => kstack[loc[p].np] = NoPage
    /\ loc[p].op = "wait" => kstack[loc[p].np] = NoPage /\ pgdir[loc[p].np] = NoPage
CopyDue(p) ==
    /\ pc[p] \in {"kpt", "copy"} /\ loc[p].op = "fork" => EmptyFrom(loc[p].pd, loc[p].i)
    /\ pc[p] = "incr" =>
        /\ loc[p].pd \in Pages /\ pgdir[p] \in Pages /\ loc[p].i \in VA
        /\ pt[pgdir[p]][loc[p].i].pa # NoPage
        /\ pt[loc[p].pd][loc[p].i].pa = pt[pgdir[p]][loc[p].i].pa
        /\ EmptyFrom(loc[p].pd, loc[p].i + 1)
FaultDue(p) == pc[p] \in {"dup", "move"} => pt[pgdir[p]][loc[p].va].pa = loc[p].pa

HandOK(p) == PageHeld(p) /\ SlotGiven(p) /\ StackDue(p) /\ CopyDue(p) /\ FaultDue(p)
Hands == \A p \in Procs : HandOK(p)

CountInv == FreeZero /\ Counts /\ OneOwner /\ Clear /\ Hands

-----------------------------------------------------------------------------
(* Counting. *)

LEMMA DiffersAt ==
    ASSUME NEW S, IsFiniteSet(S), NEW A \in SUBSET S, NEW B \in SUBSET S, NEW x,
           \A s \in S : s # x => (s \in A <=> s \in B)
    PROVE  Cardinality(B) = Cardinality(A) + (IF x \in B THEN 1 ELSE 0)
                                           - (IF x \in A THEN 1 ELSE 0)
<1>1. IsFiniteSet(A) /\ IsFiniteSet(B)
  BY FS_Subset
<1>2. Cardinality(A) \in Nat /\ Cardinality(B) \in Nat
  BY <1>1, FS_CardinalityType
<1> DEFINE n == Cardinality(A \ {x})
<1>3. n = Cardinality(B \ {x})
  <2>1. A \ {x} = B \ {x}
    OBVIOUS
  <2> QED BY <2>1
<1>4. n = IF x \in A THEN Cardinality(A) - 1 ELSE Cardinality(A)
  BY <1>1, FS_RemoveElement
<1>5. n = IF x \in B THEN Cardinality(B) - 1 ELSE Cardinality(B)
  BY <1>1, <1>3, FS_RemoveElement
<1> HIDE DEF n
<1> QED BY <1>2, <1>3, <1>4, <1>5

(* How many places hold g, when the place x that held a is given b.          *)
LEMMA Recount ==
    ASSUME NEW S, IsFiniteSet(S), NEW A \in SUBSET S, NEW B \in SUBSET S, NEW x,
           \A s \in S : s # x => (s \in A <=> s \in B),
           NEW g, NEW a, NEW b, x \in A <=> g = a, x \in B <=> g = b
    PROVE  Cardinality(B) = Cardinality(A) + One(g, b) - One(g, a)
<1>1. Cardinality(B) = Cardinality(A) + (IF x \in B THEN 1 ELSE 0) - (IF x \in A THEN 1 ELSE 0)
  BY DiffersAt
<1> QED BY <1>1 DEF One

LEMMA Finite == IsFiniteSet(Pages) /\ IsFiniteSet(Procs)
BY CowAssumption

LEMMA VAFinite == IsFiniteSet(VA) /\ IsFiniteSet(Pages \X VA)
<1>1. IsFiniteSet(VA)
  <2>1. 0 \in Int /\ MaxSz - 1 \in Int
    BY CowAssumption
  <2> QED BY <2>1, FS_Interval DEF VA
<1> QED BY <1>1, FS_Product, CowAssumption

LEMMA PartsNat ==
    ASSUME NEW g
    PROVE  /\ MapN(g) \in Nat /\ UtabN(g) \in Nat /\ KtabN(g) \in Nat
           /\ DirN(g) \in Nat /\ StackN(g) \in Nat
           /\ PdN(g) \in Nat /\ PgN(g) \in Nat /\ PaN(g) \in Nat /\ Uncounted(g) \in Nat
<1>1. \A S : S \subseteq Procs => Cardinality(S) \in Nat
  BY CowAssumption, FS_Subset, FS_CardinalityType
<1>2. \A S : S \subseteq Pages => Cardinality(S) \in Nat
  BY CowAssumption, FS_Subset, FS_CardinalityType
<1>3. \A S : S \subseteq Pages \X VA => Cardinality(S) \in Nat
  BY VAFinite, FS_Subset, FS_CardinalityType
<1>4. MapN(g) \in Nat
  BY <1>3 DEF MapN, Mappings
<1>5. UtabN(g) \in Nat /\ KtabN(g) \in Nat
  BY <1>2 DEF UtabN, KtabN
<1>6. DirN(g) \in Nat /\ StackN(g) \in Nat
  BY <1>1 DEF DirN, StackN
<1>7. PdN(g) \in Nat /\ PgN(g) \in Nat
  BY <1>1 DEF PdN, PgN
<1>8. PaN(g) \in Nat /\ Uncounted(g) \in Nat
  BY <1>1 DEF PaN, Uncounted
<1> QED BY <1>4, <1>5, <1>6, <1>7, <1>8

LEMMA UsesParts ==
    ASSUME NEW g
    PROVE  Uses(g) = TabN(g) + SlotN(g) + HandN(g)
<1>1. Uses(g) = MapN(g) + UtabN(g) + KtabN(g) + DirN(g) + StackN(g) + PdN(g) + PgN(g) + PaN(g)
  BY DEF Uses, MapN, UtabN, KtabN, DirN, StackN, PdN, PgN, PaN
<1> QED BY <1>1, PartsNat DEF TabN, SlotN, HandN

(* The same of the state after a step.                                       *)
LEMMA PartsNext ==
    ASSUME NEW CONSTANT g
    PROVE  /\ TabN(g) \in Nat /\ SlotN(g) \in Nat /\ HandN(g) \in Nat /\ Uncounted(g) \in Nat
           /\ Uses(g) = TabN(g) + SlotN(g) + HandN(g)
           /\ TabN(g)' \in Nat /\ SlotN(g)' \in Nat /\ HandN(g)' \in Nat /\ Uncounted(g)' \in Nat
           /\ Uses(g)' = TabN(g)' + SlotN(g)' + HandN(g)'
<1>1. /\ TabN(g) \in Nat /\ SlotN(g) \in Nat /\ HandN(g) \in Nat /\ Uncounted(g) \in Nat
      /\ Uses(g) = TabN(g) + SlotN(g) + HandN(g)
  BY PartsNat, UsesParts DEF TabN, SlotN, HandN
<1>2. (/\ TabN(g) \in Nat /\ SlotN(g) \in Nat /\ HandN(g) \in Nat /\ Uncounted(g) \in Nat
       /\ Uses(g) = TabN(g) + SlotN(g) + HandN(g))'
  BY <1>1, PTL
<1> QED BY <1>1, <1>2

-----------------------------------------------------------------------------
(* How a step changes the uses of a page. *)

(* A step that gives one entry of the page tables another page.              *)
PtMoves(d, v, a) ==
    \A e \in Pages, w \in VA :
        pt'[e][w].pa = IF e = d /\ w = v THEN a ELSE pt[e][w].pa

PtSame == \A e \in Pages, w \in VA : pt'[e][w].pa = pt[e][w].pa

LEMMA MapSame ==
    ASSUME PtSame, NEW g
    PROVE  MapN(g)' = MapN(g)
<1>1. Mappings(g)' = Mappings(g)
  BY DEF PtSame, Mappings
<1> QED BY <1>1 DEF MapN

LEMMA MapMoves ==
    ASSUME NEW d \in Pages, NEW v \in VA, NEW a, PtMoves(d, v, a), NEW g
    PROVE  MapN(g)' = MapN(g) + One(g, a) - One(g, pt[d][v].pa)
<1> DEFINE A == Mappings(g)
           B == Mappings(g)'
<1>1. A \in SUBSET (Pages \X VA) /\ B \in SUBSET (Pages \X VA)
  BY DEF Mappings
<1>2. \A m \in Pages \X VA : m # <<d, v>> => (m \in A <=> m \in B)
  BY DEF Mappings, PtMoves
<1>3. (<<d, v>> \in A <=> g = pt[d][v].pa) /\ (<<d, v>> \in B <=> g = a)
  BY DEF Mappings, PtMoves
<1> HIDE DEF A, B
<1>4. Cardinality(B) = Cardinality(A) + One(g, a) - One(g, pt[d][v].pa)
  BY <1>1, <1>2, <1>3, VAFinite, Recount
<1> QED BY <1>4 DEF A, B, MapN

LEMMA UtabMoves ==
    ASSUME NEW d \in Pages, NEW a, TablesType, utab' = [utab EXCEPT ![d] = a], NEW g
    PROVE  UtabN(g)' = UtabN(g) + One(g, a) - One(g, utab[d])
<1> DEFINE A == {e \in Pages : utab[e] = g}
           B == {e \in Pages : utab'[e] = g}
<1>1. utab'[d] = a /\ \A e \in Pages : e # d => utab'[e] = utab[e]
  BY DEF TablesType
<1>2. A \in SUBSET Pages /\ B \in SUBSET Pages /\ \A e \in Pages : e # d => (e \in A <=> e \in B)
  BY <1>1
<1>3. (d \in A <=> g = utab[d]) /\ (d \in B <=> g = a)
  BY <1>1
<1> HIDE DEF A, B
<1>4. Cardinality(B) = Cardinality(A) + One(g, a) - One(g, utab[d])
  BY <1>2, <1>3, Finite, Recount
<1> QED BY <1>4 DEF A, B, UtabN

LEMMA KtabAdds ==
    ASSUME NEW d \in Pages, NEW t \in Pages, t \notin ktab[d], TablesType,
           ktab' = [ktab EXCEPT ![d] = @ \union {t}], NEW g
    PROVE  KtabN(g)' = KtabN(g) + One(g, t)
<1> DEFINE A == {e \in Pages : g \in ktab[e]}
           B == {e \in Pages : g \in ktab'[e]}
<1>1. A \in SUBSET Pages /\ B \in SUBSET Pages /\ \A e \in Pages : e # d => (e \in A <=> e \in B)
  BY DEF TablesType
<1>2. (d \in B <=> d \in A \/ g = t) /\ (g = t => d \notin A)
  BY DEF TablesType
<1>3. KtabN(g) = Cardinality(A) /\ KtabN(g)' = Cardinality(B)
  BY DEF KtabN
<1> HIDE DEF A, B
<1>4. Cardinality(B) = Cardinality(A) + (IF d \in B THEN 1 ELSE 0) - (IF d \in A THEN 1 ELSE 0)
  BY <1>1, Finite, DiffersAt
<1>5. KtabN(g) \in Nat
  BY PartsNat
<1> QED BY <1>2, <1>3, <1>4, <1>5 DEF One

LEMMA KtabDrops ==
    ASSUME NEW d \in Pages, NEW t \in ktab[d], TablesType,
           ktab' = [ktab EXCEPT ![d] = @ \ {t}], NEW g
    PROVE  KtabN(g)' = KtabN(g) - One(g, t)
<1> DEFINE A == {e \in Pages : g \in ktab[e]}
           B == {e \in Pages : g \in ktab'[e]}
<1>1. A \in SUBSET Pages /\ B \in SUBSET Pages /\ \A e \in Pages : e # d => (e \in A <=> e \in B)
  BY DEF TablesType
<1>2. (d \in B <=> d \in A /\ g # t) /\ (g = t => d \in A)
  BY DEF TablesType
<1>3. KtabN(g) = Cardinality(A) /\ KtabN(g)' = Cardinality(B)
  BY DEF KtabN
<1> HIDE DEF A, B
<1>4. Cardinality(B) = Cardinality(A) + (IF d \in B THEN 1 ELSE 0) - (IF d \in A THEN 1 ELSE 0)
  BY <1>1, Finite, DiffersAt
<1>5. KtabN(g) \in Nat
  BY PartsNat
<1> QED BY <1>2, <1>3, <1>4, <1>5 DEF One

LEMMA DirMoves ==
    ASSUME NEW p \in Procs, NEW a, PtableType, pgdir' = [pgdir EXCEPT ![p] = a], NEW g
    PROVE  DirN(g)' = DirN(g) + One(g, a) - One(g, pgdir[p])
<1> DEFINE A == {e \in Procs : pgdir[e] = g}
           B == {e \in Procs : pgdir'[e] = g}
<1>1. pgdir'[p] = a /\ \A e \in Procs : e # p => pgdir'[e] = pgdir[e]
  BY DEF PtableType
<1>2. A \in SUBSET Procs /\ B \in SUBSET Procs /\ \A e \in Procs : e # p => (e \in A <=> e \in B)
  BY <1>1
<1>3. (p \in A <=> g = pgdir[p]) /\ (p \in B <=> g = a)
  BY <1>1
<1> HIDE DEF A, B
<1>4. Cardinality(B) = Cardinality(A) + One(g, a) - One(g, pgdir[p])
  BY <1>2, <1>3, Finite, Recount
<1> QED BY <1>4 DEF A, B, DirN

LEMMA StackMoves ==
    ASSUME NEW p \in Procs, NEW a, PtableType, kstack' = [kstack EXCEPT ![p] = a], NEW g
    PROVE  StackN(g)' = StackN(g) + One(g, a) - One(g, kstack[p])
<1> DEFINE A == {e \in Procs : kstack[e] = g}
           B == {e \in Procs : kstack'[e] = g}
<1>1. kstack'[p] = a /\ \A e \in Procs : e # p => kstack'[e] = kstack[e]
  BY DEF PtableType
<1>2. A \in SUBSET Procs /\ B \in SUBSET Procs /\ \A e \in Procs : e # p => (e \in A <=> e \in B)
  BY <1>1
<1>3. (p \in A <=> g = kstack[p]) /\ (p \in B <=> g = a)
  BY <1>1
<1> HIDE DEF A, B
<1>4. Cardinality(B) = Cardinality(A) + One(g, a) - One(g, kstack[p])
  BY <1>2, <1>3, Finite, Recount
<1> QED BY <1>4 DEF A, B, StackN

LEMMA TabSame ==
    ASSUME UNCHANGED tables, NEW g
    PROVE  TabN(g)' = TabN(g)
BY DEF tables, TabN, MapN, Mappings, UtabN, KtabN

LEMMA SlotSame ==
    ASSUME UNCHANGED <<pgdir, kstack>>, NEW g
    PROVE  SlotN(g)' = SlotN(g)
BY DEF SlotN, DirN, StackN

LEMMA HandSame ==
    ASSUME UNCHANGED <<pc, loc>>, NEW g
    PROVE  HandN(g)' = HandN(g)
BY DEF HandN, PdN, PgN, PaN

(* A process that moves in the kernel: what it had in hand, what it has then. *)
Gives(l, r) == IF l = "decr" THEN r.pa ELSE NoPage
InHand(g, l, r) == One(g, r.pd) + One(g, r.pg) + One(g, Gives(l, r))

(* The step leaves what the others hold, whether it moves them or not.       *)
HandTurn(p, l, r) ==
    /\ pc'[p] = l /\ loc'[p] = r
    /\ \A q \in Procs : q # p => loc'[q] = loc[q] /\ (pc'[q] = "decr" <=> pc[q] = "decr")

LEMMA HandTurns ==
    ASSUME NEW p \in Procs, NEW l, NEW r, HandTurn(p, l, r), NEW g \in Pages
    PROVE  HandN(g)' = HandN(g) + InHand(g, l, r) - InHand(g, pc[p], loc[p])
<1>1. /\ pc'[p] = l /\ loc'[p] = r
      /\ \A q \in Procs : q # p => loc'[q] = loc[q] /\ (pc'[q] = "decr" <=> pc[q] = "decr")
  BY DEF HandTurn
<1>2. PdN(g)' = PdN(g) + One(g, r.pd) - One(g, loc[p].pd)
  <2> DEFINE A == {q \in Procs : loc[q].pd = g}
             B == {q \in Procs : loc'[q].pd = g}
  <2>1. A \in SUBSET Procs /\ B \in SUBSET Procs /\ \A q \in Procs : q # p => (q \in A <=> q \in B)
    BY <1>1
  <2>2. (p \in A <=> g = loc[p].pd) /\ (p \in B <=> g = r.pd)
    BY <1>1
  <2> HIDE DEF A, B
  <2>3. Cardinality(B) = Cardinality(A) + One(g, r.pd) - One(g, loc[p].pd)
    BY <2>1, <2>2, Finite, Recount
  <2> QED BY <2>3 DEF A, B, PdN
<1>3. PgN(g)' = PgN(g) + One(g, r.pg) - One(g, loc[p].pg)
  <2> DEFINE A == {q \in Procs : loc[q].pg = g}
             B == {q \in Procs : loc'[q].pg = g}
  <2>1. A \in SUBSET Procs /\ B \in SUBSET Procs /\ \A q \in Procs : q # p => (q \in A <=> q \in B)
    BY <1>1
  <2>2. (p \in A <=> g = loc[p].pg) /\ (p \in B <=> g = r.pg)
    BY <1>1
  <2> HIDE DEF A, B
  <2>3. Cardinality(B) = Cardinality(A) + One(g, r.pg) - One(g, loc[p].pg)
    BY <2>1, <2>2, Finite, Recount
  <2> QED BY <2>3 DEF A, B, PgN
<1>4. PaN(g)' = PaN(g) + One(g, Gives(l, r)) - One(g, Gives(pc[p], loc[p]))
  <2> DEFINE A == {q \in Procs : pc[q] = "decr" /\ loc[q].pa = g}
             B == {q \in Procs : pc'[q] = "decr" /\ loc'[q].pa = g}
  <2>1. A \in SUBSET Procs /\ B \in SUBSET Procs /\ \A q \in Procs : q # p => (q \in A <=> q \in B)
    BY <1>1
  <2>2. (p \in A <=> g = Gives(pc[p], loc[p])) /\ (p \in B <=> g = Gives(l, r))
    BY <1>1, CowAssumption DEF Gives
  <2> HIDE DEF A, B
  <2>3. Cardinality(B) = Cardinality(A) + One(g, Gives(l, r)) - One(g, Gives(pc[p], loc[p]))
    BY <2>1, <2>2, Finite, Recount
  <2> QED BY <2>3 DEF A, B, PaN
<1>5. PdN(g) \in Nat /\ PgN(g) \in Nat /\ PaN(g) \in Nat
  BY PartsNat
<1>6. \A a : One(g, a) \in Nat
  BY DEF One
<1> QED BY <1>2, <1>3, <1>4, <1>5, <1>6 DEF HandN, InHand

LEMMA HandMoves ==
    ASSUME LocalType, NEW p \in Procs, NEW l, NEW r, GotoWith(p, l, r), NEW g \in Pages
    PROVE  HandN(g)' = HandN(g) + InHand(g, l, r) - InHand(g, pc[p], loc[p])
<1>1. HandTurn(p, l, r)
  BY DEF LocalType, GotoWith, HandTurn
<1> QED BY <1>1, HandTurns

(* A step after which the other processes have the same pages to count.      *)
OthersPend(p) == \A q \in Procs : q # p => Pend(q)' = Pend(q)

LEMMA PendMoves ==
    ASSUME NEW p \in Procs, OthersPend(p), NEW g \in Pages
    PROVE  Uncounted(g)' = Uncounted(g) + One(g, Pend(p)') - One(g, Pend(p))
<1> DEFINE A == {q \in Procs : pc[q] = "incr" /\ pt[pgdir[q]][loc[q].i].pa = g}
           B == {q \in Procs : (pc[q] = "incr" /\ pt[pgdir[q]][loc[q].i].pa = g)'}
<1>1. \A q \in Procs : (q \in A <=> g = Pend(q)) /\ (q \in B <=> g = Pend(q)')
  BY CowAssumption DEF Pend
<1>2. A \in SUBSET Procs /\ B \in SUBSET Procs
  OBVIOUS
<1>3. Uncounted(g) = Cardinality(A) /\ Uncounted(g)' = Cardinality(B)
  BY DEF Uncounted
<1> HIDE DEF A, B
<1>4. \A q \in Procs : q # p => (q \in A <=> q \in B)
  BY <1>1 DEF OthersPend
<1>5. Cardinality(B) = Cardinality(A) + One(g, Pend(p)') - One(g, Pend(p))
  BY <1>1, <1>2, <1>4, Finite, Recount
<1> QED BY <1>3, <1>5

-----------------------------------------------------------------------------
(* What the counts say. *)

(* A page that copyuvm has yet to count is mapped by the parent, too.        *)
LEMMA Bound ==
    ASSUME OneOwner, Hands, NEW g \in Pages, Uncounted(g) # 0
    PROVE  Uncounted(g) + 1 <= MapN(g)
<1> DEFINE U == {p \in Procs : pc[p] = "incr" /\ pt[pgdir[p]][loc[p].i].pa = g}
           M == Mappings(g)
           f == [p \in U |-> <<loc[p].pd, loc[p].i>>]
<1>1. IsFiniteSet(U) /\ IsFiniteSet(M)
  BY Finite, VAFinite, FS_Subset DEF Mappings
<1>2. Uncounted(g) = Cardinality(U) /\ MapN(g) = Cardinality(M)
  BY DEF Uncounted, MapN
<1>3. PICK o \in U : TRUE
  BY <1>1, <1>2, FS_EmptySet
<1> DEFINE m == <<pgdir[o], loc[o].i>>
<1>4. \A p \in U : /\ loc[p].pd \in Pages /\ pgdir[p] \in Pages /\ loc[p].i \in VA
                   /\ pt[loc[p].pd][loc[p].i].pa = g
  BY DEF Hands, HandOK, CopyDue
<1>5. m \in M
  BY <1>3, <1>4 DEF Mappings
<1>6. \A p \in U : f[p] \in M /\ f[p] # m
  <2> SUFFICES ASSUME NEW p \in U
               PROVE  f[p] \in M /\ f[p] # m
    OBVIOUS
  <2>1. f[p] = <<loc[p].pd, loc[p].i>> /\ o \in Procs /\ p \in Procs
    BY <1>3
  <2>2. pgdir[o] # loc[p].pd
    BY <1>3, <1>4, <2>1 DEF OneOwner
  <2>3. <<loc[p].pd, loc[p].i>> \in M
    BY <1>4 DEF Mappings
  <2> HIDE DEF f, M, U
  <2> QED BY <2>1, <2>2, <2>3
<1>7. \A p, q \in U : f[p] = f[q] => p = q
  BY <1>4 DEF OneOwner
<1>8. f \in Injection(U, M \ {m})
  <2> HIDE DEF U, M, m
  <2>1. f \in [U -> M \ {m}]
    BY <1>6
  <2> HIDE DEF f
  <2> QED BY <1>7, <2>1 DEF Injection, IsInjective
<1> HIDE DEF U, M, f, m
<1>9. IsFiniteSet(M \ {m}) /\ Cardinality(M \ {m}) = Cardinality(M) - 1
  BY <1>1, <1>5, FS_RemoveElement
<1>10. Cardinality(U) <= Cardinality(M \ {m})
  BY <1>8, <1>9, FS_Injection
<1>11. Cardinality(U) \in Nat /\ Cardinality(M) \in Nat
  BY <1>1, FS_CardinalityType
<1> QED BY <1>2, <1>9, <1>10, <1>11

(* So a count is 0 exactly when the page has no use, and never negative.     *)
LEMMA ZeroCount ==
    ASSUME KmemType, CountInv, NEW g \in Pages
    PROVE  pgrefc[g] \in Nat /\ (pgrefc[g] = 0 <=> Uses(g) = 0)
<1>1. pgrefc[g] + Uncounted(g) = Uses(g) /\ pgrefc[g] \in Int
  BY DEF CountInv, Counts, KmemType
<1>2. Uncounted(g) # 0 => Uncounted(g) + 1 <= MapN(g)
  BY Bound DEF CountInv
<1>3. Uses(g) = MapN(g) + UtabN(g) + KtabN(g) + SlotN(g) + HandN(g)
  BY UsesParts, PartsNat DEF TabN, SlotN, HandN
<1>4. MapN(g) \in Nat /\ UtabN(g) \in Nat /\ KtabN(g) \in Nat /\ SlotN(g) \in Nat
      /\ HandN(g) \in Nat /\ Uncounted(g) \in Nat
  BY PartsNat DEF SlotN, HandN
<1> QED BY <1>1, <1>2, <1>3, <1>4

(* The places that hold a page, without counting them.                       *)
InTables(g) ==
    \/ \E d \in Pages, v \in VA : pt[d][v].pa = g
    \/ \E d \in Pages : utab[d] = g \/ g \in ktab[d]
InSlots(g) == \E p \in Procs : pgdir[p] = g \/ kstack[p] = g
InHands(g) ==
    \E p \in Procs : loc[p].pd = g \/ loc[p].pg = g \/ (pc[p] = "decr" /\ loc[p].pa = g)
InUse(g) == InTables(g) \/ InSlots(g) \/ InHands(g)

LEMMA NoneCounted ==
    ASSUME NEW S, IsFiniteSet(S), NEW A \in SUBSET S
    PROVE  Cardinality(A) = 0 <=> A = {}
<1>1. IsFiniteSet(A)
  BY FS_Subset
<1> QED BY <1>1, FS_EmptySet

LEMMA UsesInUse ==
    ASSUME NEW g
    PROVE  Uses(g) # 0 <=> InUse(g)
<1>1. MapN(g) = 0 <=> ~ \E d \in Pages, v \in VA : pt[d][v].pa = g
  <2>1. MapN(g) = 0 <=> Mappings(g) = {}
    BY VAFinite, NoneCounted DEF MapN, Mappings
  <2>2. ASSUME NEW d \in Pages, NEW v \in VA, pt[d][v].pa = g
        PROVE  <<d, v>> \in Mappings(g)
    BY <2>2 DEF Mappings
  <2>3. \A m \in Mappings(g) : m[1] \in Pages /\ m[2] \in VA /\ pt[m[1]][m[2]].pa = g
    BY DEF Mappings
  <2> QED BY <2>1, <2>2, <2>3
<1>2. UtabN(g) = 0 <=> {d \in Pages : utab[d] = g} = {}
  BY Finite, NoneCounted DEF UtabN
<1>3. KtabN(g) = 0 <=> {d \in Pages : g \in ktab[d]} = {}
  BY Finite, NoneCounted DEF KtabN
<1>4. DirN(g) = 0 <=> {p \in Procs : pgdir[p] = g} = {}
  BY Finite, NoneCounted DEF DirN
<1>5. StackN(g) = 0 <=> {p \in Procs : kstack[p] = g} = {}
  BY Finite, NoneCounted DEF StackN
<1>6. PdN(g) = 0 <=> {p \in Procs : loc[p].pd = g} = {}
  BY Finite, NoneCounted DEF PdN
<1>7. PgN(g) = 0 <=> {p \in Procs : loc[p].pg = g} = {}
  BY Finite, NoneCounted DEF PgN
<1>8. PaN(g) = 0 <=> {p \in Procs : pc[p] = "decr" /\ loc[p].pa = g} = {}
  BY Finite, NoneCounted DEF PaN
<1>9. TabN(g) = 0 <=> ~InTables(g)
  <2>1. TabN(g) = 0 <=> MapN(g) = 0 /\ UtabN(g) = 0 /\ KtabN(g) = 0
    BY PartsNat DEF TabN
  <2> QED BY <1>1, <1>2, <1>3, <2>1 DEF InTables
<1>10. SlotN(g) = 0 <=> ~InSlots(g)
  <2>1. SlotN(g) = 0 <=> DirN(g) = 0 /\ StackN(g) = 0
    BY PartsNat DEF SlotN
  <2> QED BY <1>4, <1>5, <2>1 DEF InSlots
<1>11. HandN(g) = 0 <=> ~InHands(g)
  <2>1. HandN(g) = 0 <=> PdN(g) = 0 /\ PgN(g) = 0 /\ PaN(g) = 0
    BY PartsNat DEF HandN
  <2> QED BY <1>6, <1>7, <1>8, <2>1 DEF InHands
<1>12. Uses(g) = 0 <=> TabN(g) = 0 /\ SlotN(g) = 0 /\ HandN(g) = 0
  <2>1. TabN(g) \in Nat /\ SlotN(g) \in Nat /\ HandN(g) \in Nat
    BY PartsNat DEF TabN, SlotN, HandN
  <2> QED BY <2>1, UsesParts
<1> QED BY <1>9, <1>10, <1>11, <1>12 DEF InUse

LEMMA CountOf ==
    ASSUME TypeInv, CountInv, NEW g \in Pages
    PROVE  /\ pgrefc[g] \in Nat /\ (pgrefc[g] # 0 <=> InUse(g))
           /\ g \in free => pgrefc[g] = 0
<1>1. pgrefc[g] \in Nat /\ (pgrefc[g] = 0 <=> Uses(g) = 0)
  BY ZeroCount DEF TypeInv, TypeOK
<1>2. g \in free => pgrefc[g] = 0
  BY DEF CountInv, FreeZero
<1> QED BY <1>1, <1>2, UsesInUse

-----------------------------------------------------------------------------
(* kalloc, kfree and the two counters. *)

LEMMA KallocCounts ==
    ASSUME TypeInv, CountInv, NEW g \in Pages, Kalloc(g)
    PROVE  /\ ~InUse(g) /\ FreeZero'
           /\ \A h \in Pages : pgrefc'[h] = pgrefc[h] + One(h, g)
<1>1. /\ free \in SUBSET Pages /\ fpcnt \in Int /\ pgrefc \in [Pages -> Int]
      /\ fpcnt = Cardinality(free) /\ \A h \in free : pgrefc[h] = 0
  BY DEF TypeInv, TypeOK, KmemType, CountInv, FreeZero
<1>2. g \in free
  BY <1>1, CowAssumption DEF Kalloc
<1>3. pgrefc[g] = 0 /\ ~InUse(g)
  BY <1>2, CountOf
<1>4. /\ free' = free \ {g} /\ fpcnt' = fpcnt - 1 /\ pgrefc'[g] = 1
      /\ \A h \in Pages : h # g => pgrefc'[h] = pgrefc[h]
  BY <1>1 DEF Kalloc
<1>5. Cardinality(free') = Cardinality(free) - 1
  <2>1. IsFiniteSet(free)
    BY <1>1, Finite, FS_Subset
  <2> QED BY <1>2, <1>4, <2>1, FS_RemoveElement
<1>6. FreeZero'
  BY <1>1, <1>4, <1>5 DEF FreeZero
<1>7. \A h \in Pages : pgrefc'[h] = pgrefc[h] + One(h, g)
  BY <1>1, <1>3, <1>4 DEF One
<1> QED BY <1>3, <1>6, <1>7

LEMMA KfreeCounts ==
    ASSUME TypeInv, CountInv, NEW g \in Pages, InUse(g), Kfree(g)
    PROVE  /\ FreeZero' /\ panic' = panic
           /\ \A h \in Pages : pgrefc'[h] = pgrefc[h] - One(h, g)
<1>1. /\ free \in SUBSET Pages /\ fpcnt \in Int /\ pgrefc \in [Pages -> Int]
      /\ fpcnt = Cardinality(free) /\ \A h \in free : pgrefc[h] = 0
  BY DEF TypeInv, TypeOK, KmemType, CountInv, FreeZero
<1>2. pgrefc[g] \in Nat /\ pgrefc[g] # 0
  BY CountOf
<1>3. panic' = panic
  <2>1. GetRefc(g)
    BY DEF Kfree
  <2>2. ~(pgrefc[g] < 0)
    BY <1>2
  <2> QED BY <2>1, <2>2 DEF GetRefc
<1>4. pgrefc'[g] = pgrefc[g] - 1 /\ \A h \in Pages : h # g => pgrefc'[h] = pgrefc[h]
  <2>1. pgrefc' = [pgrefc EXCEPT ![g] = IF @ = 0 THEN 0 ELSE @ - 1]
    BY DEF Kfree
  <2> QED BY <1>1, <1>2, <2>1
<1>5. \A h \in Pages : pgrefc'[h] = pgrefc[h] - One(h, g)
  BY <1>1, <1>4 DEF One
<1>6. CASE pgrefc'[g] = 0
  <2>1. free' = free \union {g} /\ fpcnt' = fpcnt + 1
    BY <1>6 DEF Kfree
  <2>2. IsFiniteSet(free) /\ g \notin free
    BY <1>1, <1>2, Finite, FS_Subset
  <2>3. Cardinality(free \union {g}) = Cardinality(free) + 1
    BY <2>2, FS_AddElement
  <2>4. \A h \in free' : pgrefc'[h] = 0
    BY <1>1, <1>4, <1>6, <2>1
  <2>5. FreeZero'
    BY <1>1, <2>1, <2>3, <2>4 DEF FreeZero
  <2> QED BY <1>3, <1>5, <2>5
<1>7. CASE pgrefc'[g] # 0
  <2>1. free' = free /\ fpcnt' = fpcnt /\ g \notin free
    BY <1>1, <1>2, <1>7 DEF Kfree
  <2>2. FreeZero'
    BY <1>1, <1>4, <2>1 DEF FreeZero
  <2> QED BY <1>3, <1>5, <2>2
<1> QED BY <1>6, <1>7

LEMMA KmemKept ==
    ASSUME CountInv, UNCHANGED kmem
    PROVE  FreeZero' /\ \A h \in Pages : pgrefc'[h] = pgrefc[h]
BY DEF kmem, CountInv, FreeZero

LEMMA IncrCounts ==
    ASSUME TypeInv, CountInv, NEW g \in Pages, InUse(g), IncrRefc(g), UNCHANGED <<free, fpcnt>>
    PROVE  FreeZero' /\ \A h \in Pages : pgrefc'[h] = pgrefc[h] + One(h, g)
<1>1. /\ pgrefc \in [Pages -> Int] /\ free \in SUBSET Pages
      /\ fpcnt = Cardinality(free) /\ \A h \in free : pgrefc[h] = 0
  BY DEF TypeInv, TypeOK, KmemType, CountInv, FreeZero
<1>2. pgrefc[g] # 0
  BY CountOf
<1>3. pgrefc'[g] = pgrefc[g] + 1 /\ \A h \in Pages : h # g => pgrefc'[h] = pgrefc[h]
  BY <1>1 DEF IncrRefc
<1>4. FreeZero'
  BY <1>1, <1>2, <1>3 DEF FreeZero
<1> QED BY <1>1, <1>3, <1>4 DEF One

LEMMA DecrCounts ==
    ASSUME TypeInv, CountInv, NEW g \in Pages, InUse(g), DecrRefc(g), UNCHANGED <<free, fpcnt>>
    PROVE  FreeZero' /\ \A h \in Pages : pgrefc'[h] = pgrefc[h] - One(h, g)
<1>1. /\ pgrefc \in [Pages -> Int] /\ free \in SUBSET Pages
      /\ fpcnt = Cardinality(free) /\ \A h \in free : pgrefc[h] = 0
  BY DEF TypeInv, TypeOK, KmemType, CountInv, FreeZero
<1>2. pgrefc[g] # 0
  BY CountOf
<1>3. pgrefc'[g] = pgrefc[g] - 1 /\ \A h \in Pages : h # g => pgrefc'[h] = pgrefc[h]
  BY <1>1 DEF DecrRefc
<1>4. FreeZero'
  BY <1>1, <1>2, <1>3 DEF FreeZero
<1> QED BY <1>1, <1>3, <1>4 DEF One

-----------------------------------------------------------------------------
(* Steps that move one process and keep its slot and directory. *)

(* The step changes the tables of no directory but the process's own.        *)
InOwn(p) ==
    \A d \in Pages : d \notin {pgdir[p], loc[p].pd} =>
        /\ utab'[d] = utab[d] /\ ktab'[d] = ktab[d]
        /\ \A v \in VA : pt'[d][v].pa = pt[d][v].pa

(* The directories another process uses are not p's.                         *)
LEMMA OwnDirs ==
    ASSUME OneOwner, NEW p \in Procs, NEW q \in Procs, q # p
    PROVE  /\ pgdir[q] \in Pages => pgdir[q] \notin {pgdir[p], loc[p].pd}
           /\ loc[q].pd \in Pages => loc[q].pd \notin {pgdir[p], loc[p].pd}
BY DEF OneOwner

LEMMA CopyOf ==
    ASSUME TypeInv, NEW q \in Procs, pc[q] \in {"kpt", "copy"}, loc[q].op = "fork"
    PROVE  loc[q].pd \in Pages
<1>1. LocalsOK(pc[q], loc[q])
  BY LocalsOf
<1> QED BY <1>1 DEF LocalsOK

LEMMA FaultOf ==
    ASSUME TypeInv, NEW q \in Procs, pc[q] \in {"own", "dup", "move", "decr"}
    PROVE  /\ loc[q].op = "fault" /\ pgdir[q] \in Pages /\ loc[q].va \in VA
           /\ loc[q].pa \in Pages /\ loc[q].pd = NoPage
<1>1. loc[q].op = "fault" /\ loc[q] \in Locs /\ LocalsOK(pc[q], loc[q])
  BY LocalsOf DEF LocalsOK, OpAt, Locs, Ops
<1>2. pgdir[q] \in Pages
  BY <1>1, RunnableOf
<1> QED BY <1>1, <1>2 DEF LocalsOK, Locs

(* Another process, whose directories and slot the step leaves alone.        *)
LEMMA OtherHands ==
    ASSUME TypeInv, NEW q \in Procs, HandOK(q), pc'[q] = pc[q], loc'[q] = loc[q],
           state'[q] = state[q], pgdir'[q] = pgdir[q], kstack'[q] = kstack[q],
           pc[q] = "kstack" => kstack'[loc[q].np] = kstack[loc[q].np],
           loc[q].op = "wait" => /\ kstack'[loc[q].np] = kstack[loc[q].np]
                                 /\ pgdir'[loc[q].np] = pgdir[loc[q].np],
           \A d \in Pages : d \in {pgdir[q], loc[q].pd} =>
               \A v \in VA : pt'[d][v].pa = pt[d][v].pa
    PROVE  HandOK(q)' /\ Pend(q)' = Pend(q)
<1>1. PageHeld(q)' /\ SlotGiven(q)'
  BY DEF HandOK, PageHeld, SlotGiven
<1>2. StackDue(q)'
  BY DEF HandOK, StackDue
<1>3. CopyDue(q)'
  <2>1. pc[q] \in {"kpt", "copy"} /\ loc[q].op = "fork" =>
          loc[q].pd \in Pages /\ EmptyFrom(loc[q].pd, loc[q].i)
    BY CopyOf DEF HandOK, CopyDue
  <2>2. pc[q] = "incr" => /\ loc[q].pd \in Pages /\ pgdir[q] \in Pages /\ loc[q].i \in VA
                          /\ pt[pgdir[q]][loc[q].i].pa # NoPage
                          /\ pt[loc[q].pd][loc[q].i].pa = pt[pgdir[q]][loc[q].i].pa
                          /\ EmptyFrom(loc[q].pd, loc[q].i + 1)
    BY DEF HandOK, CopyDue
  <2>3. (pc[q] \in {"kpt", "copy"} /\ loc[q].op = "fork" => EmptyFrom(loc[q].pd, loc[q].i))'
    BY <2>1 DEF EmptyFrom
  <2>4. (pc[q] = "incr" =>
          /\ loc[q].pd \in Pages /\ pgdir[q] \in Pages /\ loc[q].i \in VA
          /\ pt[pgdir[q]][loc[q].i].pa # NoPage
          /\ pt[loc[q].pd][loc[q].i].pa = pt[pgdir[q]][loc[q].i].pa
          /\ EmptyFrom(loc[q].pd, loc[q].i + 1))'
    BY <2>2 DEF EmptyFrom
  <2> QED BY <2>3, <2>4 DEF CopyDue
<1>4. FaultDue(q)'
  BY FaultOf DEF HandOK, FaultDue
<1>5. Pend(q)' = Pend(q)
  BY DEF HandOK, CopyDue, Pend
<1> QED BY <1>1, <1>2, <1>3, <1>4, <1>5 DEF HandOK

LEMMA MovesKeep ==
    ASSUME TypeInv, CountInv, NEW p \in Procs, NEW l, NEW r, GotoWith(p, l, r),
           UNCHANGED <<state, pgdir, kstack>>, r.pd = loc[p].pd, InOwn(p), HandOK(p)'
    PROVE  OneOwner' /\ Clear' /\ Hands' /\ OthersPend(p)
<1>1. pc'[p] = l /\ loc'[p] = r /\ \A q \in Procs : q # p => pc'[q] = pc[q] /\ loc'[q] = loc[q]
  BY DEF GotoWith, TypeInv, TypeOK, LocalType
<1>2. \A q \in Procs : loc'[q].pd = loc[q].pd
  BY <1>1
<1>3. OneOwner'
  BY <1>2 DEF CountInv, OneOwner
<1>4. Clear'
  <2> SUFFICES ASSUME NEW d \in Pages, ~DirHeld(d)'
               PROVE  (\A v \in VA : pt'[d][v].pa = NoPage) /\ utab'[d] = NoPage /\ ktab'[d] = {}
    BY DEF Clear
  <2>1. ~DirHeld(d)
    BY <1>2 DEF DirHeld
  <2>2. d \notin {pgdir[p], loc[p].pd}
    BY <2>1 DEF DirHeld
  <2> QED BY <2>1, <2>2 DEF InOwn, CountInv, Clear
<1>5. ASSUME NEW q \in Procs, q # p
      PROVE  HandOK(q)' /\ Pend(q)' = Pend(q)
  <2>1. \A d \in Pages : d \in {pgdir[q], loc[q].pd} => d \notin {pgdir[p], loc[p].pd}
    BY <1>5, OwnDirs DEF CountInv
  <2>2. HandOK(q)
    BY DEF CountInv, Hands
  <2> QED BY <1>1, <1>5, <2>1, <2>2, OtherHands DEF InOwn
<1> QED BY <1>3, <1>4, <1>5 DEF Hands, OthersPend

(* The uses a step adds are those it counts.                                 *)
Balanced(p, l, r) ==
    \A g \in Pages :
        pgrefc'[g] + One(g, Pend(p)') - One(g, Pend(p)) + TabN(g) + InHand(g, pc[p], loc[p])
          = pgrefc[g] + TabN(g)' + InHand(g, l, r)

LEMMA OneNat == \A g, a : One(g, a) \in Nat
BY DEF One

LEMMA Works ==
    ASSUME TypeInv, CountInv, KmemType', NEW p \in Procs, NEW l, NEW r, GotoWith(p, l, r),
           UNCHANGED <<state, pgdir, kstack>>, r.pd = loc[p].pd, InOwn(p), HandOK(p)',
           FreeZero', Balanced(p, l, r)
    PROVE  CountInv'
<1>1. OneOwner' /\ Clear' /\ Hands' /\ OthersPend(p)
  BY MovesKeep
<1>2. Counts'
  <2> SUFFICES ASSUME NEW CONSTANT g \in Pages
               PROVE  pgrefc'[g] + Uncounted(g)' = Uses(g)'
    BY DEF Counts
  <2>1. pgrefc[g] + Uncounted(g) = Uses(g) /\ pgrefc[g] \in Int /\ pgrefc'[g] \in Int
    BY DEF CountInv, Counts, TypeInv, TypeOK, KmemType
  <2>2. Uncounted(g)' = Uncounted(g) + One(g, Pend(p)') - One(g, Pend(p))
    BY <1>1, PendMoves
  <2>3. HandN(g)' = HandN(g) + InHand(g, l, r) - InHand(g, pc[p], loc[p])
    BY HandMoves DEF TypeInv, TypeOK
  <2>4. SlotN(g)' = SlotN(g)
    BY SlotSame
  <2>5. /\ One(g, Pend(p)') \in Nat /\ One(g, Pend(p)) \in Nat
        /\ InHand(g, l, r) \in Nat /\ InHand(g, pc[p], loc[p]) \in Nat
    BY OneNat DEF InHand
  <2>6. /\ TabN(g) \in Nat /\ SlotN(g) \in Nat /\ HandN(g) \in Nat /\ Uncounted(g) \in Nat
        /\ Uses(g) = TabN(g) + SlotN(g) + HandN(g)
        /\ TabN(g)' \in Nat /\ SlotN(g)' \in Nat /\ HandN(g)' \in Nat /\ Uncounted(g)' \in Nat
        /\ Uses(g)' = TabN(g)' + SlotN(g)' + HandN(g)'
    BY PartsNext
  <2>7. pgrefc'[g] + One(g, Pend(p)') - One(g, Pend(p)) + TabN(g) + InHand(g, pc[p], loc[p])
          = pgrefc[g] + TabN(g)' + InHand(g, l, r)
    BY DEF Balanced
  <2> QED BY <2>1, <2>2, <2>3, <2>4, <2>5, <2>6, <2>7
<1> QED BY <1>1, <1>2 DEF CountInv

-----------------------------------------------------------------------------
(* Steps that use and free no page. *)

LEMMA Still ==
    ASSUME CountInv, UNCHANGED <<kmem, tables, state, pgdir, kstack, pc, loc>>
    PROVE  CountInv'
<1>1. FreeZero'
  BY KmemKept
<1>2. Counts'
  <2> SUFFICES ASSUME NEW CONSTANT g \in Pages
               PROVE  pgrefc'[g] + Uncounted(g)' = Uses(g)'
    BY DEF Counts
  <2>1. pgrefc'[g] = pgrefc[g] /\ Uncounted(g)' = Uncounted(g)
    BY DEF kmem, tables, Uncounted
  <2>2. Uses(g)' = Uses(g)
    BY PartsNext, TabSame, SlotSame, HandSame
  <2> QED BY <2>1, <2>2 DEF CountInv, Counts
<1>3. OneOwner' /\ Clear'
  BY DEF CountInv, OneOwner, Clear, DirHeld, tables
<1>4. Hands'
  BY DEF CountInv, Hands, HandOK, PageHeld, SlotGiven, StackDue, CopyDue, FaultDue, EmptyFrom,
         tables
<1> QED BY <1>1, <1>2, <1>3, <1>4 DEF CountInv

(* Places where a process owes nothing but what it holds.                    *)
LEMMA CalmHands ==
    ASSUME TypeInv, CountInv, NEW p \in Procs, NEW l, NEW r, GotoWith(p, l, r),
           UNCHANGED <<state, pgdir, kstack>>,
           l \notin {"kstack", "kpt", "copy", "incr", "dup", "move"},
           r.op = "wait" => loc[p].op = "wait" /\ r.np = loc[p].np,
           r.pg # NoPage => l \in {"map", "dealloc"} /\ r.op # "shrink"
    PROVE  HandOK(p)'
<1>1. pc'[p] = l /\ loc'[p] = r
  BY DEF GotoWith, TypeInv, TypeOK, LocalType
<1>2. HandOK(p)
  BY DEF CountInv, Hands
<1>3. PageHeld(p)' /\ SlotGiven(p)'
  BY <1>1, <1>2 DEF HandOK, PageHeld, SlotGiven
<1>4. StackDue(p)'
  BY <1>1, <1>2 DEF HandOK, StackDue
<1>5. CopyDue(p)' /\ FaultDue(p)'
  BY <1>1 DEF CopyDue, FaultDue
<1> QED BY <1>3, <1>4, <1>5 DEF HandOK

LEMMA Quiet ==
    ASSUME TypeInv, CountInv, TypeOK', NEW p \in Procs, NEW l, NEW r, GotoWith(p, l, r),
           UNCHANGED <<kmem, utab, ktab, state, pgdir, kstack>>, PtSame,
           r.pd = loc[p].pd, r.pg = loc[p].pg,
           pc[p] \notin {"incr", "decr"}, l \notin {"incr", "decr"}, HandOK(p)'
    PROVE  CountInv'
<1>1. InOwn(p)
  BY DEF InOwn, PtSame
<1>2. FreeZero' /\ \A g \in Pages : pgrefc'[g] = pgrefc[g]
  BY KmemKept
<1>3. pc'[p] = l
  BY DEF GotoWith, TypeInv, TypeOK, LocalType
<1>4. Balanced(p, l, r)
  <2> SUFFICES ASSUME NEW CONSTANT g \in Pages
               PROVE  pgrefc'[g] + One(g, Pend(p)') - One(g, Pend(p)) + TabN(g)
                          + InHand(g, pc[p], loc[p])
                        = pgrefc[g] + TabN(g)' + InHand(g, l, r)
    BY DEF Balanced
  <2>1. TabN(g)' = TabN(g)
    BY MapSame DEF TabN, UtabN, KtabN
  <2>2. Pend(p) = NoPage /\ Pend(p)' = NoPage
    BY <1>3 DEF Pend
  <2>3. InHand(g, pc[p], loc[p]) = InHand(g, l, r)
    BY DEF InHand, Gives
  <2>4. One(g, NoPage) = 0
    BY CowAssumption DEF One
  <2>5. TabN(g) \in Nat /\ InHand(g, l, r) \in Nat /\ pgrefc[g] \in Int
    BY PartsNext, OneNat DEF InHand, TypeInv, TypeOK, KmemType
  <2> QED BY <1>2, <2>1, <2>2, <2>3, <2>4, <2>5
<1> QED BY <1>1, <1>2, <1>4, Works DEF TypeOK

LEMMA SameTables ==
    ASSUME UNCHANGED tables
    PROVE  UNCHANGED <<utab, ktab>> /\ PtSame
BY DEF tables, PtSame

(* In user mode a process has nothing in hand.                               *)
LEMMA UserOf ==
    ASSUME TypeInv, NEW p \in Procs, pc[p] = "user"
    PROVE  loc[p] = NoLoc /\ loc[p].op = "none" /\ loc[p].pd = NoPage /\ loc[p].pg = NoPage
           /\ pgdir[p] \in Pages /\ kstack[p] \in Pages /\ state[p] = "RUNNABLE"
<1>1. loc[p] = NoLoc
  BY LocalsOf DEF LocalsOK, OpAt, Locs, Ops
<1>2. loc[p].op = "none" /\ loc[p].pd = NoPage /\ loc[p].pg = NoPage
  BY <1>1 DEF NoLoc
<1> QED BY <1>1, <1>2, RunnableOf

(* A system call that starts with nothing in hand.                           *)
LEMMA Begins ==
    ASSUME TypeInv, CountInv, TypeOK', NEW p \in Procs, NEW l, NEW r, GotoWith(p, l, r),
           UNCHANGED <<kmem, tables, ptable>>, pc[p] = "user", r.pd = NoPage, r.pg = NoPage,
           r.op # "wait", l \in {"pgdir", "alloc", "dealloc", "own"}
    PROVE  CountInv'
<1>1. loc[p].pd = NoPage /\ loc[p].pg = NoPage
  BY UserOf
<1>2. UNCHANGED <<state, pgdir, kstack, utab, ktab>> /\ PtSame
  BY SameTables DEF ptable
<1>3. HandOK(p)'
  BY <1>2, CalmHands
<1> QED BY <1>1, <1>2, <1>3, Quiet

(* A system call that ends with nothing in hand.                             *)
LEMMA Ends ==
    ASSUME TypeInv, CountInv, TypeOK', NEW p \in Procs, Return(p),
           UNCHANGED <<kmem, utab, ktab, state, pgdir, kstack>>, PtSame,
           pc[p] \notin {"incr", "decr"}, loc[p].pd = NoPage, loc[p].pg = NoPage
    PROVE  CountInv'
<1>1. GotoWith(p, "user", NoLoc) /\ NoLoc.op = "none" /\ NoLoc.pd = NoPage /\ NoLoc.pg = NoPage
  BY DEF Return, NoLoc
<1>2. HandOK(p)'
  BY <1>1, CalmHands
<1> QED BY <1>1, <1>2, Quiet

LEMMA ExecCounts ==
    ASSUME TypeInv, CountInv, TypeOK', NEW p \in Procs, Exec(p)
    PROVE  CountInv'
<1> DEFINE r == [NoLoc EXCEPT !.op = "exec", !.lim = TextSz + 2]
<1>1. GotoWith(p, "pgdir", r) /\ pc[p] = "user" /\ UNCHANGED <<kmem, tables, ptable>>
  BY DEF Exec, At
<1>2. r.op = "exec" /\ r.pd = NoPage /\ r.pg = NoPage
  BY DEF NoLoc
<1> HIDE DEF r
<1> QED BY <1>1, <1>2, Begins

LEMMA GrowCounts ==
    ASSUME TypeInv, CountInv, TypeOK', NEW p \in Procs, Grow(p)
    PROVE  CountInv'
<1>1. pc[p] = "user" /\ UNCHANGED <<kmem, tables, ptable>>
  BY DEF Grow, At
<1>2. PICK n \in (sz[p] + 1) .. MaxSz :
        GotoWith(p, "alloc", [NoLoc EXCEPT !.op = "grow", !.base = sz[p], !.i = sz[p], !.lim = n])
  BY DEF Grow
<1> DEFINE r == [NoLoc EXCEPT !.op = "grow", !.base = sz[p], !.i = sz[p], !.lim = n]
<1>3. r.op = "grow" /\ r.pd = NoPage /\ r.pg = NoPage
  BY DEF NoLoc
<1> HIDE DEF r
<1> QED BY <1>1, <1>2, <1>3, Begins DEF r

LEMMA ShrinkCounts ==
    ASSUME TypeInv, CountInv, TypeOK', NEW p \in Procs, Shrink(p)
    PROVE  CountInv'
<1>1. pc[p] = "user" /\ UNCHANGED <<kmem, tables, ptable>>
  BY DEF Shrink, At
<1>2. PICK n \in 0 .. sz[p] - 1 :
        GotoWith(p, "dealloc", [NoLoc EXCEPT !.op = "shrink", !.base = n, !.lim = sz[p]])
  BY DEF Shrink
<1> DEFINE r == [NoLoc EXCEPT !.op = "shrink", !.base = n, !.lim = sz[p]]
<1>3. r.op = "shrink" /\ r.pd = NoPage /\ r.pg = NoPage
  BY DEF NoLoc
<1> HIDE DEF r
<1> QED BY <1>1, <1>2, <1>3, Begins DEF r

(* A process that holds no page outside allocuvm and the fault handler.      *)
LEMMA HoldsNone ==
    ASSUME TypeInv, CountInv, NEW p \in Procs,
           pc[p] \notin {"map", "move", "dealloc"} \/ loc[p].op = "shrink"
    PROVE  loc[p].pg = NoPage
BY DEF CountInv, Hands, HandOK, PageHeld

LEMMA NoDirOf ==
    ASSUME TypeInv, NEW p \in Procs,
           loc[p].op \notin {"init", "fork", "exec", "wait"} \/ pc[p] \in {"kstack", "pgdir", "undo"}
    PROVE  loc[p].pd = NoPage
<1>1. LocalsOK(pc[p], loc[p]) /\ loc[p].pd \in Pages \union {NoPage}
  BY LocalsOf DEF Locs
<1> QED BY <1>1 DEF LocalsOK

LEMMA GrowDoneCounts ==
    ASSUME TypeInv, CountInv, TypeOK', NEW p \in Procs, GrowDone(p)
    PROVE  CountInv'
<1>1. /\ pc[p] = "alloc" /\ loc[p].op = "grow" /\ Return(p)
      /\ UNCHANGED <<kmem, tables, state, pgdir, kstack>>
  BY DEF GrowDone, Allocated, At
<1>2. loc[p].pd = NoPage /\ loc[p].pg = NoPage
  BY <1>1, HoldsNone, NoDirOf
<1> QED BY <1>1, <1>2, SameTables, Ends

LEMMA ShrinkDoneCounts ==
    ASSUME TypeInv, CountInv, TypeOK', NEW p \in Procs, ShrinkDone(p)
    PROVE  CountInv'
<1>1. /\ pc[p] = "dealloc" /\ loc[p].op = "shrink" /\ Return(p)
      /\ UNCHANGED <<kmem, tables, state, pgdir, kstack>>
  BY DEF ShrinkDone, Deallocated, At
<1>2. loc[p].pd = NoPage /\ loc[p].pg = NoPage
  BY <1>1, HoldsNone, NoDirOf
<1> QED BY <1>1, <1>2, SameTables, Ends

LEMMA ExecBadCounts ==
    ASSUME TypeInv, CountInv, TypeOK', NEW p \in Procs, ExecBad(p)
    PROVE  CountInv'
<1>1. /\ pc[p] = "alloc" /\ loc[p].op = "exec" /\ Goto(p, "freevm")
      /\ UNCHANGED <<kmem, tables, state, pgdir, kstack>>
  BY DEF ExecBad, At, ptable
<1>2. GotoWith(p, "freevm", loc[p]) /\ loc[p].pg = NoPage
  BY <1>1, GotoIsGotoWith, HoldsNone DEF TypeInv, TypeOK
<1>3. HandOK(p)'
  BY <1>1, <1>2, CalmHands
<1> QED BY <1>1, <1>2, <1>3, SameTables, Quiet

LEMMA CopyDoneCounts ==
    ASSUME TypeInv, CountInv, TypeOK', NEW p \in Procs, CopyDone(p)
    PROVE  CountInv'
<1>1. /\ pc[p] = "copy" /\ Goto(p, "commit")
      /\ UNCHANGED <<kmem, tables, state, pgdir, kstack>>
  BY DEF CopyDone, At, ptable
<1>2. GotoWith(p, "commit", loc[p]) /\ loc[p].pg = NoPage
  BY <1>1, GotoIsGotoWith, HoldsNone DEF TypeInv, TypeOK
<1>3. HandOK(p)'
  BY <1>1, <1>2, CalmHands
<1> QED BY <1>1, <1>2, <1>3, SameTables, Quiet

LEMMA StoreCounts ==
    ASSUME TypeInv, CountInv, NEW p \in Procs, Store(p)
    PROVE  CountInv'
BY Still DEF Store, ptable

LEMMA FaultCounts ==
    ASSUME TypeInv, CountInv, TypeOK', NEW p \in Procs, Fault(p)
    PROVE  CountInv'
<1>1. pc[p] = "user" /\ UNCHANGED <<kmem, tables, ptable>>
  BY DEF Fault, At
<1>2. CASE UNCHANGED <<pc, loc>>
  BY <1>1, <1>2, Still DEF ptable
<1>3. CASE ~UNCHANGED <<pc, loc>>
  <2> DEFINE r(v) == [NoLoc EXCEPT !.op = "fault", !.va = v, !.pa = pt[pgdir[p]][v].pa,
                                   !.refc = pgrefc[pt[pgdir[p]][v].pa]]
  <2>1. PICK v \in VA : \/ GotoWith(p, "dup", r(v))
                        \/ GotoWith(p, "own", r(v))
    BY <1>3 DEF Fault, Panic
  <2>2. /\ r(v).op = "fault" /\ r(v).pd = NoPage /\ r(v).pg = NoPage
        /\ r(v).va = v /\ r(v).pa = pt[pgdir[p]][v].pa
    BY DEF NoLoc
  <2> DEFINE s == r(v)
  <2>3. s.op = "fault" /\ s.pd = NoPage /\ s.pg = NoPage /\ s.va = v /\ s.pa = pt[pgdir[p]][v].pa
        /\ (GotoWith(p, "dup", s) \/ GotoWith(p, "own", s))
    BY <2>1, <2>2
  <2> HIDE DEF s, r
  <2>4. CASE GotoWith(p, "own", s)
    BY <1>1, <2>3, <2>4, Begins
  <2>5. CASE GotoWith(p, "dup", s)
    <3>1. pc'[p] = "dup" /\ loc'[p] = s
      BY <2>5 DEF GotoWith, TypeInv, TypeOK, LocalType
    <3>2. UNCHANGED <<pt, utab, ktab, state, pgdir, kstack>> /\ PtSame
      BY <1>1, SameTables DEF ptable, tables
    <3>3. HandOK(p)
      BY DEF CountInv, Hands
    <3>4. HandOK(p)'
      BY <2>3, <3>1, <3>2, <3>3 DEF HandOK, PageHeld, SlotGiven, StackDue, CopyDue, FaultDue
    <3>5. loc[p].pd = NoPage /\ loc[p].pg = NoPage
      BY <1>1, UserOf
    <3> QED BY <1>1, <2>3, <2>5, <3>2, <3>4, <3>5, Quiet
  <2> QED BY <2>3, <2>4, <2>5
<1> QED BY <1>2, <1>3

LEMMA CowOwnCounts ==
    ASSUME TypeInv, CountInv, TypeOK', NEW p \in Procs, CowOwn(p)
    PROVE  CountInv'
<1>1. /\ pc[p] = "own" /\ Return(p)
      /\ UNCHANGED <<kmem, utab, ktab, state, pgdir, kstack>>
      /\ pt' = IF loc[p].refc = 1 THEN [pt EXCEPT ![pgdir[p]][loc[p].va].w = TRUE] ELSE pt
  BY DEF CowOwn, At, ptable
<1>2. PtSame
  <2>1. CASE pt' = pt
    BY <2>1 DEF PtSame
  <2>2. CASE pt' = [pt EXCEPT ![pgdir[p]][loc[p].va].w = TRUE]
    <3>1. pgdir[p] \in Pages /\ loc[p].va \in VA
      BY <1>1, FaultOf
    <3>2. pt \in [Pages -> [VA -> Ptes]]
      BY DEF TypeInv, TypeOK, TablesType
    <3> QED BY <2>2, <3>1, <3>2 DEF PtSame, Ptes
  <2> QED BY <1>1, <2>1, <2>2
<1>3. loc[p].pd = NoPage /\ loc[p].pg = NoPage
  BY <1>1, FaultOf, HoldsNone
<1> QED BY <1>1, <1>2, <1>3, Ends

-----------------------------------------------------------------------------
(* Steps that take or give back a page. *)

LEMMA Shifts ==
    ASSUME TypeInv, CountInv, TypeOK', NEW p \in Procs, NEW l, NEW r, GotoWith(p, l, r),
           UNCHANGED <<state, pgdir, kstack>>, r.pd = loc[p].pd, InOwn(p), HandOK(p)', FreeZero',
           pc[p] # "incr", l # "incr",
           \A g \in Pages :
               pgrefc'[g] + TabN(g) + One(g, loc[p].pg) + One(g, Gives(pc[p], loc[p]))
                 = pgrefc[g] + TabN(g)' + One(g, r.pg) + One(g, Gives(l, r))
    PROVE  CountInv'
<1>1. pc'[p] = l
  BY DEF GotoWith, TypeInv, TypeOK, LocalType
<1>2. Pend(p) = NoPage /\ Pend(p)' = NoPage
  BY <1>1 DEF Pend
<1>3. Balanced(p, l, r)
  <2> SUFFICES ASSUME NEW CONSTANT g \in Pages
               PROVE  pgrefc'[g] + One(g, Pend(p)') - One(g, Pend(p)) + TabN(g)
                          + InHand(g, pc[p], loc[p])
                        = pgrefc[g] + TabN(g)' + InHand(g, l, r)
    BY DEF Balanced
  <2>1. One(g, NoPage) = 0
    BY CowAssumption DEF One
  <2>2. TabN(g) \in Nat /\ TabN(g)' \in Nat /\ pgrefc[g] \in Int /\ pgrefc'[g] \in Int
    BY PartsNext DEF TypeInv, TypeOK, KmemType
  <2>3. /\ One(g, loc[p].pg) \in Nat /\ One(g, Gives(pc[p], loc[p])) \in Nat
        /\ One(g, r.pg) \in Nat /\ One(g, Gives(l, r)) \in Nat /\ One(g, r.pd) \in Nat
    BY OneNat
  <2>4. /\ InHand(g, l, r) = One(g, r.pd) + One(g, r.pg) + One(g, Gives(l, r))
        /\ InHand(g, pc[p], loc[p])
             = One(g, r.pd) + One(g, loc[p].pg) + One(g, Gives(pc[p], loc[p]))
    BY DEF InHand
  <2>5. pgrefc'[g] + TabN(g) + One(g, loc[p].pg) + One(g, Gives(pc[p], loc[p]))
          = pgrefc[g] + TabN(g)' + One(g, r.pg) + One(g, Gives(l, r))
    OBVIOUS
  <2> QED BY <1>2, <2>1, <2>2, <2>3, <2>4, <2>5
<1> QED BY <1>3, Works DEF TypeOK

LEMMA RefInt ==
    ASSUME TypeInv, TypeOK', NEW CONSTANT g \in Pages
    PROVE  /\ pgrefc[g] \in Int /\ pgrefc'[g] \in Int /\ TabN(g) \in Nat /\ TabN(g)' \in Nat
           /\ One(g, NoPage) = 0 /\ \A a : One(g, a) \in Nat
<1>1. One(g, NoPage) = 0
  BY CowAssumption DEF One
<1> QED BY <1>1, PartsNext, OneNat DEF TypeInv, TypeOK, KmemType

LEMMA TabMapOnly ==
    ASSUME NEW d \in Pages, NEW v \in VA, NEW a, PtMoves(d, v, a), UNCHANGED <<utab, ktab>>,
           NEW CONSTANT g
    PROVE  TabN(g)' = TabN(g) + One(g, a) - One(g, pt[d][v].pa)
<1>1. MapN(g)' = MapN(g) + One(g, a) - One(g, pt[d][v].pa)
  BY MapMoves
<1>2. UtabN(g)' = UtabN(g) /\ KtabN(g)' = KtabN(g)
  BY DEF UtabN, KtabN
<1>3. MapN(g) \in Nat /\ UtabN(g) \in Nat /\ KtabN(g) \in Nat
  BY PartsNat
<1> QED BY <1>1, <1>2, <1>3, OneNat DEF TabN

(* setupkvm's page tables.                                                   *)
LEMMA SetupKptCounts ==
    ASSUME TypeInv, CountInv, TypeOK', NEW p \in Procs, SetupKpt(p)
    PROVE  CountInv'
<1>1. /\ pc[p] = "kpt" /\ UNCHANGED <<pt, utab, state, pgdir, kstack>>
      /\ loc[p].pg = NoPage
  BY HoldsNone DEF SetupKpt, At, ptable
<1>2. loc[p].op \in {"init", "fork", "exec"} /\ loc[p].pd \in Pages
  BY <1>1, LocalsOf DEF LocalsOK, OpAt, Locs, Ops
<1>3. ASSUME NEW t \in Pages, Kalloc(t), NEW n, Goto(p, AfterKvm(p, n)),
             ktab' = [ktab EXCEPT ![loc[p].pd] = @ \union {t}]
      PROVE  CountInv'
  <2>1. PICK l \in {"kpt", "copy", "alloc"} : l = AfterKvm(p, n)
    BY DEF AfterKvm
  <2>2. GotoWith(p, l, loc[p])
    BY <1>3, <2>1, GotoIsGotoWith DEF TypeInv, TypeOK
  <2>3. ~InUse(t) /\ FreeZero' /\ \A g \in Pages : pgrefc'[g] = pgrefc[g] + One(g, t)
    BY <1>3, KallocCounts
  <2>4. InOwn(p)
    BY <1>1, <1>3 DEF InOwn, TypeInv, TypeOK, TablesType
  <2>5. HandOK(p)'
    <3>1. HandOK(p) /\ pc'[p] = l /\ loc' = loc
      BY <2>2, <1>3 DEF CountInv, Hands, GotoWith, Goto, TypeInv, TypeOK, LocalType
    <3> QED BY <1>1, <2>1, <3>1 DEF HandOK, PageHeld, SlotGiven, StackDue, CopyDue, FaultDue,
              EmptyFrom
  <2>6. ASSUME NEW CONSTANT g \in Pages
        PROVE  pgrefc'[g] + TabN(g) = pgrefc[g] + TabN(g)'
    <3>1. t \notin ktab[loc[p].pd]
      BY <1>2, <2>3 DEF InUse, InTables
    <3>2. KtabN(g)' = KtabN(g) + One(g, t)
      BY <1>2, <1>3, <3>1, KtabAdds DEF TypeInv, TypeOK
    <3>3. MapN(g)' = MapN(g) /\ UtabN(g)' = UtabN(g)
      BY <1>1 DEF MapN, Mappings, UtabN
    <3>4. MapN(g) \in Nat /\ UtabN(g) \in Nat /\ KtabN(g) \in Nat
      BY PartsNat
    <3> QED BY <2>3, <3>2, <3>3, <3>4, RefInt, OneNat DEF TabN
  <2>7. \A g \in Pages :
          pgrefc'[g] + TabN(g) + One(g, loc[p].pg) + One(g, Gives(pc[p], loc[p]))
            = pgrefc[g] + TabN(g)' + One(g, loc[p].pg) + One(g, Gives(l, loc[p]))
    <3> SUFFICES ASSUME NEW CONSTANT g \in Pages
                 PROVE  pgrefc'[g] + TabN(g) + One(g, loc[p].pg) + One(g, Gives(pc[p], loc[p]))
                          = pgrefc[g] + TabN(g)' + One(g, loc[p].pg) + One(g, Gives(l, loc[p]))
      OBVIOUS
    <3>1. Gives(pc[p], loc[p]) = NoPage /\ Gives(l, loc[p]) = NoPage
      BY <1>1, <2>1 DEF Gives
    <3> QED BY <1>1, <2>6, <3>1, RefInt
  <2> QED BY <1>1, <2>1, <2>2, <2>3, <2>4, <2>5, <2>7, Shifts
<1>4. ASSUME KallocFails, UNCHANGED ktab, Panic("userinit")
      PROVE  CountInv'
  BY <1>1, <1>4, Still DEF KallocFails, Panic, tables
<1>5. ASSUME KallocFails, UNCHANGED ktab, Goto(p, "freevm")
      PROVE  CountInv'
  <2>1. GotoWith(p, "freevm", loc[p]) /\ PtSame
    BY <1>1, <1>5, GotoIsGotoWith DEF TypeInv, TypeOK, PtSame
  <2>2. HandOK(p)'
    BY <1>1, <2>1, CalmHands
  <2> QED BY <1>1, <1>5, <2>1, <2>2, Quiet DEF KallocFails
<1> QED BY <1>3, <1>4, <1>5 DEF SetupKpt

(* mappages' page-table page, taken when the directory d has none.           *)
TableFor(d) ==
    \/ utab[d] # NoPage /\ UNCHANGED <<kmem, utab>>
    \/ utab[d] = NoPage /\ \E t \in Pages : Kalloc(t) /\ utab' = [utab EXCEPT ![d] = t]

LEMMA TableCounts ==
    ASSUME TypeInv, CountInv, TypeOK', NEW d \in Pages, TableFor(d)
    PROVE  /\ FreeZero' /\ \A e \in Pages : e # d => utab'[e] = utab[e]
           /\ \A g \in Pages : pgrefc'[g] + UtabN(g) = pgrefc[g] + UtabN(g)'
<1>1. CASE UNCHANGED <<kmem, utab>>
  <2>1. \A g \in Pages : UtabN(g)' = UtabN(g)
    BY <1>1 DEF UtabN
  <2> QED BY <1>1, <2>1, KmemKept
<1>2. ASSUME utab[d] = NoPage, NEW t \in Pages, Kalloc(t), utab' = [utab EXCEPT ![d] = t]
      PROVE  /\ FreeZero' /\ \A e \in Pages : e # d => utab'[e] = utab[e]
             /\ \A g \in Pages : pgrefc'[g] + UtabN(g) = pgrefc[g] + UtabN(g)'
  <2>1. FreeZero' /\ \A g \in Pages : pgrefc'[g] = pgrefc[g] + One(g, t)
    BY <1>2, KallocCounts
  <2>2. \A e \in Pages : e # d => utab'[e] = utab[e]
    BY <1>2 DEF TypeInv, TypeOK, TablesType
  <2>3. ASSUME NEW CONSTANT g \in Pages
        PROVE  pgrefc'[g] + UtabN(g) = pgrefc[g] + UtabN(g)'
    <3>1. UtabN(g)' = UtabN(g) + One(g, t) - One(g, NoPage)
      BY <1>2, UtabMoves DEF TypeInv, TypeOK
    <3>2. UtabN(g) \in Nat
      BY PartsNat
    <3> QED BY <2>1, <3>1, <3>2, RefInt
  <2> QED BY <2>1, <2>2, <2>3
<1> QED BY <1>1, <1>2 DEF TableFor

(* A page mapped in the directory d, with its page-table page.               *)
LEMMA MapCounts ==
    ASSUME TypeInv, CountInv, TypeOK', NEW d \in Pages, NEW v \in VA, NEW a,
           pt[d][v].pa = NoPage, PtMoves(d, v, a), TableFor(d), UNCHANGED ktab,
           NEW CONSTANT g \in Pages
    PROVE  pgrefc'[g] + TabN(g) + One(g, a) = pgrefc[g] + TabN(g)'
<1>1. pgrefc'[g] + UtabN(g) = pgrefc[g] + UtabN(g)'
  BY TableCounts
<1>2. MapN(g)' = MapN(g) + One(g, a) - One(g, NoPage)
  BY MapMoves
<1>3. KtabN(g)' = KtabN(g)
  BY DEF KtabN
<1>4. MapN(g) \in Nat /\ UtabN(g) \in Nat /\ KtabN(g) \in Nat
  BY PartsNat
<1>5. UtabN(g)' \in Nat
  <2>1. IsFiniteSet({e \in Pages : utab'[e] = g})
    BY Finite, FS_Subset
  <2> QED BY <2>1, FS_CardinalityType DEF UtabN
<1> QED BY <1>1, <1>2, <1>3, <1>4, <1>5, RefInt DEF TabN

(* copyuvm's next page.                                                      *)
LEMMA CopyPageOf ==
    ASSUME TypeInv, CountInv, NEW p \in Procs, pc[p] = "copy", loc[p].i < sz[p]
    PROVE  /\ loc[p].op = "fork" /\ loc[p].pd \in Pages /\ pgdir[p] \in Pages
           /\ pgdir[p] # loc[p].pd /\ loc[p].i \in VA /\ loc[p].pg = NoPage
           /\ EmptyFrom(loc[p].pd, loc[p].i)
<1>1. loc[p].op = "fork" /\ loc[p] \in Locs /\ sz[p] \in 0 .. MaxSz
  BY LocalsOf DEF LocalsOK, OpAt, Locs, Ops
<1>2. loc[p].pd \in Pages /\ pgdir[p] \in Pages /\ loc[p].pg = NoPage
  BY <1>1, CopyOf, RunnableOf, HoldsNone
<1>3. loc[p].i \in VA
  BY <1>1, CowAssumption DEF Locs, VA
<1>4. pgdir[p] # loc[p].pd
  BY <1>2 DEF CountInv, OneOwner
<1>5. EmptyFrom(loc[p].pd, loc[p].i)
  BY <1>1 DEF CountInv, Hands, HandOK, CopyDue
<1> QED BY <1>1, <1>2, <1>3, <1>4, <1>5

LEMMA CopyPageCounts ==
    ASSUME TypeInv, CountInv, TypeOK', NEW p \in Procs, CopyPage(p)
    PROVE  CountInv'
<1> DEFINE d   == loc[p].pd
           f   == pgdir[p]
           i   == loc[p].i
           a   == pt[f][i].pa
           ro  == [pt[f][i] EXCEPT !.w = FALSE]
           own == [pt EXCEPT ![f][i] = ro]
<1>1. pc[p] = "copy" /\ i < sz[p] /\ UNCHANGED <<state, pgdir, kstack>>
  BY DEF CopyPage, At, ptable
<1>2. /\ loc[p].op = "fork" /\ d \in Pages /\ f \in Pages /\ f # d /\ i \in VA
      /\ loc[p].pg = NoPage /\ EmptyFrom(d, i)
  BY <1>1, CopyPageOf
<1>3. ro \in Ptes /\ ro.pa = a
  <2>1. pt[f][i] \in Ptes
    BY <1>2, PteOf
  <2> QED BY <2>1 DEF Ptes
<1>4. /\ own \in [Pages -> [VA -> Ptes]]
      /\ \A e \in Pages, v \in VA : own[e][v].pa = pt[e][v].pa
  <2>1. pt \in [Pages -> [VA -> Ptes]]
    BY DEF TypeInv, TypeOK, TablesType
  <2> HIDE DEF ro
  <2> QED BY <1>2, <1>3, <2>1
<1>5. CASE Panic("copyuvm: page not present") /\ UNCHANGED <<kmem, tables>>
  BY <1>1, <1>5, Still DEF Panic
<1>6. ASSUME a # NoPage, CopyUtab(p), pt' = [own EXCEPT ![d][i] = ro], Goto(p, "incr"),
             UNCHANGED ktab
      PROVE  CountInv'
  <2> HIDE DEF own, ro
  <2>1. PtMoves(d, i, a)
    BY <1>2, <1>3, <1>4, <1>6 DEF PtMoves
  <2> HIDE DEF a
  <2>2. TableFor(d) /\ pt[d][i].pa = NoPage
    BY <1>2, <1>6 DEF CopyUtab, TableFor, EmptyFrom, VA
  <2>3. GotoWith(p, "incr", loc[p])
    BY <1>6, GotoIsGotoWith DEF TypeInv, TypeOK
  <2>4. pc'[p] = "incr" /\ loc' = loc /\ HandOK(p)
    BY <1>6 DEF Goto, CountInv, Hands, TypeInv, TypeOK, LocalType
  <2>5. FreeZero' /\ \A e \in Pages : e # d => utab'[e] = utab[e]
    BY <1>2, <2>2, TableCounts
  <2>6. InOwn(p)
    BY <1>6, <2>1, <2>5 DEF InOwn, PtMoves
  <2>7. pt'[f][i].pa = a /\ pt'[d][i].pa = a
    BY <1>2, <2>1 DEF PtMoves, a
  <2>8. CopyDue(p)'
    <3>1. EmptyFrom(d, i + 1)'
      <4>1. \A v \in VA : v >= i + 1 => v >= i /\ v # i
        BY <1>2 DEF VA
      <4> QED BY <1>2, <2>1, <2>4, <4>1 DEF EmptyFrom, PtMoves
    <3> QED BY <1>1, <1>2, <1>6, <2>4, <2>7, <3>1 DEF CopyDue
  <2>9. HandOK(p)'
    BY <1>1, <1>2, <2>4, <2>8 DEF HandOK, PageHeld, SlotGiven, StackDue, FaultDue
  <2>10. Pend(p) = NoPage /\ Pend(p)' = a
    BY <1>1, <2>4, <2>7 DEF Pend
  <2>11. Balanced(p, "incr", loc[p])
    <3> SUFFICES ASSUME NEW CONSTANT g \in Pages
                 PROVE  pgrefc'[g] + One(g, Pend(p)') - One(g, Pend(p)) + TabN(g)
                            + InHand(g, pc[p], loc[p])
                          = pgrefc[g] + TabN(g)' + InHand(g, "incr", loc[p])
      BY DEF Balanced
    <3>1. pgrefc'[g] + TabN(g) + One(g, a) = pgrefc[g] + TabN(g)'
      BY <1>2, <1>6, <2>1, <2>2, MapCounts
    <3>2. InHand(g, pc[p], loc[p]) = InHand(g, "incr", loc[p]) /\ InHand(g, "incr", loc[p]) \in Nat
      BY <1>1, OneNat DEF InHand, Gives
    <3> QED BY <2>10, <3>1, <3>2, RefInt
  <2> QED BY <1>1, <2>3, <2>5, <2>6, <2>9, <2>11, Works DEF TypeOK
<1>7. ASSUME KallocFails, pt' = own, Goto(p, "freevm"), UNCHANGED <<utab, ktab>>
      PROVE  CountInv'
  <2> HIDE DEF own
  <2>1. GotoWith(p, "freevm", loc[p]) /\ PtSame
    BY <1>4, <1>7, GotoIsGotoWith DEF TypeInv, TypeOK, PtSame
  <2>2. HandOK(p)'
    BY <1>1, <1>2, <2>1, CalmHands
  <2> QED BY <1>1, <1>7, <2>1, <2>2, Quiet DEF KallocFails
<1>8. \/ Panic("copyuvm: page not present") /\ UNCHANGED <<kmem, tables>>
      \/ /\ ro.pa # NoPage /\ CopyUtab(p) /\ pt' = [own EXCEPT ![d][i] = ro] /\ Goto(p, "incr")
         /\ UNCHANGED ktab
      \/ KallocFails /\ pt' = own /\ Goto(p, "freevm") /\ UNCHANGED <<utab, ktab>>
  BY DEF CopyPage
<1> QED BY <1>3, <1>5, <1>6, <1>7, <1>8

LEMMA CopyIncrCounts ==
    ASSUME TypeInv, CountInv, TypeOK', NEW p \in Procs, CopyIncr(p)
    PROVE  CountInv'
<1> DEFINE a == pt[pgdir[p]][loc[p].i].pa
           r == [loc[p] EXCEPT !.i = @ + 1]
<1>1. /\ pc[p] = "incr" /\ IncrRefc(a) /\ GotoWith(p, "copy", r)
      /\ UNCHANGED <<free, fpcnt, tables, state, pgdir, kstack>>
  BY DEF CopyIncr, At, ptable
<1>2. loc[p] \in Locs /\ loc[p].op = "fork" /\ loc[p].pg = NoPage
  BY <1>1, LocalsOf, HoldsNone DEF LocalsOK, OpAt, Locs, Ops
<1>3. /\ r.op = "fork" /\ r.np = loc[p].np /\ r.pd = loc[p].pd /\ r.pg = NoPage
      /\ r.i = loc[p].i + 1
  BY <1>2 DEF Locs
<1>4. HandOK(p) /\ CopyDue(p)
  BY DEF CountInv, Hands, HandOK
<1>5. /\ loc[p].pd \in Pages /\ pgdir[p] \in Pages /\ loc[p].i \in VA /\ a # NoPage
      /\ EmptyFrom(loc[p].pd, loc[p].i + 1)
  BY <1>1, <1>4 DEF CopyDue
<1>6. a \in Pages /\ InUse(a)
  <2>1. pt[pgdir[p]][loc[p].i] \in Ptes
    BY <1>5, PteOf
  <2>2. a \in Pages
    BY <1>5, <2>1 DEF Ptes
  <2> QED BY <1>5, <2>2 DEF InUse, InTables
<1>7. FreeZero' /\ \A g \in Pages : pgrefc'[g] = pgrefc[g] + One(g, a)
  BY <1>1, <1>6, IncrCounts
<1>8. pc'[p] = "copy" /\ loc'[p] = r
  BY <1>1 DEF GotoWith, TypeInv, TypeOK, LocalType
<1>9. Pend(p) = a /\ Pend(p)' = NoPage
  BY <1>1, <1>8 DEF Pend
<1> HIDE DEF r, a
<1>10. HandOK(p)'
  BY <1>1, <1>2, <1>3, <1>4, <1>5, <1>8
     DEF HandOK, PageHeld, SlotGiven, StackDue, CopyDue, FaultDue, EmptyFrom, tables
<1>11. InOwn(p)
  BY <1>1 DEF InOwn, tables
<1>12. Balanced(p, "copy", r)
  <2> SUFFICES ASSUME NEW CONSTANT g \in Pages
               PROVE  pgrefc'[g] + One(g, Pend(p)') - One(g, Pend(p)) + TabN(g)
                          + InHand(g, pc[p], loc[p])
                        = pgrefc[g] + TabN(g)' + InHand(g, "copy", r)
    BY DEF Balanced
  <2>1. InHand(g, pc[p], loc[p]) = InHand(g, "copy", r) /\ InHand(g, "copy", r) \in Nat
    BY <1>1, <1>2, <1>3, OneNat DEF InHand, Gives
  <2>2. TabN(g)' = TabN(g)
    BY <1>1, TabSame
  <2> QED BY <1>7, <1>9, <2>1, <2>2, RefInt
<1> QED BY <1>1, <1>3, <1>7, <1>10, <1>11, <1>12, Works DEF TypeOK

(* The loops' locals, one field at a time.                                   *)
LEMMA PgUpdate ==
    ASSUME NEW l \in Locs, NEW g, NEW r, r = [l EXCEPT !.pg = g]
    PROVE  /\ r.pg = g /\ r.i = l.i /\ r.op = l.op /\ r.np = l.np /\ r.pd = l.pd
           /\ r.pa = l.pa /\ r.va = l.va
BY DEF Locs

(* A step that takes the page g into p's hand.                               *)
LEMMA TakeCounts ==
    ASSUME TypeInv, CountInv, TypeOK', NEW p \in Procs, NEW g \in Pages, Kalloc(g), NEW l,
           GotoWith(p, l, [loc[p] EXCEPT !.pg = g]), UNCHANGED <<tables, state, pgdir, kstack>>,
           loc[p].pg = NoPage, pc[p] \notin {"incr", "decr"}, l \notin {"incr", "decr"}, HandOK(p)'
    PROVE  CountInv'
<1> DEFINE r == [loc[p] EXCEPT !.pg = g]
<1>1. r.pg = g /\ r.pd = loc[p].pd /\ GotoWith(p, l, r)
  BY LocalsOf, PgUpdate
<1> HIDE DEF r
<1>2. FreeZero' /\ \A h \in Pages : pgrefc'[h] = pgrefc[h] + One(h, g)
  BY KallocCounts
<1>3. InOwn(p)
  BY DEF InOwn, tables
<1>4. \A h \in Pages :
        pgrefc'[h] + TabN(h) + One(h, loc[p].pg) + One(h, Gives(pc[p], loc[p]))
          = pgrefc[h] + TabN(h)' + One(h, r.pg) + One(h, Gives(l, r))
  <2> SUFFICES ASSUME NEW CONSTANT h \in Pages
               PROVE  pgrefc'[h] + TabN(h) + One(h, loc[p].pg) + One(h, Gives(pc[p], loc[p]))
                        = pgrefc[h] + TabN(h)' + One(h, r.pg) + One(h, Gives(l, r))
    OBVIOUS
  <2>1. Gives(pc[p], loc[p]) = NoPage /\ Gives(l, r) = NoPage
    BY DEF Gives
  <2>2. TabN(h)' = TabN(h)
    BY TabSame
  <2> QED BY <1>1, <1>2, <2>1, <2>2, RefInt
<1> QED BY <1>1, <1>2, <1>3, <1>4, Shifts

LEMMA AllocPageCounts ==
    ASSUME TypeInv, CountInv, TypeOK', NEW p \in Procs, AllocPage(p)
    PROVE  CountInv'
<1>1. pc[p] = "alloc" /\ UNCHANGED <<tables, state, pgdir, kstack>>
  BY DEF AllocPage, At, ptable
<1>2. loc[p] \in Locs /\ loc[p].op \in {"init", "exec", "grow"} /\ loc[p].pg = NoPage
  BY <1>1, LocalsOf, HoldsNone DEF LocalsOK, OpAt, Locs, Ops
<1>3. ASSUME NEW g \in Pages, Kalloc(g), GotoWith(p, "map", [loc[p] EXCEPT !.pg = g])
      PROVE  CountInv'
  <2> DEFINE r == [loc[p] EXCEPT !.pg = g]
  <2>1. r.op = loc[p].op
    BY <1>2, PgUpdate
  <2>2. GotoWith(p, "map", r)
    BY <1>3
  <2> HIDE DEF r
  <2>3. HandOK(p)'
    BY <1>1, <1>2, <2>1, <2>2, CalmHands
  <2> QED BY <1>1, <1>2, <1>3, <2>3, TakeCounts
<1>4. CASE KallocFails /\ Panic("userinit")
  BY <1>1, <1>4, Still DEF KallocFails, Panic
<1>5. CASE KallocFails /\ Goto(p, "dealloc")
  <2>1. GotoWith(p, "dealloc", loc[p])
    BY <1>5, GotoIsGotoWith DEF TypeInv, TypeOK
  <2>2. HandOK(p)'
    BY <1>1, <1>2, <2>1, CalmHands
  <2> QED BY <1>1, <1>5, <2>1, <2>2, SameTables, Quiet DEF KallocFails
<1> QED BY <1>3, <1>4, <1>5 DEF AllocPage

LEMMA MapPageCounts ==
    ASSUME TypeInv, CountInv, TypeOK', NEW p \in Procs, MapPage(p)
    PROVE  CountInv'
<1> DEFINE d == Dir(p)
           i == loc[p].i
           r == [loc[p] EXCEPT !.i = @ + 1, !.pg = NoPage]
           e == Pte(loc[p].pg, TRUE, TRUE)
<1>1. pc[p] = "map" /\ UNCHANGED <<state, pgdir, kstack>>
  BY DEF MapPage, At, ptable
<1>2. /\ loc[p] \in Locs /\ loc[p].op \in {"init", "exec", "grow"} /\ loc[p].pg \in Pages
      /\ LocalsOK("map", loc[p])
  BY <1>1, LocalsOf DEF LocalsOK, OpAt, Locs, Ops
<1>3. d \in Pages /\ d \in {pgdir[p], loc[p].pd}
  BY <1>1, DirOf DEF Dir
<1>4. i \in VA
  <2>1. i \in 0 .. MaxSz /\ loc[p].lim \in 0 .. MaxSz /\ i < loc[p].lim
    BY <1>2 DEF Locs, LocalsOK
  <2> QED BY <2>1, CowAssumption DEF VA
<1>5. r.op = loc[p].op /\ r.np = loc[p].np /\ r.pd = loc[p].pd /\ r.pg = NoPage
  BY <1>2 DEF Locs
<1> HIDE DEF r
<1>6. CASE Panic("remap") /\ UNCHANGED <<kmem, tables>>
  BY <1>1, <1>6, Still DEF Panic
<1>7. ASSUME pt[d][i].pa = NoPage, TableFor(d), pt' = [pt EXCEPT ![d][i] = e],
             GotoWith(p, "alloc", r), UNCHANGED ktab
      PROVE  CountInv'
  <2>1. PtMoves(d, i, loc[p].pg)
    <3>1. e.pa = loc[p].pg
      BY DEF Pte
    <3> HIDE DEF e, d
    <3> QED BY <1>3, <1>4, <1>7, <3>1 DEF PtMoves, TypeInv, TypeOK, TablesType
  <2> HIDE DEF e, d
  <2>2. FreeZero' /\ \A x \in Pages : x # d => utab'[x] = utab[x]
    BY <1>3, <1>7, TableCounts
  <2>3. InOwn(p)
    BY <1>3, <1>7, <2>1, <2>2 DEF InOwn, PtMoves
  <2>4. HandOK(p)'
    BY <1>1, <1>2, <1>5, <1>7, CalmHands
  <2>5. \A g \in Pages :
          pgrefc'[g] + TabN(g) + One(g, loc[p].pg) + One(g, Gives(pc[p], loc[p]))
            = pgrefc[g] + TabN(g)' + One(g, r.pg) + One(g, Gives("alloc", r))
    <3> SUFFICES ASSUME NEW CONSTANT g \in Pages
                 PROVE  pgrefc'[g] + TabN(g) + One(g, loc[p].pg) + One(g, Gives(pc[p], loc[p]))
                          = pgrefc[g] + TabN(g)' + One(g, r.pg) + One(g, Gives("alloc", r))
      OBVIOUS
    <3>1. pgrefc'[g] + TabN(g) + One(g, loc[p].pg) = pgrefc[g] + TabN(g)'
      BY <1>3, <1>4, <1>7, <2>1, MapCounts
    <3>2. Gives(pc[p], loc[p]) = NoPage /\ Gives("alloc", r) = NoPage
      BY <1>1 DEF Gives
    <3> QED BY <1>5, <3>1, <3>2, RefInt
  <2> QED BY <1>1, <1>5, <1>7, <2>2, <2>3, <2>4, <2>5, Shifts
<1>8. CASE KallocFails /\ UNCHANGED tables /\ Panic("userinit")
  BY <1>1, <1>8, Still DEF KallocFails, Panic
<1>9. CASE KallocFails /\ UNCHANGED tables /\ Goto(p, "dealloc")
  <2>1. GotoWith(p, "dealloc", loc[p])
    BY <1>9, GotoIsGotoWith DEF TypeInv, TypeOK
  <2>2. HandOK(p)'
    BY <1>1, <1>2, <2>1, CalmHands
  <2> QED BY <1>1, <1>9, <2>1, <2>2, SameTables, Quiet DEF KallocFails
<1>10. \/ Panic("remap") /\ UNCHANGED <<kmem, tables>>
       \/ /\ pt[d][i].pa = NoPage /\ TableFor(d) /\ pt' = [pt EXCEPT ![d][i] = e]
          /\ GotoWith(p, "alloc", r) /\ UNCHANGED ktab
       \/ KallocFails /\ UNCHANGED tables /\ (Panic("userinit") \/ Goto(p, "dealloc"))
  BY DEF MapPage, TableFor, r
<1> HIDE DEF d, i, e
<1> QED BY <1>6, <1>7, <1>8, <1>9, <1>10

(* deallocuvm and freevm: a page leaves the page table.                      *)
LEMMA DropPageCounts ==
    ASSUME TypeInv, CountInv, TypeOK', NEW p \in Procs, NEW d \in Pages, NEW v \in VA,
           d \in {pgdir[p], loc[p].pd}, pt[d][v].pa # NoPage, DropPage(p, d, v),
           pc[p] \in {"dealloc", "freevm"}, UNCHANGED <<utab, ktab, ptable, pc, loc>>
    PROVE  CountInv'
<1> DEFINE a == pt[d][v].pa
<1>1. a \in Pages /\ InUse(a)
  BY PteOf DEF Ptes, InUse, InTables
<1>2. Kfree(a) /\ pt' = [pt EXCEPT ![d][v] = NoPte]
  BY DEF DropPage
<1>3. PtMoves(d, v, NoPage)
  BY <1>2 DEF NoPte, PtMoves, TypeInv, TypeOK, TablesType
<1>4. pt[d][v].pa = a
  OBVIOUS
<1> HIDE DEF a
<1>5. FreeZero' /\ \A g \in Pages : pgrefc'[g] = pgrefc[g] - One(g, a)
  BY <1>1, <1>2, KfreeCounts
<1>6. GotoWith(p, pc[p], loc[p])
  BY DEF GotoWith, TypeInv, TypeOK, LocalType
<1>7. InOwn(p)
  BY <1>3 DEF InOwn, PtMoves
<1>8. HandOK(p)'
  <2>1. loc[p].pg # NoPage => pc[p] = "dealloc" /\ loc[p].op # "shrink"
    BY DEF CountInv, Hands, HandOK, PageHeld
  <2> QED BY <1>6, <2>1, CalmHands DEF ptable
<1>9. \A g \in Pages :
        pgrefc'[g] + TabN(g) + One(g, loc[p].pg) + One(g, Gives(pc[p], loc[p]))
          = pgrefc[g] + TabN(g)' + One(g, loc[p].pg) + One(g, Gives(pc[p], loc[p]))
  <2> SUFFICES ASSUME NEW CONSTANT g \in Pages
               PROVE  pgrefc'[g] + TabN(g) + One(g, loc[p].pg) + One(g, Gives(pc[p], loc[p]))
                        = pgrefc[g] + TabN(g)' + One(g, loc[p].pg) + One(g, Gives(pc[p], loc[p]))
    OBVIOUS
  <2>1. TabN(g)' = TabN(g) + One(g, NoPage) - One(g, a)
    BY <1>3, <1>4, TabMapOnly
  <2> QED BY <1>5, <2>1, RefInt
<1> QED BY <1>5, <1>6, <1>7, <1>8, <1>9, Shifts DEF ptable

LEMMA DeallocPageCounts ==
    ASSUME TypeInv, CountInv, TypeOK', NEW p \in Procs, DeallocPage(p)
    PROVE  CountInv'
<1>1. pc[p] = "dealloc" /\ UNCHANGED <<utab, ktab, ptable, pc, loc>>
  BY DEF DeallocPage, At
<1>2. PICK v \in VA : pt[Dir(p)][v].pa # NoPage /\ DropPage(p, Dir(p), v)
  BY DEF DeallocPage, IsFirst, Mapped
<1>3. Dir(p) \in Pages /\ Dir(p) \in {pgdir[p], loc[p].pd}
  BY <1>1, DirOf DEF Dir
<1> QED BY <1>1, <1>2, <1>3, DropPageCounts

LEMMA FreePageCounts ==
    ASSUME TypeInv, CountInv, TypeOK', NEW p \in Procs, FreePage(p)
    PROVE  CountInv'
<1>1. pc[p] = "freevm" /\ UNCHANGED <<utab, ktab, ptable, pc, loc>>
  BY DEF FreePage, At
<1>2. PICK v \in VA : pt[loc[p].pd][v].pa # NoPage /\ DropPage(p, loc[p].pd, v)
  BY DEF FreePage, IsFirst, Mapped
<1>3. loc[p].pd \in Pages
  BY <1>1, LocalsOf DEF LocalsOK, OpAt, Locs, Ops
<1> QED BY <1>1, <1>2, <1>3, DropPageCounts

LEMMA FreeTableCounts ==
    ASSUME TypeInv, CountInv, TypeOK', NEW p \in Procs, FreeTable(p)
    PROVE  CountInv'
<1> DEFINE d == loc[p].pd
<1>1. pc[p] = "freevm" /\ UNCHANGED <<pt, ptable, pc, loc>>
  BY DEF FreeTable, At
<1>2. d \in Pages /\ loc[p].pg = NoPage
  BY <1>1, LocalsOf, HoldsNone DEF LocalsOK, OpAt, Locs, Ops
<1>3. GotoWith(p, "freevm", loc[p])
  BY <1>1 DEF GotoWith, TypeInv, TypeOK, LocalType
<1>4. HandOK(p)'
  BY <1>1, <1>2, <1>3, CalmHands DEF ptable
<1>5. PICK t \in Pages :
        /\ Kfree(t) /\ (utab[d] = t \/ t \in ktab[d])
        /\ \/ utab[d] = t /\ utab' = [utab EXCEPT ![d] = NoPage] /\ UNCHANGED ktab
           \/ t \in ktab[d] /\ ktab' = [ktab EXCEPT ![d] = @ \ {t}] /\ UNCHANGED utab
  <2>1. CASE utab[d] # NoPage
    <3>1. utab[d] \in Pages
      BY <1>2, <2>1 DEF TypeInv, TypeOK, TablesType
    <3>2. Kfree(utab[d]) /\ utab' = [utab EXCEPT ![d] = NoPage] /\ UNCHANGED ktab
      BY <2>1 DEF FreeTable
    <3> QED BY <3>1, <3>2
  <2>2. CASE utab[d] = NoPage
    <3>1. PICK t \in ktab[d] :
            Kfree(t) /\ ktab' = [ktab EXCEPT ![d] = @ \ {t}] /\ UNCHANGED utab
      BY <2>2 DEF FreeTable
    <3>2. t \in Pages
      BY <1>2, <3>1 DEF TypeInv, TypeOK, TablesType
    <3> QED BY <3>1, <3>2
  <2> QED BY <2>1, <2>2
<1>6. InUse(t)
  BY <1>2, <1>5 DEF InUse, InTables
<1>7. FreeZero' /\ \A g \in Pages : pgrefc'[g] = pgrefc[g] - One(g, t)
  BY <1>5, <1>6, KfreeCounts
<1>8. InOwn(p)
  BY <1>1, <1>2, <1>5 DEF InOwn, TypeInv, TypeOK, TablesType
<1>9. \A g \in Pages :
        pgrefc'[g] + TabN(g) + One(g, loc[p].pg) + One(g, Gives(pc[p], loc[p]))
          = pgrefc[g] + TabN(g)' + One(g, loc[p].pg) + One(g, Gives("freevm", loc[p]))
  <2> SUFFICES ASSUME NEW CONSTANT g \in Pages
               PROVE  pgrefc'[g] + TabN(g) + One(g, loc[p].pg) + One(g, Gives(pc[p], loc[p]))
                        = pgrefc[g] + TabN(g)' + One(g, loc[p].pg) + One(g, Gives("freevm", loc[p]))
    OBVIOUS
  <2>1. MapN(g)' = MapN(g)
    BY <1>1 DEF MapN, Mappings
  <2>2. UtabN(g)' + KtabN(g)' = UtabN(g) + KtabN(g) - One(g, t)
    <3>1. UtabN(g) \in Nat /\ KtabN(g) \in Nat
      BY PartsNat
    <3>2. ASSUME utab[d] = t, utab' = [utab EXCEPT ![d] = NoPage], UNCHANGED ktab
          PROVE  UtabN(g)' + KtabN(g)' = UtabN(g) + KtabN(g) - One(g, t)
      <4>1. UtabN(g)' = UtabN(g) + One(g, NoPage) - One(g, t)
        BY <1>2, <3>2, UtabMoves DEF TypeInv, TypeOK
      <4>2. KtabN(g)' = KtabN(g)
        BY <3>2 DEF KtabN
      <4> QED BY <3>1, <4>1, <4>2, RefInt
    <3>3. ASSUME t \in ktab[d], ktab' = [ktab EXCEPT ![d] = @ \ {t}], UNCHANGED utab
          PROVE  UtabN(g)' + KtabN(g)' = UtabN(g) + KtabN(g) - One(g, t)
      <4>1. KtabN(g)' = KtabN(g) - One(g, t)
        BY <1>2, <3>3, KtabDrops DEF TypeInv, TypeOK
      <4>2. UtabN(g)' = UtabN(g)
        BY <3>3 DEF UtabN
      <4> QED BY <3>1, <4>1, <4>2, RefInt
    <3> QED BY <1>5, <3>2, <3>3
  <2>3. TabN(g)' = TabN(g) - One(g, t)
    <3>1. UtabN(g)' \in Nat
      <4>1. IsFiniteSet({e \in Pages : utab'[e] = g})
        BY Finite, FS_Subset
      <4> QED BY <4>1, FS_CardinalityType DEF UtabN
    <3>2. KtabN(g)' \in Nat
      <4>1. IsFiniteSet({e \in Pages : g \in ktab'[e]})
        BY Finite, FS_Subset
      <4> QED BY <4>1, FS_CardinalityType DEF KtabN
    <3>3. MapN(g) \in Nat /\ UtabN(g) \in Nat /\ KtabN(g) \in Nat
      BY PartsNat
    <3> QED BY <2>1, <2>2, <3>1, <3>2, <3>3, RefInt DEF TabN
  <2> QED BY <1>1, <1>7, <2>3, RefInt
<1> QED BY <1>1, <1>3, <1>4, <1>7, <1>8, <1>9, Shifts DEF ptable

LEMMA CowAllocCounts ==
    ASSUME TypeInv, CountInv, TypeOK', NEW p \in Procs, CowAlloc(p)
    PROVE  CountInv'
<1>1. pc[p] = "dup" /\ UNCHANGED <<pt, tables, state, pgdir, kstack>> /\ loc[p].pg = NoPage
  BY HoldsNone DEF CowAlloc, At, ptable, tables
<1>2. loc[p] \in Locs /\ loc[p].op = "fault"
  BY <1>1, LocalsOf, FaultOf
<1>3. ASSUME NEW g \in Pages, Kalloc(g), GotoWith(p, "move", [loc[p] EXCEPT !.pg = g])
      PROVE  CountInv'
  <2> DEFINE r == [loc[p] EXCEPT !.pg = g]
  <2>1. /\ r.op = "fault" /\ r.va = loc[p].va /\ r.pa = loc[p].pa /\ GotoWith(p, "move", r)
    BY <1>2, <1>3, PgUpdate
  <2> HIDE DEF r
  <2>2. pc'[p] = "move" /\ loc'[p] = r /\ HandOK(p)
    BY <2>1 DEF GotoWith, CountInv, Hands, TypeInv, TypeOK, LocalType
  <2>3. HandOK(p)'
    BY <1>1, <2>1, <2>2 DEF HandOK, PageHeld, SlotGiven, StackDue, CopyDue, FaultDue
  <2> QED BY <1>1, <1>3, <2>3, TakeCounts
<1>4. CASE KallocFails /\ Panic("out of memory")
  BY <1>1, <1>4, Still DEF KallocFails, Panic
<1> QED BY <1>3, <1>4 DEF CowAlloc

LEMMA CowMoveCounts ==
    ASSUME TypeInv, CountInv, TypeOK', NEW p \in Procs, CowMove(p)
    PROVE  CountInv'
<1> DEFINE r == [loc[p] EXCEPT !.pg = NoPage]
           e == Pte(loc[p].pg, TRUE, TRUE)
<1>1. /\ pc[p] = "move" /\ GotoWith(p, "decr", r)
      /\ pt' = [pt EXCEPT ![pgdir[p]][loc[p].va] = e]
      /\ UNCHANGED <<kmem, utab, ktab, state, pgdir, kstack>>
  BY DEF CowMove, At, ptable
<1>2. /\ loc[p] \in Locs /\ loc[p].op = "fault" /\ pgdir[p] \in Pages /\ loc[p].va \in VA
      /\ loc[p].pa \in Pages /\ pt[pgdir[p]][loc[p].va].pa = loc[p].pa
  BY <1>1, LocalsOf, FaultOf DEF CountInv, Hands, HandOK, FaultDue
<1>3. r.pg = NoPage /\ r.pa = loc[p].pa /\ r.pd = loc[p].pd /\ r.op = "fault"
  BY <1>2, PgUpdate
<1> HIDE DEF r
<1>4. PtMoves(pgdir[p], loc[p].va, loc[p].pg)
  <2>1. e.pa = loc[p].pg
    BY DEF Pte
  <2> HIDE DEF e
  <2> QED BY <1>1, <1>2, <2>1 DEF PtMoves, TypeInv, TypeOK, TablesType
<1>5. FreeZero' /\ \A g \in Pages : pgrefc'[g] = pgrefc[g]
  BY <1>1, KmemKept
<1>6. InOwn(p)
  <2>1. UNCHANGED <<utab, ktab>>
    BY <1>1
  <2> QED BY <1>4, <2>1 DEF InOwn, PtMoves
<1>7. HandOK(p)'
  BY <1>1, <1>3, CalmHands
<1>8. \A g \in Pages :
        pgrefc'[g] + TabN(g) + One(g, loc[p].pg) + One(g, Gives(pc[p], loc[p]))
          = pgrefc[g] + TabN(g)' + One(g, r.pg) + One(g, Gives("decr", r))
  <2> SUFFICES ASSUME NEW CONSTANT g \in Pages
               PROVE  pgrefc'[g] + TabN(g) + One(g, loc[p].pg) + One(g, Gives(pc[p], loc[p]))
                        = pgrefc[g] + TabN(g)' + One(g, r.pg) + One(g, Gives("decr", r))
    OBVIOUS
  <2>1. TabN(g)' = TabN(g) + One(g, loc[p].pg) - One(g, loc[p].pa)
    BY <1>1, <1>2, <1>4, TabMapOnly
  <2>2. Gives(pc[p], loc[p]) = NoPage /\ Gives("decr", r) = loc[p].pa
    BY <1>1, <1>3 DEF Gives
  <2> QED BY <1>3, <1>5, <2>1, <2>2, RefInt
<1> QED BY <1>1, <1>3, <1>5, <1>6, <1>7, <1>8, Shifts

(* The handler gives the old page up, or a grown or loaded page its caller   *)
(* could not map goes back.                                                  *)
LEMMA CowDecrCounts ==
    ASSUME TypeInv, CountInv, TypeOK', NEW p \in Procs, CowDecr(p)
    PROVE  CountInv'
<1>1. /\ pc[p] = "decr" /\ DecrRefc(loc[p].pa) /\ Return(p)
      /\ UNCHANGED <<free, fpcnt, tables, state, pgdir, kstack>>
  BY DEF CowDecr, At, ptable
<1>2. loc[p].pa \in Pages /\ loc[p].pd = NoPage /\ loc[p].pg = NoPage
  BY <1>1, FaultOf, HoldsNone
<1>3. InUse(loc[p].pa)
  BY <1>1 DEF InUse, InHands
<1>4. FreeZero' /\ \A g \in Pages : pgrefc'[g] = pgrefc[g] - One(g, loc[p].pa)
  BY <1>1, <1>2, <1>3, DecrCounts
<1>5. GotoWith(p, "user", NoLoc) /\ NoLoc.op = "none" /\ NoLoc.pd = NoPage /\ NoLoc.pg = NoPage
  BY <1>1 DEF Return, NoLoc
<1>6. HandOK(p)'
  BY <1>1, <1>5, CalmHands
<1>7. InOwn(p)
  BY <1>1 DEF InOwn, tables
<1>8. \A g \in Pages :
        pgrefc'[g] + TabN(g) + One(g, loc[p].pg) + One(g, Gives(pc[p], loc[p]))
          = pgrefc[g] + TabN(g)' + One(g, NoLoc.pg) + One(g, Gives("user", NoLoc))
  <2> SUFFICES ASSUME NEW CONSTANT g \in Pages
               PROVE  pgrefc'[g] + TabN(g) + One(g, loc[p].pg) + One(g, Gives(pc[p], loc[p]))
                        = pgrefc[g] + TabN(g)' + One(g, NoLoc.pg) + One(g, Gives("user", NoLoc))
    OBVIOUS
  <2>1. TabN(g)' = TabN(g)
    BY <1>1, TabSame
  <2>2. Gives(pc[p], loc[p]) = loc[p].pa /\ Gives("user", NoLoc) = NoPage
    BY <1>1 DEF Gives
  <2> QED BY <1>2, <1>4, <1>5, <2>1, <2>2, RefInt
<1> QED BY <1>1, <1>2, <1>4, <1>5, <1>6, <1>7, <1>8, Shifts

LEMMA AllocFailedCounts ==
    ASSUME TypeInv, CountInv, TypeOK', NEW p \in Procs, AllocFailed(p)
    PROVE  CountInv'
<1> DEFINE g0 == loc[p].pg
<1>1. /\ pc[p] = "dealloc" /\ loc[p].op \in {"grow", "exec"}
      /\ UNCHANGED <<tables, state, pgdir, kstack>>
  BY DEF AllocFailed, Deallocated, At, ptable
<1>2. loc[p] \in Locs /\ g0 \in Pages \union {NoPage}
  BY LocalsOf DEF Locs
<1>3. FreeZero' /\ \A g \in Pages : pgrefc'[g] = pgrefc[g] - One(g, g0)
  <2>1. CASE g0 = NoPage
    <3>1. UNCHANGED kmem /\ \A g \in Pages : One(g, g0) = 0
      BY <2>1, CowAssumption DEF AllocFailed, One
    <3> QED BY <3>1, KmemKept DEF TypeInv, TypeOK, KmemType
  <2>2. CASE g0 \in Pages
    <3>1. Kfree(g0) /\ InUse(g0)
      BY <2>2, CowAssumption DEF AllocFailed, InUse, InHands
    <3> QED BY <2>2, <3>1, KfreeCounts
  <2> QED BY <1>2, <2>1, <2>2
<1>4. ASSUME NEW l \in {"user", "freevm"}, NEW r, GotoWith(p, l, r), r.op # "wait",
             r.pd = loc[p].pd, r.pg = NoPage
      PROVE  CountInv'
  <2>1. HandOK(p)'
    BY <1>1, <1>4, CalmHands
  <2>2. InOwn(p)
    BY <1>1 DEF InOwn, tables
  <2>3. \A g \in Pages :
          pgrefc'[g] + TabN(g) + One(g, loc[p].pg) + One(g, Gives(pc[p], loc[p]))
            = pgrefc[g] + TabN(g)' + One(g, r.pg) + One(g, Gives(l, r))
    <3> SUFFICES ASSUME NEW CONSTANT g \in Pages
                 PROVE  pgrefc'[g] + TabN(g) + One(g, loc[p].pg) + One(g, Gives(pc[p], loc[p]))
                          = pgrefc[g] + TabN(g)' + One(g, r.pg) + One(g, Gives(l, r))
      OBVIOUS
    <3>1. TabN(g)' = TabN(g)
      BY <1>1, TabSame
    <3>2. Gives(pc[p], loc[p]) = NoPage /\ Gives(l, r) = NoPage
      BY <1>1, <1>4 DEF Gives
    <3> QED BY <1>3, <1>4, <3>1, <3>2, RefInt
  <2> QED BY <1>1, <1>3, <1>4, <2>1, <2>2, <2>3, Shifts
<1>5. CASE loc[p].op = "grow" /\ Return(p)
  <2>1. loc[p].pd = NoPage
    BY <1>5, NoDirOf
  <2>2. GotoWith(p, "user", NoLoc) /\ NoLoc.op = "none" /\ NoLoc.pd = NoPage /\ NoLoc.pg = NoPage
    BY <1>5 DEF Return, NoLoc
  <2> QED BY <1>4, <2>1, <2>2
<1>6. CASE loc[p].op = "exec" /\ GotoWith(p, "freevm", [loc[p] EXCEPT !.pg = NoPage])
  <2> DEFINE r == [loc[p] EXCEPT !.pg = NoPage]
  <2>1. r.op = "exec" /\ r.pd = loc[p].pd /\ r.pg = NoPage /\ GotoWith(p, "freevm", r)
    BY <1>2, <1>6, PgUpdate
  <2> HIDE DEF r
  <2> QED BY <1>4, <2>1
<1> QED BY <1>1, <1>5, <1>6 DEF AllocFailed

-----------------------------------------------------------------------------
(* Steps that change a slot of ptable or who holds a directory. *)

LEMMA Renews ==
    ASSUME TypeInv, CountInv, TypeOK', NEW p \in Procs, NEW l, NEW r, HandTurn(p, l, r),
           OthersPend(p), pc[p] # "incr", l # "incr", PtSame, UNCHANGED <<utab, ktab>>,
           FreeZero', OneOwner', Hands',
           \A d \in Pages : DirHeld(d) /\ ~DirHeld(d)' =>
               (\A v \in VA : pt[d][v].pa = NoPage) /\ utab[d] = NoPage /\ ktab[d] = {},
           \A g \in Pages : pgrefc'[g] + SlotN(g) + InHand(g, pc[p], loc[p])
                              = pgrefc[g] + SlotN(g)' + InHand(g, l, r)
    PROVE  CountInv'
<1>1. Clear'
  <2> SUFFICES ASSUME NEW d \in Pages, ~DirHeld(d)'
               PROVE  (\A v \in VA : pt'[d][v].pa = NoPage) /\ utab'[d] = NoPage /\ ktab'[d] = {}
    BY DEF Clear
  <2>1. (\A v \in VA : pt[d][v].pa = NoPage) /\ utab[d] = NoPage /\ ktab[d] = {}
    BY DEF CountInv, Clear
  <2> QED BY <2>1 DEF PtSame
<1>2. Counts'
  <2> SUFFICES ASSUME NEW CONSTANT g \in Pages
               PROVE  pgrefc'[g] + Uncounted(g)' = Uses(g)'
    BY DEF Counts
  <2>1. pgrefc[g] + Uncounted(g) = Uses(g)
    BY DEF CountInv, Counts
  <2>2. Uncounted(g)' = Uncounted(g)
    <3>1. Uncounted(g)' = Uncounted(g) + One(g, Pend(p)') - One(g, Pend(p))
      BY PendMoves
    <3>2. Pend(p) = NoPage /\ Pend(p)' = NoPage
      BY DEF Pend, HandTurn
    <3>3. Uncounted(g) \in Nat
      BY PartsNext
    <3> QED BY <3>1, <3>2, <3>3, RefInt
  <2>3. HandN(g)' = HandN(g) + InHand(g, l, r) - InHand(g, pc[p], loc[p])
    BY HandTurns
  <2>4. TabN(g)' = TabN(g)
    BY MapSame DEF TabN, UtabN, KtabN
  <2>5. InHand(g, l, r) \in Nat /\ InHand(g, pc[p], loc[p]) \in Nat
    BY OneNat DEF InHand
  <2>6. /\ TabN(g) \in Nat /\ SlotN(g) \in Nat /\ HandN(g) \in Nat /\ Uncounted(g) \in Nat
        /\ Uses(g) = TabN(g) + SlotN(g) + HandN(g)
        /\ TabN(g)' \in Nat /\ SlotN(g)' \in Nat /\ HandN(g)' \in Nat /\ Uncounted(g)' \in Nat
        /\ Uses(g)' = TabN(g)' + SlotN(g)' + HandN(g)'
    BY PartsNext
  <2>7. pgrefc'[g] + SlotN(g) + InHand(g, pc[p], loc[p]) = pgrefc[g] + SlotN(g)' + InHand(g, l, r)
    OBVIOUS
  <2> QED BY <2>1, <2>2, <2>3, <2>4, <2>5, <2>6, <2>7, RefInt
<1> QED BY <1>1, <1>2 DEF CountInv

(* A directory moved from one holder to another is the uses' only change.    *)
LEMMA SlotParts ==
    ASSUME NEW CONSTANT g
    PROVE  /\ SlotN(g) = DirN(g) + StackN(g) /\ SlotN(g)' = DirN(g)' + StackN(g)'
           /\ DirN(g) \in Nat /\ StackN(g) \in Nat /\ DirN(g)' \in Nat /\ StackN(g)' \in Nat
<1>1. DirN(g) \in Nat /\ StackN(g) \in Nat
  BY PartsNat
<1>2. (DirN(g) \in Nat /\ StackN(g) \in Nat)'
  BY <1>1, PTL
<1> QED BY <1>1, <1>2 DEF SlotN

LEMMA ForkCounts ==
    ASSUME TypeInv, CountInv, TypeOK', NEW p \in Procs, Fork(p)
    PROVE  CountInv'
<1>1. pc[p] = "user" /\ UNCHANGED <<kmem, tables, pgdir, kstack>>
  BY DEF Fork, At
<1>2. PICK np \in Procs :
        /\ state[np] = "UNUSED" /\ state' = [state EXCEPT ![np] = "EMBRYO"]
        /\ GotoWith(p, "kstack", [NoLoc EXCEPT !.op = "fork", !.np = np])
  BY DEF Fork
<1> DEFINE r == [NoLoc EXCEPT !.op = "fork", !.np = np]
<1>3. r.op = "fork" /\ r.np = np /\ r.pd = NoPage /\ r.pg = NoPage /\ GotoWith(p, "kstack", r)
  BY <1>2 DEF NoLoc
<1> HIDE DEF r
<1>4. /\ loc[p].pd = NoPage /\ loc[p].pg = NoPage /\ state[p] = "RUNNABLE"
      /\ pgdir[np] = NoPage /\ kstack[np] = NoPage /\ np # p
  BY <1>1, <1>2, UserOf DEF CountInv, Hands, HandOK, SlotGiven
<1>5. pc[np] = "none" /\ loc[np].op = "none"
  BY <1>2, UnusedOf
<1>6. /\ pc'[p] = "kstack" /\ loc'[p] = r
      /\ \A q \in Procs : q # p => pc'[q] = pc[q] /\ loc'[q] = loc[q]
      /\ state'[np] = "EMBRYO" /\ \A q \in Procs : q # np => state'[q] = state[q]
  BY <1>2, <1>3 DEF GotoWith, TypeInv, TypeOK, LocalType, PtableType
<1>7. HandTurn(p, "kstack", r) /\ PtSame /\ UNCHANGED <<utab, ktab>>
  BY <1>1, <1>6, SameTables DEF HandTurn
<1>8. OneOwner'
  <2>1. \A q \in Procs : loc'[q].pd = loc[q].pd
    BY <1>3, <1>4, <1>6
  <2> QED BY <1>1, <2>1 DEF CountInv, OneOwner
<1>9. ASSUME NEW q \in Procs, q # p
      PROVE  HandOK(q)' /\ Pend(q)' = Pend(q)
  <2>1. HandOK(q)
    BY DEF CountInv, Hands
  <2>2. CASE q # np
    BY <1>1, <1>6, <1>7, <1>9, <2>1, <2>2, OtherHands DEF PtSame
  <2>3. CASE q = np
    <3>1. HandOK(np)'
      BY <1>1, <1>4, <1>5, <1>6, <2>1, <2>3
         DEF HandOK, PageHeld, SlotGiven, StackDue, CopyDue, FaultDue
    <3>2. Pend(np)' = Pend(np)
      BY <1>4, <1>5, <1>6 DEF Pend
    <3> QED BY <2>3, <3>1, <3>2
  <2> QED BY <2>2, <2>3
<1>10. HandOK(p)'
  BY <1>1, <1>2, <1>3, <1>4, <1>6 DEF HandOK, PageHeld, SlotGiven, StackDue, CopyDue, FaultDue
<1>11. Hands' /\ OthersPend(p)
  BY <1>9, <1>10 DEF Hands, OthersPend
<1>12. FreeZero' /\ \A g \in Pages : pgrefc'[g] = pgrefc[g]
  BY <1>1, KmemKept
<1>13. \A d \in Pages : DirHeld(d) => DirHeld(d)'
  BY <1>1, <1>3, <1>4, <1>6 DEF DirHeld
<1>14. \A g \in Pages : pgrefc'[g] + SlotN(g) + InHand(g, pc[p], loc[p])
                          = pgrefc[g] + SlotN(g)' + InHand(g, "kstack", r)
  <2> SUFFICES ASSUME NEW CONSTANT g \in Pages
               PROVE  pgrefc'[g] + SlotN(g) + InHand(g, pc[p], loc[p])
                        = pgrefc[g] + SlotN(g)' + InHand(g, "kstack", r)
    OBVIOUS
  <2>1. SlotN(g)' = SlotN(g)
    BY <1>1, SlotSame
  <2>2. InHand(g, pc[p], loc[p]) = InHand(g, "kstack", r)
    BY <1>1, <1>3, <1>4 DEF InHand, Gives
  <2> QED BY <1>12, <2>1, <2>2
<1> QED BY <1>1, <1>7, <1>8, <1>11, <1>12, <1>13, <1>14, Renews

LEMMA AllocKstackCounts ==
    ASSUME TypeInv, CountInv, TypeOK', NEW p \in Procs, AllocKstack(p)
    PROVE  CountInv'
<1> DEFINE np == loc[p].np
<1>1. pc[p] = "kstack" /\ UNCHANGED <<tables, pgdir>>
  BY DEF AllocKstack, At
<1>2. loc[p] \in Locs /\ loc[p].op \in {"init", "fork"}
  BY <1>1, LocalsOf DEF LocalsOK, OpAt, Locs, Ops
<1>3. /\ np \in Procs /\ state[np] = "EMBRYO" /\ loc[np].op # "wait"
      /\ np # p => pc[np] = "none" /\ loc[np].op = "none"
      /\ \A q \in Procs : q # p /\ pc[q] = "kstack" => loc[q].np # np
  <2>1. /\ np \in Procs /\ state[np] = "EMBRYO"
        /\ loc[p].op = "fork" => np # p /\ pc[np] = "none" /\ loc[np].op = "none"
        /\ loc[p].op = "init" => np = p
    BY <1>2, ForkOf, InitOf, IdleOf
  <2>2. ASSUME NEW q \in Procs, q # p, pc[q] = "kstack", loc[q].np = np
        PROVE  FALSE
    <3>1. loc[q].op \in {"init", "fork"}
      BY <2>2, LocalsOf DEF LocalsOK, OpAt, Locs, Ops
    <3>2. CASE loc[q].op = "init"
      <4>1. q = np
        BY <2>2, <3>2, InitOf
      <4> QED BY <1>2, <2>1, <2>2, <4>1
    <3>3. CASE loc[q].op = "fork"
      <4>1. np # q /\ pc[np] = "none" /\ \A x \in Procs : loc[x].op = "fork" /\ loc[x].np = np => x = q
        BY <2>2, <3>3, ForkOf
      <4> QED BY <1>1, <1>2, <2>1, <2>2, <4>1
    <3> QED BY <3>1, <3>2, <3>3
  <2> QED BY <1>2, <2>1, <2>2
<1>4. loc[p].pd = NoPage /\ loc[p].pg = NoPage /\ kstack[np] = NoPage /\ pgdir[np] = NoPage
  BY <1>1, <1>3, NoDirOf, HoldsNone DEF CountInv, Hands, HandOK, StackDue, SlotGiven
<1>5. PtSame /\ UNCHANGED <<utab, ktab>> /\ pc \in [Procs -> Pcs] /\ loc \in [Procs -> Locs]
      /\ PtableType
  BY <1>1, SameTables DEF TypeInv, TypeOK, LocalType
<1> HIDE DEF np
<1>6. \A q \in Procs : loc[q].op = "wait" => loc[q].np # np
  BY <1>3, WaitOf
<1>7. ASSUME NEW g \in Pages, Kalloc(g), kstack' = [kstack EXCEPT ![np] = g],
             Goto(p, "pgdir"), UNCHANGED state
      PROVE  CountInv'
  <2>1. /\ pc'[p] = "pgdir" /\ loc' = loc /\ \A q \in Procs : q # p => pc'[q] = pc[q]
        /\ \A q \in Procs : q # np => kstack'[q] = kstack[q]
    BY <1>5, <1>7 DEF Goto, PtableType
  <2>2. HandTurn(p, "pgdir", loc[p])
    BY <2>1 DEF HandTurn
  <2>3. OneOwner' /\ \A d \in Pages : DirHeld(d) => DirHeld(d)'
    BY <1>1, <2>1 DEF CountInv, OneOwner, DirHeld
  <2>4. ASSUME NEW q \in Procs, q # p
        PROVE  HandOK(q)' /\ Pend(q)' = Pend(q)
    <3>1. HandOK(q)
      BY DEF CountInv, Hands
    <3>2. CASE q # np
      <4>1. /\ loc[q].op = "wait" => /\ kstack'[loc[q].np] = kstack[loc[q].np]
                                     /\ pgdir'[loc[q].np] = pgdir[loc[q].np]
            /\ pc[q] = "kstack" => kstack'[loc[q].np] = kstack[loc[q].np]
        <5>1. loc[q].op = "wait" => loc[q].np \in Procs
          BY WaitOf
        <5>2. pc[q] = "kstack" => loc[q].np \in Procs
          <6>1. pc[q] = "kstack" => loc[q].op \in {"init", "fork"}
            BY LocalsOf DEF LocalsOK, OpAt, Locs, Ops
          <6> QED BY <6>1, InitOf, ForkOf
        <5> QED BY <1>1, <1>3, <1>6, <2>1, <2>4, <5>1, <5>2
      <4> QED BY <1>1, <1>5, <1>7, <2>1, <2>4, <3>1, <3>2, <4>1, OtherHands DEF PtSame
    <3>3. CASE q = np
      <4>1. pc[q] = "none" /\ loc[q].op = "none" /\ state[q] = "EMBRYO"
        BY <1>3, <2>4, <3>3
      <4>2. HandOK(q)'
        BY <1>1, <1>7, <2>1, <2>4, <3>1, <4>1
           DEF HandOK, PageHeld, SlotGiven, StackDue, CopyDue, FaultDue
      <4>3. Pend(q)' = Pend(q)
        BY <2>1, <2>4, <4>1 DEF Pend
      <4> QED BY <4>2, <4>3
    <3> QED BY <3>2, <3>3
  <2>5. HandOK(p)'
    <3>1. HandOK(p) /\ state[p] # "UNUSED"
      <4>1. loc[p].op = "fork" => state[p] = "RUNNABLE"
        BY <1>1, <1>2, RunnableOf
      <4>2. loc[p].op = "init" => state[p] = "EMBRYO"
        BY InitOf
      <4> QED BY <1>2, <4>1, <4>2 DEF CountInv, Hands
    <3> QED BY <1>1, <1>2, <1>4, <1>7, <2>1, <3>1
             DEF HandOK, PageHeld, SlotGiven, StackDue, CopyDue, FaultDue
  <2>6. Hands' /\ OthersPend(p)
    BY <2>4, <2>5 DEF Hands, OthersPend
  <2>7. FreeZero' /\ \A h \in Pages : pgrefc'[h] = pgrefc[h] + One(h, g)
    BY <1>7, KallocCounts
  <2>8. \A h \in Pages : pgrefc'[h] + SlotN(h) + InHand(h, pc[p], loc[p])
                           = pgrefc[h] + SlotN(h)' + InHand(h, "pgdir", loc[p])
    <3> SUFFICES ASSUME NEW CONSTANT h \in Pages
                 PROVE  pgrefc'[h] + SlotN(h) + InHand(h, pc[p], loc[p])
                          = pgrefc[h] + SlotN(h)' + InHand(h, "pgdir", loc[p])
      OBVIOUS
    <3>1. InHand(h, pc[p], loc[p]) = InHand(h, "pgdir", loc[p])
          /\ InHand(h, "pgdir", loc[p]) \in Nat
      BY <1>1, OneNat DEF InHand, Gives
    <3>2. StackN(h)' = StackN(h) + One(h, g) - One(h, NoPage)
      BY <1>3, <1>4, <1>5, <1>7, StackMoves
    <3>3. DirN(h)' = DirN(h)
      BY <1>1 DEF DirN
    <3> QED BY <2>7, <3>1, <3>2, <3>3, SlotParts, RefInt
  <2> QED BY <1>1, <1>5, <2>2, <2>3, <2>6, <2>7, <2>8, Renews
<1>8. ASSUME KallocFails, state' = [state EXCEPT ![np] = "UNUSED"], UNCHANGED kstack,
             NEW l \in {"kstack", "user"}, NEW r, pc'[p] = l, loc'[p] = r,
             \A q \in Procs : q # p => pc'[q] = pc[q] /\ loc'[q] = loc[q],
             r.pd = NoPage, r.pg = NoPage, r.op # "wait",
             l = "kstack" => r.np = np
      PROVE  CountInv'
  <2>1. /\ state'[np] = "UNUSED" /\ \A q \in Procs : q # np => state'[q] = state[q]
        /\ HandTurn(p, l, r)
    BY <1>3, <1>5, <1>8 DEF HandTurn, PtableType
  <2>2. OneOwner' /\ \A d \in Pages : DirHeld(d) => DirHeld(d)'
    <3>1. \A q \in Procs : loc'[q].pd = loc[q].pd
      BY <1>4, <1>8
    <3> QED BY <1>1, <3>1 DEF CountInv, OneOwner, DirHeld
  <2>3. ASSUME NEW q \in Procs, q # p
        PROVE  HandOK(q)' /\ Pend(q)' = Pend(q)
    <3>1. HandOK(q)
      BY DEF CountInv, Hands
    <3>2. CASE q # np
      BY <1>1, <1>5, <1>8, <2>1, <2>3, <3>1, <3>2, OtherHands DEF PtSame
    <3>3. CASE q = np
      <4>1. pc[q] = "none" /\ loc[q].op = "none"
        BY <1>3, <2>3, <3>3
      <4>2. HandOK(q)'
        BY <1>1, <1>4, <1>8, <2>1, <2>3, <3>1, <3>3, <4>1
           DEF HandOK, PageHeld, SlotGiven, StackDue, CopyDue, FaultDue
      <4>3. Pend(q)' = Pend(q)
        BY <1>8, <2>3, <4>1 DEF Pend
      <4> QED BY <4>2, <4>3
    <3> QED BY <3>2, <3>3
  <2>4. HandOK(p)'
    <3>1. HandOK(p)
      BY DEF CountInv, Hands
    <3> QED BY <1>1, <1>4, <1>8, <2>1, <3>1
             DEF HandOK, PageHeld, SlotGiven, StackDue, CopyDue, FaultDue
  <2>5. Hands' /\ OthersPend(p)
    BY <2>3, <2>4 DEF Hands, OthersPend
  <2>6. FreeZero' /\ \A g \in Pages : pgrefc'[g] = pgrefc[g]
    BY <1>8, KmemKept DEF KallocFails
  <2>7. \A g \in Pages : pgrefc'[g] + SlotN(g) + InHand(g, pc[p], loc[p])
                           = pgrefc[g] + SlotN(g)' + InHand(g, l, r)
    <3> SUFFICES ASSUME NEW CONSTANT g \in Pages
                 PROVE  pgrefc'[g] + SlotN(g) + InHand(g, pc[p], loc[p])
                          = pgrefc[g] + SlotN(g)' + InHand(g, l, r)
      OBVIOUS
    <3>1. SlotN(g)' = SlotN(g)
      BY <1>1, <1>8, SlotSame
    <3>2. InHand(g, pc[p], loc[p]) = InHand(g, l, r)
      BY <1>1, <1>4, <1>8 DEF InHand, Gives
    <3> QED BY <2>6, <3>1, <3>2
  <2> QED BY <1>1, <1>5, <1>8, <2>1, <2>2, <2>5, <2>6, <2>7, Renews
<1>9. ASSUME KallocFails, state' = [state EXCEPT ![np] = "UNUSED"], UNCHANGED kstack, Return(p)
      PROVE  CountInv'
  <2>1. /\ pc'[p] = "user" /\ loc'[p] = NoLoc
        /\ \A q \in Procs : q # p => pc'[q] = pc[q] /\ loc'[q] = loc[q]
    BY <1>5, <1>9 DEF Return, GotoWith
  <2>2. NoLoc.op = "none" /\ NoLoc.pd = NoPage /\ NoLoc.pg = NoPage
    BY DEF NoLoc
  <2> QED BY <1>8, <1>9, <2>1, <2>2
<1>10. ASSUME KallocFails, state' = [state EXCEPT ![np] = "UNUSED"], UNCHANGED kstack,
              Panic("userinit")
       PROVE  CountInv'
  <2>1. UNCHANGED <<pc, loc>>
    BY <1>10 DEF Panic
  <2> QED BY <1>1, <1>2, <1>4, <1>8, <1>10, <2>1 DEF np
<1> QED BY <1>7, <1>9, <1>10 DEF AllocKstack, np


(* A directory page fresh from kalloc was empty already, as every free page. *)
LEMMA FreshDir ==
    ASSUME TypeInv, CountInv, NEW g \in Pages, ~InUse(g),
           pt' = [pt EXCEPT ![g] = [v \in VA |-> NoPte]],
           utab' = [utab EXCEPT ![g] = NoPage], ktab' = [ktab EXCEPT ![g] = {}]
    PROVE  /\ PtSame /\ UNCHANGED <<utab, ktab>>
           /\ \A q \in Procs : pgdir[q] # g /\ loc[q].pd # g
<1>1. \A q \in Procs : pgdir[q] # g /\ loc[q].pd # g
  BY DEF InUse, InSlots, InHands
<1>2. (\A v \in VA : pt[g][v].pa = NoPage) /\ utab[g] = NoPage /\ ktab[g] = {}
  BY <1>1 DEF CountInv, Clear, DirHeld
<1>3. pt \in [Pages -> [VA -> Ptes]] /\ utab \in [Pages -> Pages \union {NoPage}]
      /\ ktab \in [Pages -> SUBSET Pages]
  BY DEF TypeInv, TypeOK, TablesType
<1>4. UNCHANGED <<utab, ktab>>
  BY <1>2, <1>3
<1>5. PtSame
  <2>1. \A v \in VA : pt'[g][v] = NoPte
    BY <1>3
  <2>2. \A e \in Pages : e # g => pt'[e] = pt[e]
    BY <1>3
  <2> QED BY <1>2, <2>1, <2>2 DEF PtSame, NoPte
<1> QED BY <1>1, <1>4, <1>5

LEMMA PdUpdate ==
    ASSUME NEW l \in Locs, NEW g, NEW r, r = [l EXCEPT !.pd = g]
    PROVE  /\ r.pd = g /\ r.i = l.i /\ r.op = l.op /\ r.np = l.np /\ r.pg = l.pg
           /\ r.pa = l.pa /\ r.va = l.va
BY DEF Locs

(* The hands of the others, when a step moves p alone and keeps all slots.   *)
LEMMA OthersKeep ==
    ASSUME TypeInv, CountInv, NEW p \in Procs, PtSame, UNCHANGED <<state, pgdir, kstack>>,
           \A q \in Procs : q # p => pc'[q] = pc[q] /\ loc'[q] = loc[q],
           HandOK(p)'
    PROVE  Hands' /\ OthersPend(p)
<1>1. ASSUME NEW q \in Procs, q # p
      PROVE  HandOK(q)' /\ Pend(q)' = Pend(q)
  <2>1. HandOK(q)
    BY DEF CountInv, Hands
  <2>2. \A d \in Pages, v \in VA : pt'[d][v].pa = pt[d][v].pa
    BY DEF PtSame
  <2> QED BY <1>1, <2>1, <2>2, OtherHands
<1> QED BY <1>1 DEF Hands, OthersPend

(* setupkvm's directory page.                                                *)
LEMMA SetupDirCounts ==
    ASSUME TypeInv, CountInv, TypeOK', NEW p \in Procs, SetupDir(p)
    PROVE  CountInv'
<1>1. pc[p] = "pgdir" /\ UNCHANGED <<state, pgdir, kstack>>
  BY DEF SetupDir, At, ptable
<1>2. /\ loc[p] \in Locs /\ loc[p].op \in {"init", "fork", "exec"}
      /\ loc[p].pd = NoPage /\ loc[p].pg = NoPage
  BY <1>1, LocalsOf, NoDirOf, HoldsNone DEF LocalsOK, OpAt, Locs, Ops
<1>3. pc \in [Procs -> Pcs] /\ loc \in [Procs -> Locs]
  BY DEF TypeInv, TypeOK, LocalType
<1>4. ASSUME NEW g \in Pages, Kalloc(g),
             GotoWith(p, AfterKvm(p, 0), [loc[p] EXCEPT !.pd = g]),
             pt' = [pt EXCEPT ![g] = [v \in VA |-> NoPte]],
             utab' = [utab EXCEPT ![g] = NoPage], ktab' = [ktab EXCEPT ![g] = {}]
      PROVE  CountInv'
  <2> DEFINE r == [loc[p] EXCEPT !.pd = g]
  <2>1. PICK l \in {"kpt", "copy", "alloc"} : l = AfterKvm(p, 0)
    BY DEF AfterKvm
  <2>2. r.pd = g /\ r.pg = NoPage /\ r.op = loc[p].op /\ r.np = loc[p].np /\ r.i = loc[p].i
    BY <1>2, PdUpdate
  <2>3. GotoWith(p, l, r)
    BY <1>4, <2>1
  <2> HIDE DEF r
  <2>4. pc'[p] = l /\ loc'[p] = r /\ \A q \in Procs : q # p => pc'[q] = pc[q] /\ loc'[q] = loc[q]
    BY <1>3, <2>3 DEF GotoWith
  <2>5. ~InUse(g) /\ FreeZero' /\ \A h \in Pages : pgrefc'[h] = pgrefc[h] + One(h, g)
    BY <1>4, KallocCounts
  <2>6. PtSame /\ UNCHANGED <<utab, ktab>> /\ \A q \in Procs : pgdir[q] # g /\ loc[q].pd # g
    BY <1>4, <2>5, FreshDir
  <2>7. HandTurn(p, l, r)
    BY <2>4 DEF HandTurn
  <2>8. OneOwner'
    <3>1. \A q \in Procs : loc'[q].pd = IF q = p THEN g ELSE loc[q].pd
      BY <2>2, <2>4
    <3> QED BY <1>1, <2>6, <3>1 DEF CountInv, OneOwner
  <2>9. HandOK(p)'
    <3>1. HandOK(p)
      BY DEF CountInv, Hands
    <3>2. PageHeld(p)' /\ SlotGiven(p)' /\ StackDue(p)' /\ FaultDue(p)'
      BY <1>1, <1>2, <2>1, <2>2, <2>4, <3>1 DEF HandOK, PageHeld, SlotGiven, StackDue, FaultDue
    <3>3. \A v \in VA : pt'[g][v].pa = NoPage
      <4>1. \A v \in VA : pt[g][v].pa = NoPage
        BY <2>6 DEF CountInv, Clear, DirHeld
      <4> QED BY <2>6, <4>1 DEF PtSame
    <3>4. CopyDue(p)'
      BY <2>1, <2>2, <2>4, <3>3 DEF CopyDue, EmptyFrom
    <3> QED BY <3>2, <3>4 DEF HandOK
  <2>10. Hands' /\ OthersPend(p)
    BY <1>1, <2>4, <2>6, <2>9, OthersKeep
  <2>11. \A d \in Pages : DirHeld(d) => DirHeld(d)'
    <3> SUFFICES ASSUME NEW d \in Pages, NEW q \in Procs, pgdir[q] = d \/ loc[q].pd = d
                 PROVE  pgdir'[q] = d \/ loc'[q].pd = d
      BY DEF DirHeld
    <3> QED BY <1>1, <1>2, <2>4, CowAssumption
  <2>12. \A h \in Pages : pgrefc'[h] + SlotN(h) + InHand(h, pc[p], loc[p])
                            = pgrefc[h] + SlotN(h)' + InHand(h, l, r)
    <3> SUFFICES ASSUME NEW CONSTANT h \in Pages
                 PROVE  pgrefc'[h] + SlotN(h) + InHand(h, pc[p], loc[p])
                          = pgrefc[h] + SlotN(h)' + InHand(h, l, r)
      OBVIOUS
    <3>1. SlotN(h)' = SlotN(h) /\ SlotN(h) \in Nat
      BY <1>1, SlotSame, PartsNext
    <3>2. Gives(pc[p], loc[p]) = NoPage /\ Gives(l, r) = NoPage
      BY <1>1, <2>1 DEF Gives
    <3>3. InHand(h, pc[p], loc[p]) = 0 /\ InHand(h, l, r) = One(h, g)
      <4>1. One(h, NoPage) = 0 /\ One(h, g) \in Nat
        BY RefInt
      <4>2. /\ InHand(h, pc[p], loc[p]) = One(h, NoPage) + One(h, NoPage) + One(h, NoPage)
            /\ InHand(h, l, r) = One(h, g) + One(h, NoPage) + One(h, NoPage)
        BY <1>2, <2>2, <3>2 DEF InHand
      <4> QED BY <4>1, <4>2
    <3> QED BY <2>5, <3>1, <3>3, RefInt
  <2> QED BY <1>1, <2>1, <2>5, <2>6, <2>7, <2>8, <2>10, <2>11, <2>12, Renews
<1>5. ASSUME KallocFails, AfterNoTable(p), UNCHANGED tables
      PROVE  CountInv'
  <2>1. CASE loc[p].op = "fork" /\ Goto(p, "undo")
    <3>1. GotoWith(p, "undo", loc[p])
      BY <2>1, GotoIsGotoWith DEF TypeInv, TypeOK
    <3>2. HandOK(p)'
      BY <1>1, <1>2, <2>1, <3>1, CalmHands
    <3> QED BY <1>1, <1>2, <1>5, <3>1, <3>2, SameTables, Quiet DEF KallocFails
  <2>2. CASE Return(p)
    BY <1>1, <1>2, <1>5, <2>2, SameTables, Ends DEF KallocFails
  <2>3. CASE Panic("userinit")
    BY <1>1, <1>5, <2>3, Still DEF KallocFails, Panic
  <2> QED BY <1>5, <2>1, <2>2, <2>3 DEF AfterNoTable
<1> QED BY <1>4, <1>5 DEF SetupDir

-----------------------------------------------------------------------------
(* A directory moves from a system call's hand to a slot, or back. *)

(* Nothing in hand but the directory.                                        *)
LEMMA DirInHand ==
    ASSUME NEW CONSTANT g \in Pages, NEW l, NEW r, l # "decr", r.pg = NoPage
    PROVE  InHand(g, l, r) = One(g, r.pd) /\ One(g, r.pd) \in Nat
<1>1. One(g, NoPage) = 0 /\ One(g, r.pd) \in Nat
  BY OneNat, CowAssumption DEF One
<1>2. Gives(l, r) = NoPage
  BY DEF Gives
<1>3. InHand(g, l, r) = One(g, r.pd) + One(g, NoPage) + One(g, NoPage)
  BY <1>2 DEF InHand
<1> QED BY <1>1, <1>3

(* The slot of q takes the directory a; p gives one, or keeps the old one.   *)
DirGoes(p, q, a, r) ==
    \A g \in Pages : One(g, pgdir[q]) + One(g, loc[p].pd) = One(g, a) + One(g, r.pd)

SlotBalanced(p, l, r) ==
    \A g \in Pages : pgrefc'[g] + SlotN(g) + InHand(g, pc[p], loc[p])
                        = pgrefc[g] + SlotN(g)' + InHand(g, l, r)

LEMMA Installs ==
    ASSUME TypeInv, TypeOK', NEW p \in Procs, NEW q \in Procs, NEW a, NEW l, NEW r,
           pgdir' = [pgdir EXCEPT ![q] = a], UNCHANGED kstack,
           pc[p] # "decr", l # "decr", loc[p].pg = NoPage, r.pg = NoPage,
           \A g \in Pages : pgrefc'[g] = pgrefc[g], DirGoes(p, q, a, r)
    PROVE  SlotBalanced(p, l, r)
<1> SUFFICES ASSUME NEW CONSTANT g \in Pages
             PROVE  pgrefc'[g] + SlotN(g) + InHand(g, pc[p], loc[p])
                      = pgrefc[g] + SlotN(g)' + InHand(g, l, r)
  BY DEF SlotBalanced
<1>1. DirN(g)' = DirN(g) + One(g, a) - One(g, pgdir[q])
  BY DirMoves DEF TypeInv, TypeOK
<1>2. StackN(g)' = StackN(g)
  BY DEF StackN
<1>3. InHand(g, pc[p], loc[p]) = One(g, loc[p].pd) /\ InHand(g, l, r) = One(g, r.pd)
  BY DirInHand
<1>4. pgrefc'[g] = pgrefc[g] /\ One(g, pgdir[q]) + One(g, loc[p].pd) = One(g, a) + One(g, r.pd)
  BY DEF DirGoes
<1>5. One(g, pgdir[q]) \in Nat /\ One(g, loc[p].pd) \in Nat /\ One(g, a) \in Nat /\ One(g, r.pd) \in Nat
  BY OneNat
<1> QED BY <1>1, <1>2, <1>3, <1>4, <1>5, SlotParts, RefInt

LEMMA InitDoneCounts ==
    ASSUME TypeInv, CountInv, TypeOK', NEW p \in Procs, InitDone(p)
    PROVE  CountInv'
<1>1. /\ pc[p] = "alloc" /\ loc[p].op = "init" /\ Return(p)
      /\ pgdir' = [pgdir EXCEPT ![p] = loc[p].pd] /\ state' = [state EXCEPT ![p] = "RUNNABLE"]
      /\ UNCHANGED <<kmem, tables, kstack>>
  BY DEF InitDone, Allocated, At
<1>2. loc[p].pd \in Pages /\ loc[p].pg = NoPage /\ state[p] = "EMBRYO" /\ pgdir[p] = NoPage
  <2>1. LocalsOK(pc[p], loc[p])
    BY LocalsOf
  <2> QED BY <1>1, <2>1, InitOf, HoldsNone DEF LocalsOK, CountInv, Hands, HandOK, SlotGiven
<1>3. NoLoc.op = "none" /\ NoLoc.pd = NoPage /\ NoLoc.pg = NoPage
  BY DEF NoLoc
<1>4. /\ pc'[p] = "user" /\ loc'[p] = NoLoc /\ state'[p] = "RUNNABLE" /\ pgdir'[p] = loc[p].pd
      /\ \A q \in Procs : q # p => /\ pc'[q] = pc[q] /\ loc'[q] = loc[q]
                                   /\ state'[q] = state[q] /\ pgdir'[q] = pgdir[q]
  BY <1>1 DEF Return, GotoWith, TypeInv, TypeOK, LocalType, PtableType
<1>5. PtSame /\ UNCHANGED <<utab, ktab>> /\ HandTurn(p, "user", NoLoc)
  BY <1>1, <1>4, SameTables DEF HandTurn
<1>6. OneOwner'
  BY <1>2, <1>3, <1>4, CowAssumption DEF CountInv, OneOwner
<1>7. ASSUME NEW q \in Procs, q # p
      PROVE  HandOK(q)' /\ Pend(q)' = Pend(q)
  <2>1. HandOK(q)
    BY DEF CountInv, Hands
  <2>2. loc[q].op = "wait" => loc[q].np \in Procs /\ loc[q].np # p
    BY <1>2, <1>7, WaitOf
  <2>3. loc[q].op = "wait" => pgdir'[loc[q].np] = pgdir[loc[q].np]
    BY <1>4, <2>2
  <2> QED BY <1>1, <1>4, <1>5, <1>7, <2>1, <2>3, OtherHands DEF PtSame
<1>8. HandOK(p)'
  BY <1>3, <1>4 DEF HandOK, PageHeld, SlotGiven, StackDue, CopyDue, FaultDue
<1>9. Hands' /\ OthersPend(p)
  BY <1>7, <1>8 DEF Hands, OthersPend
<1>10. FreeZero' /\ \A g \in Pages : pgrefc'[g] = pgrefc[g]
  BY <1>1, KmemKept
<1>11. \A d \in Pages : DirHeld(d) => DirHeld(d)'
  <2> SUFFICES ASSUME NEW d \in Pages, NEW q \in Procs, pgdir[q] = d \/ loc[q].pd = d
               PROVE  pgdir'[q] = d \/ loc'[q].pd = d
    BY DEF DirHeld
  <2> QED BY <1>2, <1>4, CowAssumption
<1>12. DirGoes(p, p, loc[p].pd, NoLoc)
  BY <1>2, <1>3, OneNat DEF DirGoes
<1>13. SlotBalanced(p, "user", NoLoc)
  BY <1>1, <1>2, <1>3, <1>10, <1>12, Installs
<1> QED BY <1>1, <1>5, <1>6, <1>9, <1>10, <1>11, <1>13, Renews DEF SlotBalanced

(* exec's new image goes in, the old one is in hand to be freed.             *)
LEMMA ExecCommitCounts ==
    ASSUME TypeInv, CountInv, TypeOK', NEW p \in Procs, ExecCommit(p)
    PROVE  CountInv'
<1> DEFINE r == [NoLoc EXCEPT !.op = "exec", !.pd = pgdir[p]]
<1>1. /\ pc[p] = "alloc" /\ loc[p].op = "exec" /\ GotoWith(p, "freevm", r)
      /\ pt' = [pt EXCEPT ![loc[p].pd][TextSz].u = FALSE]
      /\ pgdir' = [pgdir EXCEPT ![p] = loc[p].pd]
      /\ UNCHANGED <<kmem, utab, ktab, state, kstack>>
  BY DEF ExecCommit, Allocated, At
<1>2. loc[p].pd \in Pages /\ loc[p].pg = NoPage /\ pgdir[p] \in Pages /\ state[p] = "RUNNABLE"
  BY <1>1, LocalsOf, RunnableOf, HoldsNone DEF LocalsOK
<1>3. r.op = "exec" /\ r.pd = pgdir[p] /\ r.pg = NoPage
  BY DEF NoLoc
<1> HIDE DEF r
<1>4. /\ pc'[p] = "freevm" /\ loc'[p] = r /\ pgdir'[p] = loc[p].pd
      /\ \A q \in Procs : q # p => pc'[q] = pc[q] /\ loc'[q] = loc[q] /\ pgdir'[q] = pgdir[q]
  BY <1>1 DEF GotoWith, TypeInv, TypeOK, LocalType, PtableType
<1>5. PtSame
  BY <1>1, <1>2, PteOf DEF PtSame, Ptes, TypeInv, TypeOK, TablesType
<1>6. HandTurn(p, "freevm", r)
  BY <1>4 DEF HandTurn
<1>7. OneOwner'
  BY <1>2, <1>3, <1>4 DEF CountInv, OneOwner
<1>8. ASSUME NEW q \in Procs, q # p
      PROVE  HandOK(q)' /\ Pend(q)' = Pend(q)
  <2>1. HandOK(q)
    BY DEF CountInv, Hands
  <2>2. loc[q].op = "wait" => loc[q].np \in Procs /\ loc[q].np # p
    BY <1>2, <1>8, WaitOf
  <2>3. loc[q].op = "wait" => pgdir'[loc[q].np] = pgdir[loc[q].np]
    BY <1>4, <2>2
  <2> QED BY <1>1, <1>4, <1>5, <1>8, <2>1, <2>3, OtherHands DEF PtSame
<1>9. HandOK(p)'
  BY <1>1, <1>2, <1>3, <1>4 DEF HandOK, PageHeld, SlotGiven, StackDue, CopyDue, FaultDue
<1>10. Hands' /\ OthersPend(p)
  BY <1>8, <1>9 DEF Hands, OthersPend
<1>11. FreeZero' /\ \A g \in Pages : pgrefc'[g] = pgrefc[g]
  BY <1>1, KmemKept
<1>12. \A d \in Pages : DirHeld(d) => DirHeld(d)'
  <2> SUFFICES ASSUME NEW d \in Pages, NEW q \in Procs, pgdir[q] = d \/ loc[q].pd = d
               PROVE  pgdir'[q] = d \/ loc'[q].pd = d
    BY DEF DirHeld
  <2> QED BY <1>3, <1>4
<1>13. DirGoes(p, p, loc[p].pd, r)
  BY <1>3, OneNat DEF DirGoes
<1>14. SlotBalanced(p, "freevm", r)
  BY <1>1, <1>2, <1>3, <1>11, <1>13, Installs
<1> QED BY <1>1, <1>5, <1>6, <1>7, <1>10, <1>11, <1>12, <1>14, Renews DEF SlotBalanced

(* The child of a fork gets the directory copyuvm filled.                    *)
LEMMA ForkCommitCounts ==
    ASSUME TypeInv, CountInv, TypeOK', NEW p \in Procs, ForkCommit(p)
    PROVE  CountInv'
<1> DEFINE np == loc[p].np
<1>1. /\ pc[p] = "commit" /\ loc[p].op = "fork"
      /\ pgdir' = [pgdir EXCEPT ![np] = loc[p].pd] /\ state' = [state EXCEPT ![np] = "RUNNABLE"]
      /\ pc'  = [pc  EXCEPT ![np] = "user", ![p] = "user"]
      /\ loc' = [loc EXCEPT ![np] = NoLoc, ![p] = NoLoc]
      /\ UNCHANGED <<kmem, tables, kstack>>
  BY DEF ForkCommit, At
<1>2. loc[p].pd \in Pages /\ loc[p].pg = NoPage
  BY <1>1, LocalsOf, HoldsNone DEF LocalsOK
<1>3. /\ np \in Procs /\ np # p /\ state[np] = "EMBRYO" /\ pc[np] = "none"
      /\ loc[np] = NoLoc /\ pgdir[np] = NoPage
  <2>1. np \in Procs /\ np # p /\ state[np] = "EMBRYO" /\ pc[np] = "none" /\ loc[np].op = "none"
    BY <1>1, ForkOf, IdleOf
  <2>2. loc[np] = NoLoc
    BY <2>1, LocalsOf DEF LocalsOK
  <2> QED BY <2>1, <2>2 DEF CountInv, Hands, HandOK, SlotGiven
<1>4. NoLoc.op = "none" /\ NoLoc.pd = NoPage /\ NoLoc.pg = NoPage
  BY DEF NoLoc
<1>5. /\ pc'[p] = "user" /\ loc'[p] = NoLoc /\ pc'[np] = "user"
      /\ state'[np] = "RUNNABLE" /\ pgdir'[np] = loc[p].pd
      /\ \A q \in Procs : q # p => loc'[q] = loc[q]
      /\ \A q \in Procs : q \notin {p, np} => pc'[q] = pc[q]
      /\ \A q \in Procs : q # np => state'[q] = state[q] /\ pgdir'[q] = pgdir[q]
  BY <1>1, <1>3 DEF TypeInv, TypeOK, LocalType, PtableType
<1>6. PtSame /\ UNCHANGED <<utab, ktab>> /\ HandTurn(p, "user", NoLoc)
  BY <1>1, <1>3, <1>5, SameTables DEF HandTurn
<1> HIDE DEF np
<1>7. OneOwner'
  BY <1>2, <1>3, <1>4, <1>5, CowAssumption DEF CountInv, OneOwner
<1>8. ASSUME NEW q \in Procs, q # p
      PROVE  HandOK(q)' /\ Pend(q)' = Pend(q)
  <2>1. HandOK(q)
    BY DEF CountInv, Hands
  <2>2. CASE q = np
    <3>1. HandOK(q)'
      BY <1>3, <1>4, <1>5, <2>2 DEF HandOK, PageHeld, SlotGiven, StackDue, CopyDue, FaultDue
    <3>2. Pend(q)' = Pend(q)
      BY <1>3, <1>5, <2>2 DEF Pend
    <3> QED BY <3>1, <3>2
  <2>3. CASE q # np
    <3>1. loc[q].op = "wait" => loc[q].np \in Procs /\ loc[q].np # np
      BY <1>3, <1>8, WaitOf
    <3>2. loc[q].op = "wait" => pgdir'[loc[q].np] = pgdir[loc[q].np]
      BY <1>5, <3>1
    <3> QED BY <1>1, <1>5, <1>6, <1>8, <2>1, <2>3, <3>2, OtherHands DEF PtSame
  <2> QED BY <2>2, <2>3
<1>9. HandOK(p)'
  <2>1. HandOK(p)
    BY DEF CountInv, Hands
  <2> QED BY <1>1, <1>3, <1>4, <1>5, <2>1
          DEF HandOK, PageHeld, SlotGiven, StackDue, CopyDue, FaultDue
<1>10. Hands' /\ OthersPend(p)
  BY <1>8, <1>9 DEF Hands, OthersPend
<1>11. FreeZero' /\ \A g \in Pages : pgrefc'[g] = pgrefc[g]
  BY <1>1, KmemKept
<1>12. \A d \in Pages : DirHeld(d) => DirHeld(d)'
  <2> SUFFICES ASSUME NEW d \in Pages, NEW q \in Procs, pgdir[q] = d \/ loc[q].pd = d
               PROVE  \E o \in Procs : pgdir'[o] = d \/ loc'[o].pd = d
    BY DEF DirHeld
  <2> QED BY <1>3, <1>5, CowAssumption
<1>13. DirGoes(p, np, loc[p].pd, NoLoc)
  BY <1>3, <1>4, OneNat DEF DirGoes
<1>14. SlotBalanced(p, "user", NoLoc)
  BY <1>1, <1>2, <1>3, <1>4, <1>11, <1>13, Installs DEF np
<1> QED BY <1>1, <1>6, <1>7, <1>10, <1>11, <1>12, <1>14, Renews DEF SlotBalanced

-----------------------------------------------------------------------------
(* Steps that empty a slot. *)

(* Two allocprocs are never at work on one slot.                             *)
LEMMA StackSlot ==
    ASSUME TypeInv, NEW np \in Procs, pc[np] = "none", NEW p \in Procs,
           loc[p].op = "fork", loc[p].np = np, pc[p] # "kstack",
           NEW q \in Procs, pc[q] = "kstack"
    PROVE  loc[q].np \in Procs /\ loc[q].np # np
<1>1. loc[q].op \in {"init", "fork"}
  BY LocalsOf DEF LocalsOK, OpAt, Locs, Ops
<1>2. CASE loc[q].op = "init"
  BY <1>2, InitOf
<1>3. CASE loc[q].op = "fork"
  BY <1>3, ForkOf
<1> QED BY <1>1, <1>2, <1>3

LEMMA ForkUndoCounts ==
    ASSUME TypeInv, CountInv, TypeOK', NEW p \in Procs, ForkUndo(p)
    PROVE  CountInv'
<1> DEFINE np == loc[p].np
           g0 == kstack[np]
<1>1. /\ pc[p] = "undo" /\ Kfree(g0) /\ Return(p)
      /\ kstack' = [kstack EXCEPT ![np] = NoPage]
      /\ state'  = [state EXCEPT ![np] = "UNUSED"]
      /\ UNCHANGED <<tables, pgdir>>
  BY DEF ForkUndo, At
<1>2. loc[p].op = "fork" /\ loc[p].pd = NoPage /\ loc[p].pg = NoPage
  BY <1>1, LocalsOf, NoDirOf, HoldsNone DEF LocalsOK, OpAt, Locs, Ops
<1>3. /\ np \in Procs /\ np # p /\ state[np] = "EMBRYO" /\ g0 \in Pages
      /\ pc[np] = "none" /\ loc[np].op = "none" /\ pgdir[np] = NoPage
  BY <1>1, <1>2, ForkOf, IdleOf DEF CountInv, Hands, HandOK, SlotGiven
<1>4. NoLoc.op = "none" /\ NoLoc.pd = NoPage /\ NoLoc.pg = NoPage
  BY DEF NoLoc
<1>5. /\ pc'[p] = "user" /\ loc'[p] = NoLoc /\ state'[np] = "UNUSED" /\ kstack'[np] = NoPage
      /\ \A q \in Procs : q # p => pc'[q] = pc[q] /\ loc'[q] = loc[q]
      /\ \A q \in Procs : q # np => state'[q] = state[q] /\ kstack'[q] = kstack[q]
  BY <1>1, <1>3 DEF Return, GotoWith, TypeInv, TypeOK, LocalType, PtableType
<1>6. PtSame /\ UNCHANGED <<utab, ktab>> /\ HandTurn(p, "user", NoLoc)
  BY <1>1, <1>5, SameTables DEF HandTurn
<1>7. OneOwner' /\ \A d \in Pages : DirHeld(d) => DirHeld(d)'
  <2>1. \A q \in Procs : loc'[q].pd = loc[q].pd
    BY <1>2, <1>4, <1>5
  <2> QED BY <1>1, <2>1 DEF CountInv, OneOwner, DirHeld
<1>8. FreeZero' /\ \A g \in Pages : pgrefc'[g] = pgrefc[g] - One(g, g0)
  <2>1. InUse(g0)
    BY <1>3 DEF InUse, InSlots
  <2> QED BY <1>1, <1>3, <2>1, KfreeCounts
<1>9. SlotBalanced(p, "user", NoLoc)
  <2> SUFFICES ASSUME NEW CONSTANT g \in Pages
               PROVE  pgrefc'[g] + SlotN(g) + InHand(g, pc[p], loc[p])
                        = pgrefc[g] + SlotN(g)' + InHand(g, "user", NoLoc)
    BY DEF SlotBalanced
  <2>1. StackN(g)' = StackN(g) + One(g, NoPage) - One(g, g0)
    BY <1>1, <1>3, StackMoves DEF TypeInv, TypeOK
  <2>2. DirN(g)' = DirN(g)
    BY <1>1 DEF DirN
  <2>3. InHand(g, pc[p], loc[p]) = One(g, loc[p].pd) /\ InHand(g, "user", NoLoc) = One(g, NoLoc.pd)
    BY <1>1, <1>2, <1>4, DirInHand
  <2> QED BY <1>2, <1>4, <1>8, <2>1, <2>2, <2>3, SlotParts, RefInt
<1>10. ASSUME NEW q \in Procs, q # p
       PROVE  HandOK(q)' /\ Pend(q)' = Pend(q)
  <2>1. HandOK(q)
    BY DEF CountInv, Hands
  <2>2. CASE q = np
    <3>1. HandOK(q)'
      BY <1>1, <1>3, <1>5, <1>10, <2>1, <2>2
         DEF HandOK, PageHeld, SlotGiven, StackDue, CopyDue, FaultDue
    <3>2. Pend(q)' = Pend(q)
      BY <1>3, <1>5, <1>10, <2>2 DEF Pend
    <3> QED BY <3>1, <3>2
  <2>3. CASE q # np
    <3>1. loc[q].op = "wait" => loc[q].np \in Procs /\ loc[q].np # np
      BY <1>3, WaitOf
    <3>2. pc[q] = "kstack" => loc[q].np \in Procs /\ loc[q].np # np
      BY <1>1, <1>2, <1>3, StackSlot
    <3>3. /\ loc[q].op = "wait" => /\ kstack'[loc[q].np] = kstack[loc[q].np]
                                   /\ pgdir'[loc[q].np] = pgdir[loc[q].np]
          /\ pc[q] = "kstack" => kstack'[loc[q].np] = kstack[loc[q].np]
      BY <1>1, <1>5, <3>1, <3>2
    <3> HIDE DEF np
    <3> QED BY <1>1, <1>5, <1>6, <1>10, <2>1, <2>3, <3>3, OtherHands DEF PtSame
  <2> QED BY <2>2, <2>3
<1>11. HandOK(p)'
  <2>1. HandOK(p)
    BY DEF CountInv, Hands
  <2> QED BY <1>1, <1>3, <1>4, <1>5, <2>1
          DEF HandOK, PageHeld, SlotGiven, StackDue, CopyDue, FaultDue
<1>12. Hands' /\ OthersPend(p)
  BY <1>10, <1>11 DEF Hands, OthersPend
<1> QED BY <1>1, <1>6, <1>7, <1>8, <1>9, <1>12, Renews DEF SlotBalanced

LEMMA ExitCounts ==
    ASSUME TypeInv, CountInv, TypeOK', NEW p \in Procs, Exit(p)
    PROVE  CountInv'
<1>1. pc[p] = "user" /\ UNCHANGED <<kmem, tables, pgdir, kstack>>
  BY DEF Exit, At
<1>2. CASE Panic("init exiting") /\ UNCHANGED state
  BY <1>1, <1>2, Still DEF Panic
<1>3. ASSUME state' = [state EXCEPT ![p] = "ZOMBIE"], GotoWith(p, "none", NoLoc)
      PROVE  CountInv'
  <2>1. loc[p] = NoLoc /\ NoLoc.op = "none" /\ NoLoc.pd = NoPage /\ NoLoc.pg = NoPage
    BY <1>1, UserOf
  <2>2. /\ pc'[p] = "none" /\ loc'[p] = loc[p] /\ state'[p] = "ZOMBIE"
        /\ \A q \in Procs : q # p => /\ pc'[q] = pc[q] /\ loc'[q] = loc[q] /\ state'[q] = state[q]
    BY <1>3, <2>1 DEF GotoWith, TypeInv, TypeOK, LocalType, PtableType
  <2>3. PtSame /\ UNCHANGED <<utab, ktab>> /\ HandTurn(p, "none", loc[p])
    BY <1>1, <2>2, SameTables DEF HandTurn
  <2>4. OneOwner' /\ \A d \in Pages : DirHeld(d) => DirHeld(d)'
    <3>1. \A q \in Procs : loc'[q].pd = loc[q].pd
      BY <2>2
    <3> QED BY <1>1, <3>1 DEF CountInv, OneOwner, DirHeld
  <2>5. ASSUME NEW q \in Procs, q # p
        PROVE  HandOK(q)' /\ Pend(q)' = Pend(q)
    <3>1. HandOK(q)
      BY DEF CountInv, Hands
    <3> QED BY <1>1, <2>2, <2>3, <2>5, <3>1, OtherHands DEF PtSame
  <2>6. HandOK(p)'
    BY <2>1, <2>2 DEF HandOK, PageHeld, SlotGiven, StackDue, CopyDue, FaultDue
  <2>7. Hands' /\ OthersPend(p)
    BY <2>5, <2>6 DEF Hands, OthersPend
  <2>8. FreeZero' /\ \A g \in Pages : pgrefc'[g] = pgrefc[g]
    BY <1>1, KmemKept
  <2>9. SlotBalanced(p, "none", loc[p])
    <3> SUFFICES ASSUME NEW CONSTANT g \in Pages
                 PROVE  pgrefc'[g] + SlotN(g) + InHand(g, pc[p], loc[p])
                          = pgrefc[g] + SlotN(g)' + InHand(g, "none", loc[p])
      BY DEF SlotBalanced
    <3>1. SlotN(g)' = SlotN(g)
      BY <1>1, SlotSame
    <3>2. InHand(g, pc[p], loc[p]) = InHand(g, "none", loc[p])
      BY <1>1 DEF InHand, Gives
    <3> QED BY <2>8, <3>1, <3>2
  <2> QED BY <1>1, <2>3, <2>4, <2>7, <2>8, <2>9, Renews DEF SlotBalanced
<1> QED BY <1>2, <1>3 DEF Exit

(* wait frees the zombie's stack and takes its directory in hand.            *)
LEMMA WaitCounts ==
    ASSUME TypeInv, CountInv, TypeOK', NEW p \in Procs, Wait(p)
    PROVE  CountInv'
<1>1. pc[p] = "user" /\ PtableFree /\ UNCHANGED <<tables, state>>
  BY DEF Wait, At
<1>2. PICK c \in Procs :
        /\ state[c] = "ZOMBIE" /\ Kfree(kstack[c])
        /\ GotoWith(p, "freevm", [NoLoc EXCEPT !.op = "wait", !.np = c, !.pd = pgdir[c]])
        /\ kstack' = [kstack EXCEPT ![c] = NoPage]
        /\ pgdir'  = [pgdir  EXCEPT ![c] = NoPage]
  BY DEF Wait
<1>3. /\ loc[p].op = "none" /\ loc[p].pd = NoPage /\ loc[p].pg = NoPage
      /\ \A q \in Procs : loc[q].op # "wait"
  BY <1>1, UserOf DEF PtableFree, Reaping
<1>4. c # p /\ pc[c] = "none" /\ loc[c].op = "none"
  BY <1>1, <1>2, IdleOf
<1>5. pgdir[c] \in Pages /\ kstack[c] \in Pages
  BY <1>2, <1>3, ZombieOf
<1> DEFINE r == [NoLoc EXCEPT !.op = "wait", !.np = c, !.pd = pgdir[c]]
<1>6. r.op = "wait" /\ r.np = c /\ r.pd = pgdir[c] /\ r.pg = NoPage /\ GotoWith(p, "freevm", r)
  BY <1>2 DEF NoLoc
<1> HIDE DEF r
<1>7. /\ pc'[p] = "freevm" /\ loc'[p] = r /\ kstack'[c] = NoPage /\ pgdir'[c] = NoPage
      /\ \A q \in Procs : q # p => pc'[q] = pc[q] /\ loc'[q] = loc[q]
      /\ \A q \in Procs : q # c => pgdir'[q] = pgdir[q] /\ kstack'[q] = kstack[q]
  BY <1>2, <1>6 DEF GotoWith, TypeInv, TypeOK, LocalType, PtableType
<1>8. PtSame /\ UNCHANGED <<utab, ktab>> /\ HandTurn(p, "freevm", r)
  BY <1>1, <1>7, SameTables DEF HandTurn
<1>9. OneOwner'
  <2>1. \A q \in Procs : loc'[q].pd = IF q = p THEN pgdir[c] ELSE loc[q].pd
    BY <1>6, <1>7
  <2>2. \A q \in Procs : pgdir'[q] = IF q = c THEN NoPage ELSE pgdir[q]
    BY <1>7
  <2> QED BY <1>5, <2>1, <2>2, CowAssumption DEF CountInv, OneOwner
<1>10. \A d \in Pages : DirHeld(d) => DirHeld(d)'
  <2> SUFFICES ASSUME NEW d \in Pages, NEW q \in Procs, pgdir[q] = d \/ loc[q].pd = d
               PROVE  \E o \in Procs : pgdir'[o] = d \/ loc'[o].pd = d
    BY DEF DirHeld
  <2> QED BY <1>3, <1>6, <1>7, CowAssumption
<1>11. FreeZero' /\ \A g \in Pages : pgrefc'[g] = pgrefc[g] - One(g, kstack[c])
  <2>1. InUse(kstack[c])
    BY DEF InUse, InSlots
  <2> QED BY <1>2, <1>5, <2>1, KfreeCounts
<1>12. SlotBalanced(p, "freevm", r)
  <2> SUFFICES ASSUME NEW CONSTANT g \in Pages
               PROVE  pgrefc'[g] + SlotN(g) + InHand(g, pc[p], loc[p])
                        = pgrefc[g] + SlotN(g)' + InHand(g, "freevm", r)
    BY DEF SlotBalanced
  <2>1. StackN(g)' = StackN(g) + One(g, NoPage) - One(g, kstack[c])
    BY <1>2, StackMoves DEF TypeInv, TypeOK
  <2>2. DirN(g)' = DirN(g) + One(g, NoPage) - One(g, pgdir[c])
    BY <1>2, DirMoves DEF TypeInv, TypeOK
  <2>3. InHand(g, pc[p], loc[p]) = One(g, NoPage) /\ InHand(g, "freevm", r) = One(g, pgdir[c])
    BY <1>1, <1>3, <1>6, DirInHand
  <2> QED BY <1>11, <2>1, <2>2, <2>3, SlotParts, RefInt
<1>13. ASSUME NEW q \in Procs, q # p
       PROVE  HandOK(q)' /\ Pend(q)' = Pend(q)
  <2>1. HandOK(q)
    BY DEF CountInv, Hands
  <2>2. CASE q = c
    <3>1. HandOK(q)'
      BY <1>1, <1>2, <1>4, <1>7, <1>13, <2>1, <2>2
         DEF HandOK, PageHeld, SlotGiven, StackDue, CopyDue, FaultDue
    <3>2. Pend(q)' = Pend(q)
      BY <1>4, <1>7, <1>13, <2>2 DEF Pend
    <3> QED BY <3>1, <3>2
  <2>3. CASE q # c
    <3>1. pc[q] = "kstack" => loc[q].np \in Procs /\ loc[q].np # c
      <4>1. pc[q] = "kstack" => loc[q].op \in {"init", "fork"}
        BY LocalsOf DEF LocalsOK, OpAt, Locs, Ops
      <4> QED BY <1>2, <2>3, <4>1, InitOf, ForkOf
    <3>2. pc[q] = "kstack" => kstack'[loc[q].np] = kstack[loc[q].np]
      BY <1>7, <3>1
    <3> QED BY <1>1, <1>3, <1>7, <1>8, <1>13, <2>1, <2>3, <3>2, OtherHands DEF PtSame
  <2> QED BY <2>2, <2>3
<1>14. HandOK(p)'
  <2>1. HandOK(p) /\ state'[p] = state[p]
    BY <1>1 DEF CountInv, Hands
  <2> QED BY <1>4, <1>6, <1>7, <2>1
          DEF HandOK, PageHeld, SlotGiven, StackDue, CopyDue, FaultDue
<1>15. Hands' /\ OthersPend(p)
  BY <1>13, <1>14 DEF Hands, OthersPend
<1> QED BY <1>1, <1>8, <1>9, <1>10, <1>11, <1>12, <1>15, Renews DEF SlotBalanced

(* The end of freevm: the directory itself.                                  *)
LEMMA FreeDirCounts ==
    ASSUME TypeInv, CountInv, TypeOK', NEW p \in Procs, FreeDir(p)
    PROVE  CountInv'
<1> DEFINE g0 == loc[p].pd
           np == loc[p].np
<1>1. /\ pc[p] = "freevm" /\ Kfree(g0) /\ UNCHANGED <<tables, pgdir, kstack>>
      /\ Mapped(g0, 0, MaxSz) = {} /\ utab[g0] = NoPage /\ ktab[g0] = {}
  BY DEF FreeDir, At
<1>2. loc[p] \in Locs /\ g0 \in Pages /\ loc[p].op \in {"fork", "exec", "wait"} /\ loc[p].pg = NoPage
  BY <1>1, LocalsOf, HoldsNone DEF LocalsOK, OpAt, Locs, Ops
<1>3. PtSame /\ UNCHANGED <<utab, ktab>>
  BY <1>1, SameTables
<1>4. \A v \in VA : pt[g0][v].pa = NoPage
  BY <1>1, CowAssumption DEF Mapped, VA
<1>5. FreeZero' /\ \A g \in Pages : pgrefc'[g] = pgrefc[g] - One(g, g0)
  <2>1. InUse(g0)
    BY DEF InUse, InHands
  <2> QED BY <1>1, <1>2, <2>1, KfreeCounts
<1>6. HandOK(p) /\ \A q \in Procs : HandOK(q)
  BY DEF CountInv, Hands
<1>7. ASSUME NEW l \in {"undo", "user"}, NEW r, GotoWith(p, l, r), r.pd = NoPage, r.pg = NoPage,
             Hands', OthersPend(p)
      PROVE  CountInv'
  <2>1. pc'[p] = l /\ loc'[p] = r /\ \A q \in Procs : q # p => pc'[q] = pc[q] /\ loc'[q] = loc[q]
    BY <1>7 DEF GotoWith, TypeInv, TypeOK, LocalType
  <2>2. HandTurn(p, l, r)
    BY <2>1 DEF HandTurn
  <2>3. \A q \in Procs : loc'[q].pd = IF q = p THEN NoPage ELSE loc[q].pd
    BY <1>7, <2>1
  <2>4. OneOwner'
    BY <1>1, <2>3, CowAssumption DEF CountInv, OneOwner
  <2>5. ASSUME NEW d \in Pages, DirHeld(d), ~DirHeld(d)'
        PROVE  (\A v \in VA : pt[d][v].pa = NoPage) /\ utab[d] = NoPage /\ ktab[d] = {}
    <3>1. d = g0
      BY <1>1, <2>3, <2>5 DEF DirHeld
    <3> QED BY <1>1, <1>4, <3>1
  <2>6. SlotBalanced(p, l, r)
    <3> SUFFICES ASSUME NEW CONSTANT g \in Pages
                 PROVE  pgrefc'[g] + SlotN(g) + InHand(g, pc[p], loc[p])
                          = pgrefc[g] + SlotN(g)' + InHand(g, l, r)
      BY DEF SlotBalanced
    <3>1. SlotN(g)' = SlotN(g) /\ SlotN(g) \in Nat
      BY <1>1, SlotSame, PartsNext
    <3>2. InHand(g, pc[p], loc[p]) = One(g, g0) /\ InHand(g, l, r) = One(g, NoPage)
      BY <1>1, <1>2, <1>7, DirInHand
    <3> QED BY <1>5, <3>1, <3>2, RefInt
  <2> QED BY <1>1, <1>3, <1>5, <1>7, <2>2, <2>4, <2>5, <2>6, Renews DEF SlotBalanced
<1>8. CASE loc[p].op = "fork" /\ GotoWith(p, "undo", [loc[p] EXCEPT !.pd = NoPage]) /\ UNCHANGED state
  <2> DEFINE r == [loc[p] EXCEPT !.pd = NoPage]
  <2>1. r.op = "fork" /\ r.pd = NoPage /\ r.pg = NoPage /\ GotoWith(p, "undo", r)
    BY <1>2, <1>8, PdUpdate
  <2> HIDE DEF r
  <2>2. \A q \in Procs : q # p => pc'[q] = pc[q] /\ loc'[q] = loc[q]
    BY <2>1 DEF GotoWith, TypeInv, TypeOK, LocalType
  <2>3. HandOK(p)'
    BY <1>1, <1>8, <2>1, CalmHands
  <2>4. Hands' /\ OthersPend(p)
    BY <1>1, <1>3, <1>8, <2>2, <2>3, OthersKeep
  <2> QED BY <1>7, <2>1, <2>4
<1>9. NoLoc.op = "none" /\ NoLoc.pd = NoPage /\ NoLoc.pg = NoPage
  BY DEF NoLoc
<1>10. CASE loc[p].op = "exec" /\ Return(p) /\ UNCHANGED state
  <2>1. GotoWith(p, "user", NoLoc)
    BY <1>10 DEF Return
  <2>2. \A q \in Procs : q # p => pc'[q] = pc[q] /\ loc'[q] = loc[q]
    BY <2>1 DEF GotoWith, TypeInv, TypeOK, LocalType
  <2>3. HandOK(p)'
    BY <1>1, <1>9, <1>10, <2>1, CalmHands
  <2>4. Hands' /\ OthersPend(p)
    BY <1>1, <1>3, <1>10, <2>2, <2>3, OthersKeep
  <2> QED BY <1>7, <1>9, <2>1, <2>4
<1>11. ASSUME loc[p].op = "wait", Return(p), state' = [state EXCEPT ![np] = "UNUSED"]
       PROVE  CountInv'
  <2>1. GotoWith(p, "user", NoLoc)
    BY <1>11 DEF Return
  <2>2. /\ np \in Procs /\ np # p /\ state[np] = "ZOMBIE" /\ pc[np] = "none" /\ loc[np].op = "none"
        /\ kstack[np] = NoPage /\ pgdir[np] = NoPage
        /\ \A q \in Procs : q # p => loc[q].op # "wait"
    BY <1>6, <1>11, WaitOf, IdleOf DEF HandOK, StackDue
  <2>3. /\ pc'[p] = "user" /\ loc'[p] = NoLoc /\ state'[np] = "UNUSED"
        /\ \A q \in Procs : q # p => pc'[q] = pc[q] /\ loc'[q] = loc[q]
        /\ \A q \in Procs : q # np => state'[q] = state[q]
    BY <1>11, <2>1, <2>2 DEF GotoWith, TypeInv, TypeOK, LocalType, PtableType
  <2> HIDE DEF np
  <2>4. ASSUME NEW q \in Procs, q # p
        PROVE  HandOK(q)' /\ Pend(q)' = Pend(q)
    <3>1. CASE q = np
      <4>1. HandOK(q)'
        BY <1>1, <1>6, <2>2, <2>3, <2>4, <3>1
           DEF HandOK, PageHeld, SlotGiven, StackDue, CopyDue, FaultDue
      <4>2. Pend(q)' = Pend(q)
        BY <2>2, <2>3, <2>4, <3>1 DEF Pend
      <4> QED BY <4>1, <4>2
    <3>2. CASE q # np
      BY <1>1, <1>3, <1>6, <2>3, <2>4, <3>2, OtherHands DEF PtSame
    <3> QED BY <3>1, <3>2
  <2>5. HandOK(p)'
    BY <1>1, <1>6, <1>9, <2>2, <2>3 DEF HandOK, PageHeld, SlotGiven, StackDue, CopyDue, FaultDue
  <2>6. Hands' /\ OthersPend(p)
    BY <2>4, <2>5 DEF Hands, OthersPend
  <2> QED BY <1>7, <1>9, <2>1, <2>6
<1> QED BY <1>8, <1>10, <1>11 DEF FreeDir

-----------------------------------------------------------------------------
(* Every step, by the group of system calls it belongs to. *)
LEMMA StepCounts ==
    ASSUME TypeInv, CountInv, TypeOK', NEW p \in Procs, Step(p)
    PROVE  CountInv'
<1>1. CASE ForkStep(p)
  BY <1>1, ForkCounts, AllocKstackCounts, CopyPageCounts, CopyIncrCounts, CopyDoneCounts,
     ForkCommitCounts, ForkUndoCounts DEF ForkStep
<1>2. CASE BuildStep(p)
  BY <1>2, SetupDirCounts, SetupKptCounts, AllocPageCounts, MapPageCounts, AllocFailedCounts,
     InitDoneCounts DEF BuildStep
<1>3. CASE SbrkStep(p)
  BY <1>3, GrowCounts, GrowDoneCounts, ShrinkCounts, DeallocPageCounts, ShrinkDoneCounts
     DEF SbrkStep
<1>4. CASE ExecStep(p)
  BY <1>4, ExecCounts, ExecCommitCounts, ExecBadCounts DEF ExecStep
<1>5. CASE FreeStep(p)
  BY <1>5, FreePageCounts, FreeTableCounts, FreeDirCounts DEF FreeStep
<1>6. CASE LifeStep(p)
  BY <1>6, ExitCounts, WaitCounts DEF LifeStep
<1>7. CASE UserStep(p)
  BY <1>7, StoreCounts, FaultCounts DEF UserStep
<1>8. CASE CowStep(p)
  BY <1>8, CowOwnCounts, CowAllocCounts, CowMoveCounts, CowDecrCounts DEF CowStep
<1> QED BY <1>1, <1>2, <1>3, <1>4, <1>5, <1>6, <1>7, <1>8 DEF Step

(* After kinit2 every page is free and nothing uses one.                     *)
LEMMA InitCounts == Init => CountInv
<1> SUFFICES ASSUME Init
             PROVE  CountInv
  OBVIOUS
<1>1. /\ free = Pages /\ fpcnt = Cardinality(Pages)
      /\ pgrefc = [g \in Pages |-> 0]
      /\ pt = [d \in Pages |-> [v \in VA |-> NoPte]]
      /\ utab = [d \in Pages |-> NoPage] /\ ktab = [d \in Pages |-> {}]
      /\ pgdir = [p \in Procs |-> NoPage] /\ kstack = [p \in Procs |-> NoPage]
      /\ pc = [p \in Procs |-> IF p = InitProc THEN "kstack" ELSE "none"]
      /\ loc = [p \in Procs |-> IF p = InitProc
                  THEN [NoLoc EXCEPT !.op = "init", !.np = p, !.lim = 1] ELSE NoLoc]
  BY DEF Init
<1>2. \A p \in Procs : /\ pgdir[p] = NoPage /\ kstack[p] = NoPage
                       /\ pc[p] \in {"none", "kstack"}
                       /\ pc[p] = "kstack" => loc[p].np \in Procs
                       /\ loc[p].op \in {"none", "init"}
                       /\ loc[p].pd = NoPage /\ loc[p].pg = NoPage
  BY <1>1 DEF NoLoc
<1>3. \A d \in Pages : utab[d] = NoPage /\ ktab[d] = {} /\ \A v \in VA : pt[d][v].pa = NoPage
  BY <1>1 DEF NoPte
<1>4. FreeZero
  BY <1>1 DEF FreeZero
<1>5. OneOwner /\ Clear
  BY <1>2, <1>3, CowAssumption DEF OneOwner, Clear
<1>6. Hands
  BY <1>2 DEF Hands, HandOK, PageHeld, SlotGiven, StackDue, CopyDue, FaultDue
<1>7. Counts
  <2> SUFFICES ASSUME NEW g \in Pages
               PROVE  pgrefc[g] + Uncounted(g) = Uses(g)
    BY DEF Counts
  <2>1. pgrefc[g] = 0
    BY <1>1
  <2>2. ~InUse(g)
    BY <1>2, <1>3, CowAssumption DEF InUse, InTables, InSlots, InHands
  <2>3. Uses(g) = 0
    BY <2>2, UsesInUse
  <2>4. {p \in Procs : pc[p] = "incr" /\ pt[pgdir[p]][loc[p].i].pa = g} = {}
    BY <1>2
  <2>5. Uncounted(g) = 0
    BY <2>4, FS_EmptySet DEF Uncounted
  <2> QED BY <2>1, <2>3, <2>5
<1> QED BY <1>4, <1>5, <1>6, <1>7 DEF CountInv

(* The step that panics may leave a page in hand, but no count wrong: the    *)
(* invariant holds of a machine that has stopped, too.                       *)
LEMMA CountInvariant == Spec => [](RunInv /\ CountInv)
<1>1. Init => RunInv /\ CountInv
  BY InitTypeInv, InitCounts DEF TypeInv, RunInv
<1>2. RunInv /\ CountInv /\ [Next]_vars => (RunInv /\ CountInv)'
  <2> SUFFICES ASSUME RunInv, CountInv, [Next]_vars
               PROVE  (RunInv /\ CountInv)'
    OBVIOUS
  <2>1. CASE UNCHANGED vars
    <3>1. RunInv'
      BY <2>1, KmemSame, TablesSame, PtableSame, LocalSame, ControlSame
         DEF RunInv, TypeOK, vars, ptable
    <3>2. CountInv'
      BY <2>1, Still DEF vars, ptable
    <3> QED BY <3>1, <3>2
  <2>2. ASSUME panic = "none", NEW p \in Procs, Step(p)
        PROVE  (RunInv /\ CountInv)'
    <3>1. TypeInv
      BY <2>2 DEF RunInv, TypeInv
    <3>2. RunInv' /\ TypeOK'
      BY <2>2, <3>1, StepInv DEF RunInv
    <3>3. CountInv'
      BY <2>2, <3>1, <3>2, StepCounts
    <3> QED BY <3>2, <3>3
  <2> QED BY <2>1, <2>2 DEF Next, Halted
<1> QED BY <1>1, <1>2, PTL DEF Spec

(* kalloc.c: a page's reference count is the number of its uses, but for     *)
(* the reference copyuvm has mapped and not counted yet: whatever fork,      *)
(* exec, sbrk, exit, wait and the page faults of any number of processes do  *)
(* in between, kfree frees a page at its last use and never before.          *)
THEOREM RefcCorrect == Spec => []RefcExact
<1>1. CountInv => RefcExact
  BY DEF CountInv, Counts, RefcExact
<1> QED BY <1>1, CountInvariant, PTL

(* The free list has fpcnt pages, none of them in use: sys_countfp tells the *)
(* truth and kalloc never hands out a page that something still refers to.   *)
THEOREM FreeListCorrect == Spec => []FreeListSound
<1>1. RunInv /\ CountInv => FreeListSound
  <2> SUFFICES ASSUME RunInv, CountInv
               PROVE  FreeListSound
    OBVIOUS
  <2>1. KmemType
    BY DEF RunInv, TypeOK
  <2>2. free \in SUBSET Pages
    BY <2>1 DEF KmemType
  <2>3. fpcnt = Cardinality(free) /\ \A g \in free : pgrefc[g] = 0
    BY DEF CountInv, FreeZero
  <2> QED BY <2>1, <2>2, <2>3, ZeroCount DEF FreeListSound
<1> QED BY <1>1, CountInvariant, PTL

-----------------------------------------------------------------------------
(* No page is lost, with one processor. *)

(* A count of 0 is on the free list; one page-fault handler or wait at a     *)
(* time; a handler that found the page shared finds it shared to the end.    *)
ZeroFree == \A g \in Pages : pgrefc[g] = 0 => g \in free
OneCpu   == \A p, q \in Procs : HoldsCpu(p) /\ HoldsCpu(q) => p = q
SharedOn == \A p \in Procs : pc[p] \in {"dup", "move", "decr"} => pgrefc[loc[p].pa] > 1
LeakInv  == ZeroFree /\ OneCpu /\ SharedOn

(* What a step may do to the counts.                                         *)
Recounts(p) ==
    \/ UNCHANGED <<free, pgrefc>>
    \/ \E g \in Pages : Kalloc(g) \/ Kfree(g) \/ (IncrRefc(g) /\ UNCHANGED free)
    \/ pc[p] = "decr" /\ DecrRefc(loc[p].pa) /\ UNCHANGED free

LEMMA ZeroFreeKept ==
    ASSUME TypeInv, CountInv, LeakInv, NEW p \in Procs, Recounts(p)
    PROVE  ZeroFree'
<1>1. /\ pgrefc \in [Pages -> Int] /\ \A g \in Pages : pgrefc[g] \in Nat
      /\ free \in SUBSET Pages
  BY CountOf DEF TypeInv, TypeOK, KmemType
<1>2. CASE UNCHANGED <<free, pgrefc>>
  BY <1>2 DEF LeakInv, ZeroFree
<1>3. ASSUME NEW g \in Pages, Kalloc(g)
      PROVE  ZeroFree'
  BY <1>1, <1>3 DEF Kalloc, LeakInv, ZeroFree
<1>4. ASSUME NEW g \in Pages, Kfree(g)
      PROVE  ZeroFree'
  <2>1. pgrefc'[g] = 0 => free' = free \union {g}
    BY <1>4 DEF Kfree
  <2>2. free \subseteq free'
    BY <1>4 DEF Kfree
  <2>3. \A h \in Pages : h # g => pgrefc'[h] = pgrefc[h]
    BY <1>1, <1>4 DEF Kfree
  <2> QED BY <2>1, <2>2, <2>3 DEF LeakInv, ZeroFree
<1>5. ASSUME NEW g \in Pages, IncrRefc(g), UNCHANGED free
      PROVE  ZeroFree'
  <2>1. \A h \in Pages : pgrefc'[h] = 0 => pgrefc[h] = 0
    BY <1>1, <1>5 DEF IncrRefc
  <2> QED BY <1>5, <2>1 DEF LeakInv, ZeroFree
<1>6. CASE pc[p] = "decr" /\ DecrRefc(loc[p].pa) /\ UNCHANGED free
  <2>1. loc[p].pa \in Pages /\ pgrefc[loc[p].pa] > 1
    BY <1>6, FaultOf DEF LeakInv, SharedOn
  <2>2. \A h \in Pages : pgrefc'[h] = 0 => pgrefc[h] = 0
    BY <1>1, <1>6, <2>1 DEF DecrRefc
  <2> QED BY <1>6, <2>2 DEF LeakInv, ZeroFree
<1> QED BY <1>2, <1>3, <1>4, <1>5, <1>6 DEF Recounts

(* While a process holds the processor no other one runs.                    *)
LEMMA RunsAlone ==
    ASSUME NCPU = 1, LeakInv, NEW p \in Procs, CanRun(p), NEW q \in Procs, q # p
    PROVE  ~HoldsCpu(q)
<1> SUFFICES ASSUME HoldsCpu(q)
             PROVE  FALSE
  OBVIOUS
<1>1. ~HoldsCpu(p)
  BY DEF LeakInv, OneCpu
<1>2. Cardinality({x \in Procs : HoldsCpu(x)}) < 1
  BY <1>1 DEF CanRun
<1> DEFINE S == {x \in Procs : HoldsCpu(x)}
<1>3. q \in S /\ IsFiniteSet(S)
  BY Finite, FS_Subset
<1> HIDE DEF S
<1>4. Cardinality(S) \in Nat /\ Cardinality(S) # 0
  BY <1>3, FS_EmptySet, FS_CardinalityType
<1> QED BY <1>2, <1>4 DEF S

(* A step of p leaves the others' system calls as they are, or ends one.     *)
Alone(p) ==
    \A q \in Procs : q # p =>
        \/ pc'[q] = pc[q] /\ loc'[q] = loc[q]
        \/ pc'[q] = "user" /\ loc'[q] = NoLoc
Shares(p) == pc'[p] \in {"dup", "move", "decr"} => pgrefc'[loc'[p].pa] > 1

LEMMA LeakKept ==
    ASSUME NCPU = 1, TypeInv, CountInv, LeakInv, NEW p \in Procs, CanRun(p),
           Recounts(p), Alone(p), Shares(p)
    PROVE  LeakInv'
<1>1. ZeroFree'
  BY ZeroFreeKept
<1>2. \A q \in Procs : q # p => ~HoldsCpu(q)
  BY RunsAlone
<1>3. NoLoc.op = "none"
  BY DEF NoLoc
<1>4. OneCpu'
  <2>1. \A q \in Procs : q # p => loc'[q].op \notin {"fault", "wait"}
    BY <1>2, <1>3 DEF Alone, HoldsCpu, Faulting, Reaping
  <2> QED BY <2>1 DEF OneCpu, HoldsCpu, Faulting, Reaping
<1>5. SharedOn'
  <2> SUFFICES ASSUME NEW q \in Procs, pc'[q] \in {"dup", "move", "decr"}
               PROVE  pgrefc'[loc'[q].pa] > 1
    BY DEF SharedOn
  <2>1. CASE q = p
    BY <2>1 DEF Shares
  <2>2. CASE q # p
    <3>1. pc[q] \in {"dup", "move", "decr"}
      BY <2>2 DEF Alone
    <3>2. HoldsCpu(q)
      BY <3>1, FaultOf DEF HoldsCpu, Faulting
    <3> QED BY <1>2, <2>2, <3>2
  <2> QED BY <2>1, <2>2
<1> QED BY <1>1, <1>4, <1>5 DEF LeakInv

LEMMA LeakMoves ==
    ASSUME NCPU = 1, TypeInv, CountInv, LeakInv, NEW p \in Procs, CanRun(p), Recounts(p),
           NEW l, l \notin {"dup", "move", "decr"}, Goto(p, l) \/ \E r : GotoWith(p, l, r)
    PROVE  LeakInv'
<1>1. PICK r : GotoWith(p, l, r)
  BY GotoIsGotoWith DEF TypeInv, TypeOK
<1>2. Alone(p) /\ pc'[p] = l
  BY <1>1 DEF GotoWith, Alone, TypeInv, TypeOK, LocalType
<1> QED BY <1>2, LeakKept DEF Shares

LEMMA LeakReturns ==
    ASSUME NCPU = 1, TypeInv, CountInv, LeakInv, NEW p \in Procs, CanRun(p), Recounts(p), Return(p)
    PROVE  LeakInv'
BY LeakMoves DEF Return

(* The process stays where it is: it frees one page of several, or panics.   *)
LEMMA LeakStays ==
    ASSUME NCPU = 1, TypeInv, CountInv, LeakInv, NEW p \in Procs, CanRun(p), Recounts(p),
           UNCHANGED <<pc, loc>>, UNCHANGED pgrefc \/ pc[p] \notin {"dup", "move", "decr"}
    PROVE  LeakInv'
<1>1. Alone(p) /\ Shares(p)
  BY DEF Alone, Shares, LeakInv, SharedOn
<1> QED BY <1>1, LeakKept

LEMMA KmemStill == \A p : UNCHANGED kmem => Recounts(p) /\ UNCHANGED pgrefc
BY DEF kmem, Recounts

LEMMA KallocStep == \A p : \A g \in Pages : Kalloc(g) => Recounts(p)
BY DEF Recounts

LEMMA KfreeStep == \A p : \A g \in Pages : Kfree(g) => Recounts(p)
BY DEF Recounts

LEMMA ForkStepLeak ==
    ASSUME NCPU = 1, TypeInv, CountInv, LeakInv, NEW p \in Procs, ForkStep(p)
    PROVE  LeakInv'
<1>1. CASE Fork(p)
  <2>1. CanRun(p) /\ UNCHANGED kmem /\ \E r : GotoWith(p, "kstack", r)
    BY <1>1 DEF Fork, At
  <2> QED BY <2>1, KmemStill, LeakMoves
<1>2. CASE AllocKstack(p)
  <2>1. CanRun(p) /\ pc[p] = "kstack"
    BY <1>2 DEF AllocKstack, At
  <2>2. Recounts(p)
    BY <1>2, KmemStill, KallocStep DEF AllocKstack, KallocFails
  <2>3. Goto(p, "pgdir") \/ Return(p) \/ UNCHANGED <<pc, loc>>
    BY <1>2 DEF AllocKstack, Panic
  <2> QED BY <2>1, <2>2, <2>3, LeakMoves, LeakReturns, LeakStays
<1>3. CASE CopyPage(p)
  <2>1. CanRun(p) /\ pc[p] = "copy"
    BY <1>3 DEF CopyPage, At
  <2>2. Recounts(p)
    BY <1>3, KmemStill, KallocStep DEF CopyPage, CopyUtab, KallocFails
  <2>3. Goto(p, "incr") \/ Goto(p, "freevm") \/ UNCHANGED <<pc, loc>>
    BY <1>3 DEF CopyPage, Panic
  <2> QED BY <2>1, <2>2, <2>3, LeakMoves, LeakStays
<1>4. CASE CopyIncr(p)
  <2>1. CanRun(p) /\ pc[p] = "incr" /\ \E r : GotoWith(p, "copy", r)
    BY <1>4 DEF CopyIncr, At
  <2>2. pt[pgdir[p]][loc[p].i].pa \in Pages
    <3>1. /\ pgdir[p] \in Pages /\ loc[p].i \in VA
          /\ pt[pgdir[p]][loc[p].i].pa # NoPage
      BY <2>1 DEF CountInv, Hands, HandOK, CopyDue
    <3> QED BY <3>1, PteOf DEF Ptes
  <2>3. Recounts(p)
    BY <1>4, <2>2 DEF CopyIncr, Recounts
  <2> QED BY <2>1, <2>3, LeakMoves
<1>5. CASE CopyDone(p)
  <2>1. CanRun(p) /\ UNCHANGED kmem /\ Goto(p, "commit")
    BY <1>5 DEF CopyDone, At
  <2> QED BY <2>1, KmemStill, LeakMoves
<1>6. CASE ForkCommit(p)
  <2>1. CanRun(p) /\ UNCHANGED kmem /\ loc[p].op = "fork"
        /\ pc' = [pc EXCEPT ![loc[p].np] = "user", ![p] = "user"]
        /\ loc' = [loc EXCEPT ![loc[p].np] = NoLoc, ![p] = NoLoc]
    BY <1>6 DEF ForkCommit, At
  <2>2. Alone(p) /\ pc'[p] = "user"
    BY <2>1, ForkOf DEF Alone, TypeInv, TypeOK, LocalType
  <2> QED BY <2>1, <2>2, KmemStill, LeakKept DEF Shares
<1>7. CASE ForkUndo(p)
  <2>1. CanRun(p) /\ pc[p] = "undo" /\ Kfree(kstack[loc[p].np]) /\ Return(p)
    BY <1>7 DEF ForkUndo, At
  <2>2. loc[p].op = "fork"
    BY <2>1, LocalsOf DEF LocalsOK, OpAt, Locs, Ops
  <2>3. kstack[loc[p].np] \in Pages
    BY <2>1, <2>2, ForkOf
  <2> QED BY <2>1, <2>3, KfreeStep, LeakReturns
<1> QED BY <1>1, <1>2, <1>3, <1>4, <1>5, <1>6, <1>7 DEF ForkStep

LEMMA BuildStepLeak ==
    ASSUME NCPU = 1, TypeInv, CountInv, LeakInv, NEW p \in Procs, BuildStep(p)
    PROVE  LeakInv'
<1>1. \A n : AfterKvm(p, n) \notin {"dup", "move", "decr"}
  BY DEF AfterKvm
<1>2. CASE SetupDir(p)
  <2>1. CanRun(p) /\ pc[p] = "pgdir"
    BY <1>2 DEF SetupDir, At
  <2>2. Recounts(p)
    BY <1>2, KmemStill, KallocStep DEF SetupDir, KallocFails
  <2>3. \/ \E r : GotoWith(p, AfterKvm(p, 0), r)
        \/ Goto(p, "undo") \/ Return(p) \/ UNCHANGED <<pc, loc>>
    BY <1>2 DEF SetupDir, AfterNoTable, Panic
  <2> QED BY <1>1, <2>1, <2>2, <2>3, LeakMoves, LeakReturns, LeakStays
<1>3. CASE SetupKpt(p)
  <2>1. CanRun(p) /\ pc[p] = "kpt"
    BY <1>3 DEF SetupKpt, At
  <2>2. Recounts(p)
    BY <1>3, KmemStill, KallocStep DEF SetupKpt, KallocFails
  <2>3. \/ Goto(p, AfterKvm(p, Cardinality(ktab[loc[p].pd]) + 1))
        \/ Goto(p, "freevm") \/ UNCHANGED <<pc, loc>>
    BY <1>3 DEF SetupKpt, Panic
  <2> QED BY <1>1, <2>1, <2>2, <2>3, LeakMoves, LeakStays
<1>4. CASE AllocPage(p)
  <2>1. CanRun(p) /\ pc[p] = "alloc"
    BY <1>4 DEF AllocPage, At
  <2>2. Recounts(p)
    BY <1>4, KmemStill, KallocStep DEF AllocPage, KallocFails
  <2>3. (\E r : GotoWith(p, "map", r)) \/ Goto(p, "dealloc") \/ UNCHANGED <<pc, loc>>
    BY <1>4 DEF AllocPage, Panic
  <2> QED BY <2>1, <2>2, <2>3, LeakMoves, LeakStays
<1>5. CASE MapPage(p)
  <2>1. CanRun(p) /\ pc[p] = "map"
    BY <1>5 DEF MapPage, At
  <2>2. Recounts(p)
    BY <1>5, KmemStill, KallocStep DEF MapPage, KallocFails
  <2>3. (\E r : GotoWith(p, "alloc", r)) \/ Goto(p, "dealloc") \/ UNCHANGED <<pc, loc>>
    BY <1>5 DEF MapPage, Panic
  <2> QED BY <2>1, <2>2, <2>3, LeakMoves, LeakStays
<1>6. CASE AllocFailed(p)
  <2>1. CanRun(p)
    BY <1>6 DEF AllocFailed, Deallocated, At
  <2>2. Recounts(p)
    <3>1. loc[p].pg \in Pages \union {NoPage}
      BY LocalsOf DEF Locs
    <3> QED BY <1>6, <3>1, KmemStill, KfreeStep DEF AllocFailed
  <2>3. Return(p) \/ \E r : GotoWith(p, "freevm", r)
    BY <1>6 DEF AllocFailed
  <2> QED BY <2>1, <2>2, <2>3, LeakMoves, LeakReturns
<1>7. CASE InitDone(p)
  <2>1. CanRun(p) /\ UNCHANGED kmem /\ Return(p)
    BY <1>7 DEF InitDone, Allocated, At
  <2> QED BY <2>1, KmemStill, LeakReturns
<1> QED BY <1>2, <1>3, <1>4, <1>5, <1>6, <1>7 DEF BuildStep

LEMMA SbrkStepLeak ==
    ASSUME NCPU = 1, TypeInv, CountInv, LeakInv, NEW p \in Procs, SbrkStep(p)
    PROVE  LeakInv'
<1>1. CASE Grow(p) \/ GrowDone(p) \/ Shrink(p) \/ ShrinkDone(p)
  <2>1. CanRun(p) /\ UNCHANGED kmem
    BY <1>1 DEF Grow, GrowDone, Shrink, ShrinkDone, Allocated, Deallocated, At
  <2>2. \/ \E r : GotoWith(p, "alloc", r)
        \/ \E r : GotoWith(p, "dealloc", r)
        \/ Return(p)
    BY <1>1 DEF Grow, GrowDone, Shrink, ShrinkDone
  <2> QED BY <2>1, <2>2, KmemStill, LeakMoves, LeakReturns
<1>2. CASE DeallocPage(p)
  <2>1. CanRun(p) /\ pc[p] = "dealloc" /\ UNCHANGED <<pc, loc>>
    BY <1>2 DEF DeallocPage, At
  <2>2. PICK v \in VA : pt[Dir(p)][v].pa # NoPage /\ Kfree(pt[Dir(p)][v].pa)
    BY <1>2 DEF DeallocPage, IsFirst, Mapped, DropPage
  <2>3. pt[Dir(p)][v].pa \in Pages
    BY <2>1, <2>2, DirOf, PteOf DEF Ptes
  <2> QED BY <2>1, <2>2, <2>3, KfreeStep, LeakStays
<1> QED BY <1>1, <1>2 DEF SbrkStep

LEMMA ExecStepLeak ==
    ASSUME NCPU = 1, TypeInv, CountInv, LeakInv, NEW p \in Procs, ExecStep(p)
    PROVE  LeakInv'
<1>1. CanRun(p) /\ UNCHANGED kmem
  BY DEF ExecStep, Exec, ExecCommit, ExecBad, Allocated, At
<1>2. \/ \E r : GotoWith(p, "pgdir", r)
      \/ \E r : GotoWith(p, "freevm", r)
      \/ Goto(p, "freevm")
  BY DEF ExecStep, Exec, ExecCommit, ExecBad
<1> QED BY <1>1, <1>2, KmemStill, LeakMoves

LEMMA FreeStepLeak ==
    ASSUME NCPU = 1, TypeInv, CountInv, LeakInv, NEW p \in Procs, FreeStep(p)
    PROVE  LeakInv'
<1>1. CanRun(p) /\ pc[p] = "freevm"
  BY DEF FreeStep, FreePage, FreeTable, FreeDir, At
<1> DEFINE d == loc[p].pd
<1>2. d \in Pages
  BY <1>1, LocalsOf DEF LocalsOK, OpAt, Locs, Ops
<1>3. utab[d] \in Pages \union {NoPage} /\ ktab[d] \subseteq Pages
  BY <1>2 DEF TypeInv, TypeOK, TablesType
<1>4. CASE FreePage(p)
  <2>1. PICK v \in VA : pt[d][v].pa # NoPage /\ Kfree(pt[d][v].pa) /\ UNCHANGED <<pc, loc>>
    BY <1>4 DEF FreePage, IsFirst, Mapped, DropPage
  <2>2. pt[d][v].pa \in Pages
    BY <1>2, <2>1, PteOf DEF Ptes
  <2> QED BY <1>1, <2>1, <2>2, KfreeStep, LeakStays
<1>5. CASE FreeTable(p)
  <2>1. Recounts(p) /\ UNCHANGED <<pc, loc>>
    BY <1>3, <1>5, KfreeStep DEF FreeTable
  <2> QED BY <1>1, <2>1, LeakStays
<1>6. CASE FreeDir(p)
  <2>1. Kfree(d) /\ (Return(p) \/ \E r : GotoWith(p, "undo", r))
    BY <1>6 DEF FreeDir
  <2> QED BY <1>1, <1>2, <2>1, KfreeStep, LeakMoves, LeakReturns
<1> QED BY <1>4, <1>5, <1>6 DEF FreeStep

LEMMA LifeStepLeak ==
    ASSUME NCPU = 1, TypeInv, CountInv, LeakInv, NEW p \in Procs, LifeStep(p)
    PROVE  LeakInv'
<1>1. CASE Exit(p)
  <2>1. CanRun(p) /\ pc[p] = "user" /\ UNCHANGED kmem
    BY <1>1 DEF Exit, At
  <2>2. UNCHANGED <<pc, loc>> \/ GotoWith(p, "none", NoLoc)
    BY <1>1 DEF Exit, Panic
  <2> QED BY <2>1, <2>2, KmemStill, LeakMoves, LeakStays
<1>2. CASE Wait(p)
  <2>1. CanRun(p) /\ PtableFree
    BY <1>2 DEF Wait, At
  <2>2. PICK c \in Procs : /\ state[c] = "ZOMBIE" /\ Kfree(kstack[c])
                           /\ \E r : GotoWith(p, "freevm", r)
    BY <1>2 DEF Wait
  <2>3. kstack[c] \in Pages
    BY <2>1, <2>2, ZombieOf DEF PtableFree, Reaping
  <2> QED BY <2>1, <2>2, <2>3, KfreeStep, LeakMoves
<1> QED BY <1>1, <1>2 DEF LifeStep

LEMMA UserStepLeak ==
    ASSUME NCPU = 1, TypeInv, CountInv, LeakInv, NEW p \in Procs, UserStep(p)
    PROVE  LeakInv'
<1>1. CanRun(p) /\ pc[p] = "user" /\ Recounts(p) /\ UNCHANGED pgrefc
  BY KmemStill DEF UserStep, Store, Fault, At
<1>2. CASE Store(p)
  BY <1>1, <1>2, LeakStays DEF Store
<1>3. CASE Fault(p)
  <2>1. PICK g, v :
          \/ UNCHANGED <<pc, loc>>
          \/ GotoWith(p, IF pgrefc[g] > 1 THEN "dup" ELSE "own",
               [NoLoc EXCEPT !.op = "fault", !.va = v, !.pa = g, !.refc = pgrefc[g]])
    BY <1>3 DEF Fault, Panic
  <2> DEFINE r == [NoLoc EXCEPT !.op = "fault", !.va = v, !.pa = g, !.refc = pgrefc[g]]
             l == IF pgrefc[g] > 1 THEN "dup" ELSE "own"
  <2>2. CASE GotoWith(p, l, r)
    <3>1. Alone(p) /\ pc'[p] = l /\ loc'[p] = r
      <4> HIDE DEF r, l
      <4> QED BY <2>2 DEF GotoWith, Alone, TypeInv, TypeOK, LocalType
    <3>2. r.pa = g
      BY DEF NoLoc
    <3> HIDE DEF r
    <3> QED BY <1>1, <3>1, <3>2, LeakKept DEF Shares
  <2> QED BY <1>1, <2>1, <2>2, LeakStays
<1> QED BY <1>2, <1>3 DEF UserStep

LEMMA CowStepLeak ==
    ASSUME NCPU = 1, TypeInv, CountInv, LeakInv, NEW p \in Procs, CowStep(p)
    PROVE  LeakInv'
<1>1. CanRun(p)
  BY DEF CowStep, CowOwn, CowAlloc, CowMove, CowDecr, At
<1>2. CASE CowOwn(p)
  <2>1. UNCHANGED kmem /\ Return(p)
    BY <1>2 DEF CowOwn
  <2> QED BY <1>1, <2>1, KmemStill, LeakReturns
<1>3. CASE CowAlloc(p)
  <2>1. pc[p] = "dup" /\ loc[p].pa \in Pages /\ pgrefc[loc[p].pa] > 1 /\ loc[p] \in Locs
    BY <1>3, FaultOf, LocalsOf DEF CowAlloc, At, LeakInv, SharedOn
  <2>2. CASE KallocFails /\ UNCHANGED <<pc, loc>>
    BY <1>1, <2>2, KmemStill, LeakStays DEF KallocFails
  <2>3. ASSUME NEW g \in Pages, Kalloc(g), GotoWith(p, "move", [loc[p] EXCEPT !.pg = g])
        PROVE  LeakInv'
    <3> DEFINE r == [loc[p] EXCEPT !.pg = g]
    <3>1. r.pa = loc[p].pa
      BY <2>1 DEF Locs
    <3>2. GotoWith(p, "move", r)
      BY <2>3
    <3> HIDE DEF r
    <3>3. Alone(p) /\ loc'[p] = r
      BY <3>2 DEF GotoWith, Alone, TypeInv, TypeOK, LocalType
    <3>4. pgrefc[g] = 0 /\ \A h \in Pages : h # g => pgrefc'[h] = pgrefc[h]
      <4>1. g \in free /\ pgrefc \in [Pages -> Int]
        BY <2>3, CowAssumption DEF Kalloc, TypeInv, TypeOK, KmemType
      <4>2. pgrefc[g] = 0
        BY <4>1, CountOf
      <4> QED BY <2>3, <4>1, <4>2 DEF Kalloc
    <3>5. pgrefc'[r.pa] > 1
      BY <2>1, <3>1, <3>4
    <3> QED BY <1>1, <2>3, <3>3, <3>5, KallocStep, LeakKept DEF Shares
  <2> QED BY <1>3, <2>2, <2>3 DEF CowAlloc, Panic
<1>4. CASE CowMove(p)
  <2> DEFINE r == [loc[p] EXCEPT !.pg = NoPage]
  <2>1. pc[p] = "move" /\ GotoWith(p, "decr", r) /\ UNCHANGED kmem /\ loc[p] \in Locs
    BY <1>4, LocalsOf DEF CowMove, At
  <2>2. r.pa = loc[p].pa
    BY <2>1 DEF Locs
  <2> HIDE DEF r
  <2>3. Alone(p) /\ loc'[p] = r
    BY <2>1 DEF GotoWith, Alone, TypeInv, TypeOK, LocalType
  <2>4. Recounts(p) /\ pgrefc'[r.pa] > 1
    BY <2>1, <2>2, KmemStill DEF LeakInv, SharedOn
  <2> QED BY <1>1, <2>3, <2>4, LeakKept DEF Shares
<1>5. CASE CowDecr(p)
  <2>1. pc[p] = "decr" /\ DecrRefc(loc[p].pa) /\ UNCHANGED free /\ Return(p)
    BY <1>5 DEF CowDecr, At
  <2> QED BY <1>1, <2>1, LeakReturns DEF Recounts
<1> QED BY <1>2, <1>3, <1>4, <1>5 DEF CowStep

(* A page nobody uses and whose count is 0 is on the free list, with one     *)
(* processor: then nobody can give up a page while the handler of another    *)
(* one is copying it, and decr_refc never takes a count to 0.  (With two the *)
(* page is lost: see the run cow_leak.)                                      *)
THEOREM NoLeakCorrect ==
    ASSUME NCPU = 1
    PROVE  Spec => []NoLeak
<1>1. Init => LeakInv
  <2> SUFFICES ASSUME Init
               PROVE  LeakInv
    OBVIOUS
  <2>1. free = Pages
    BY DEF Init
  <2>2. \A p \in Procs : pc[p] \in {"none", "kstack"}
    BY DEF Init
  <2>3. \A p \in Procs : loc[p].op \in {"none", "init"}
    <3>1. NoLoc.op = "none" /\ [NoLoc EXCEPT !.op = "init", !.np = InitProc, !.lim = 1].op = "init"
      BY DEF NoLoc
    <3>2. loc = [p \in Procs |-> IF p = InitProc
                    THEN [NoLoc EXCEPT !.op = "init", !.np = p, !.lim = 1] ELSE NoLoc]
      BY DEF Init
    <3> QED BY <3>1, <3>2
  <2>4. ZeroFree
    BY <2>1 DEF ZeroFree
  <2>5. \A p \in Procs : ~HoldsCpu(p)
    BY <2>3 DEF HoldsCpu, Faulting, Reaping
  <2> QED BY <2>2, <2>4, <2>5 DEF LeakInv, OneCpu, SharedOn
<1>2. RunInv /\ CountInv /\ LeakInv /\ [Next]_vars => LeakInv'
  <2> SUFFICES ASSUME RunInv, CountInv, LeakInv, [Next]_vars
               PROVE  LeakInv'
    OBVIOUS
  <2>1. CASE UNCHANGED vars
    BY <2>1 DEF vars, kmem, LeakInv, ZeroFree, OneCpu, SharedOn, HoldsCpu, Faulting, Reaping
  <2>2. ASSUME panic = "none", NEW p \in Procs, Step(p)
        PROVE  LeakInv'
    <3>1. TypeInv
      BY <2>2 DEF RunInv, TypeInv
    <3> QED BY <2>2, <3>1, ForkStepLeak, BuildStepLeak, SbrkStepLeak, ExecStepLeak,
               FreeStepLeak, LifeStepLeak, UserStepLeak, CowStepLeak DEF Step
  <2> QED BY <2>1, <2>2 DEF Next, Halted
<1>3. RunInv /\ CountInv /\ LeakInv => NoLeak
  <2> SUFFICES ASSUME RunInv, CountInv, LeakInv, panic = "none", NEW g \in Pages, Uses(g) = 0
               PROVE  g \in free
    BY DEF NoLeak
  <2>1. TypeInv
    BY DEF RunInv, TypeInv
  <2>2. pgrefc[g] = 0
    BY <2>1, CountOf, UsesInUse
  <2> QED BY <2>2 DEF LeakInv, ZeroFree
<1> QED BY <1>1, <1>2, <1>3, CountInvariant, PTL DEF Spec
=============================================================================
