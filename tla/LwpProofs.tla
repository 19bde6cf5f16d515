----------------------------- MODULE LwpProofs -----------------------------
(* Threads share a pid, a page directory and one origin; the directory is   *)
(* given up once, with the last of them; no join loses its wakeup, and a    *)
(* killed process can end: for any number of slots, pids, tids and pages    *)
(* and any programs that join their own threads, on one processor.          *)
EXTENDS Lwp, WellFoundedInduction, TLAPS

OneCpu == \A c, d \in CPUs : c = d

-----------------------------------------------------------------------------
(* The inductive invariant.                                                 *)

Lives(p)   == proc[p].state \in {"RUNNABLE", "RUNNING", "SLEEPING"}
Builds(p)  == proc[p].at \in {"create", "fork", "copied"}

(* Slots not in use are blank, but that kill(0) marks them; pids and tids   *)
(* were handed out before.                                                  *)
Blanks ==
    \A p \in Procs : ~InUse(p) => proc[p] = [Blank EXCEPT !.killed = proc[p].killed]
Ids ==
    \A p \in Procs : InUse(p) =>
        /\ 0 < proc[p].pid /\ proc[p].pid < nextpid
        /\ proc[p].tid < nexttid

(* State of a slot, whether a processor runs it, and where its thread is.   *)
Placed(p) ==
    /\ On(p) <=> proc[p].state = "RUNNING" \/ proc[p].at = "dying"
    /\ proc[p].at = "dying" => proc[p].state = "ZOMBIE" /\ proc[p].tid # 0
    /\ proc[p].state \in {"EMBRYO", "ZOMBIE"} => proc[p].at \in {"none", "dying"}
    /\ Lives(p) => proc[p].at \notin {"none", "dying"}
    /\ proc[p].state = "SLEEPING" /\ proc[p].at = "join" => proc[p].sleeps = "self"
    /\ proc[p].at \in {"exec", "exit"} => proc[p].tid = 0
Places == \A p \in Procs : Placed(p)

(* The slot thread_create or fork is filling; a new process is alone.       *)
Filling(p) ==
    Builds(p) =>
        /\ proc[p].np \in Procs /\ proc[proc[p].np].state = "EMBRYO"
        /\ proc[p].at = "create" =>
             proc[proc[p].np].tid # 0 /\ proc[proc[p].np].pid = proc[p].pid
        /\ proc[p].at \in {"fork", "copied"} =>
             /\ proc[proc[p].np].tid = 0
             /\ (proc[p].at = "copied" <=> proc[proc[p].np].pgdir # NoDir)
Fillings ==
    /\ \A p \in Procs : Filling(p)
    /\ \A p, q \in Procs : Builds(p) /\ Builds(q) /\ proc[p].np = proc[q].np => p = q
NewAlone ==
    \A p, q \in Procs :
        proc[p].state = "EMBRYO" /\ proc[p].tid = 0 /\ proc[q].pid = proc[p].pid => q = p

(* A directory has one process.                                             *)
DirOwn == \A p, q \in Procs :
    proc[p].pgdir # NoDir /\ proc[q].pgdir = proc[p].pgdir => proc[q].pid = proc[p].pid

(* Tids are never used twice, and join knows one.                           *)
TidsOnce == \A p, q \in Procs : proc[p].tid # 0 /\ proc[q].tid = proc[p].tid => q = p
JoinArgs == \A p \in Procs : proc[p].at = "join" => proc[p].arg # 0 /\ proc[p].arg <= MaxTid

IInv ==
    /\ TypeOK /\ Blanks /\ Ids /\ Places /\ Fillings /\ NewAlone /\ DirOwn
    /\ TidsOnce /\ JoinArgs
    /\ OneOrigin /\ LastThread /\ DirsExact

-----------------------------------------------------------------------------
(* What joins and kills need besides.                                       *)

(* The thread that made a thread is there and older, or init is its parent. *)
Kinship == \A q \in Procs : proc[q].tid # 0 /\ proc[q].parent # InitProc =>
    /\ proc[q].parent \in Procs /\ proc[proc[q].parent].pid = proc[q].pid
    /\ proc[proc[q].parent].tid < proc[q].tid
    /\ proc[proc[q].parent].state = "ZOMBIE" => proc[proc[q].parent].at = "dying"

(* What a join waits for is a thread of its own that has not been reaped,   *)
(* and that has yet to wake it when it sleeps.                              *)
Awaits(p, q) == proc[q].tid = proc[p].arg /\ proc[q].parent = p
JoinDue == \A p \in Procs : proc[p].at = "join" => p # InitProc /\ \E q \in Procs : Awaits(p, q)
SleepDue == \A p, q \in Procs :
    proc[p].state = "SLEEPING" /\ proc[p].at = "join" /\ Awaits(p, q) /\ proc[q].state = "ZOMBIE"
    => proc[q].at = "dying"

(* A thread is killed with its process, or was born killed and has made no  *)
(* call since; a killed thread sleeps in join only.                         *)
KilledAlike == \A p, q \in Procs :
    proc[p].killed /\ proc[p].at \notin {"none", "user", "exit"} /\ proc[q].pid = proc[p].pid
    => proc[q].killed
KilledJoins == \A p \in Procs :
    proc[p].killed /\ proc[p].state = "SLEEPING" => proc[p].at = "join"

KInv == Kinship /\ JoinDue /\ SleepDue /\ KilledAlike /\ KilledJoins

-----------------------------------------------------------------------------
(* Facts about types, slots and processors.                                 *)

MaxArg == IF MaxTid < MaxSz THEN MaxSz ELSE MaxTid
Slot ==
    [state : States, pid : 0 .. MaxPid, tid : 0 .. MaxTid,
     parent : Procs \union {NoProc}, origin : Procs \union {NoProc},
     sleeps : {"no", "self", "io"}, killed : BOOLEAN, pgdir : Dirs \union {NoDir},
     sz : 0 .. MaxSz, at : Ats, np : Procs \union {NoProc},
     arg : 0 .. MaxArg]

LEMMA Bounds ==
    /\ NPROC \in Nat \ {0} /\ MaxPid \in Nat \ {0} /\ MaxTid \in Nat /\ MaxSz \in Nat
    /\ ImageSz \in Nat /\ StackSz \in Nat /\ ImageSz <= MaxSz
    /\ NoProc \notin Procs /\ NoDir \notin Dirs
    /\ InitProc \in Procs /\ 1 \in Dirs
  BY LwpAssumption DEF Procs, Dirs, InitProc

LEMMA Args == MaxArg \in Nat /\ 0 .. MaxTid \subseteq 0 .. MaxArg /\ 0 .. MaxSz \subseteq 0 .. MaxArg
  BY Bounds DEF MaxArg

LEMMA Types ==
    TypeOK <=> /\ proc \in [Procs -> Slot] /\ cpu \in [CPUs -> Procs \union {NoProc}]
               /\ dirs \in SUBSET Dirs /\ mem \in [Dirs -> SUBSET VA]
               /\ nextpid \in 1 .. MaxPid + 1 /\ nexttid \in 1 .. MaxTid + 1
               /\ panic \in Panics
  BY DEF TypeOK, Slot, MaxArg

LEMMA SlotFields ==
    ASSUME TypeOK, NEW p \in Procs
    PROVE  /\ proc[p] \in Slot
           /\ proc[p].state \in States /\ proc[p].pid \in 0 .. MaxPid
           /\ proc[p].tid \in 0 .. MaxTid /\ proc[p].pid \in Nat /\ proc[p].tid \in Nat
           /\ proc[p].parent \in Procs \union {NoProc}
           /\ proc[p].origin \in Procs \union {NoProc}
           /\ proc[p].sleeps \in {"no", "self", "io"} /\ proc[p].killed \in BOOLEAN
           /\ proc[p].pgdir \in Dirs \union {NoDir} /\ proc[p].sz \in 0 .. MaxSz
           /\ proc[p].at \in Ats /\ proc[p].np \in Procs \union {NoProc}
           /\ proc[p].arg \in 0 .. MaxArg
<1>1. proc[p] \in Slot  BY Types
<1>2. MaxPid \in Nat /\ MaxTid \in Nat  BY Bounds
<1> QED  BY <1>1, <1>2 DEF Slot

LEMMA BlankType ==
    Blank \in Slot /\ \A a \in Ats : [Blank EXCEPT !.at = a] \in Slot
<1>1. NoProc \in Procs \union {NoProc} /\ NoDir \in Dirs \union {NoDir}  OBVIOUS
<1>2. 0 \in 0 .. MaxPid /\ 0 \in 0 .. MaxTid /\ 0 \in 0 .. MaxSz /\ 0 \in 0 .. MaxArg
  BY Bounds, Args
<1>3. Blank \in Slot  BY <1>1, <1>2 DEF Blank, Slot, States, Ats
<1>4. \A a \in Ats : [Blank EXCEPT !.at = a] \in Slot  BY <1>3 DEF Slot
<1> QED  BY <1>3, <1>4

LEMMA BlankSame ==
    Blank = [Blank EXCEPT !.at = "none"] /\ Blank = [Blank EXCEPT !.killed = Blank.killed]
<1>1. Blank \in Slot  BY BlankType
<1>2. Blank.at = "none"  BY DEF Blank
<1> QED  BY <1>1, <1>2 DEF Slot

(* One processor runs one slot: nobody else is RUNNING or on its way out.   *)
Alone(p) ==
    \A q \in Procs \ {p} : ~On(q) /\ proc[q].state # "RUNNING" /\ proc[q].at # "dying"

LEMMA OneRuns ==
    ASSUME IInv, OneCpu, NEW p \in Procs, On(p)
    PROVE  Alone(p)
<1> SUFFICES ASSUME NEW q \in Procs, q # p
             PROVE  ~On(q) /\ proc[q].state # "RUNNING" /\ proc[q].at # "dying"
  BY DEF Alone
<1>1. PICK c \in CPUs : cpu[c] = p  BY DEF On
<1>2. ~On(q)
  <2> SUFFICES ASSUME NEW d \in CPUs, cpu[d] = q PROVE FALSE  BY DEF On
  <2> QED  BY <1>1 DEF OneCpu
<1>3. Placed(q)  BY DEF IInv, Places
<1> QED  BY <1>2, <1>3 DEF Placed

LEMMA LeavesOn ==
    ASSUME TypeOK, NEW p \in Procs, Leaves(p), NEW q \in Procs
    PROVE  On(q)' <=> q # p /\ On(q)
<1>1. cpu' = [c \in CPUs |-> IF cpu[c] = p THEN NoProc ELSE cpu[c]]  BY DEF Leaves
<1>2. \A c \in CPUs : cpu'[c] = IF cpu[c] = p THEN NoProc ELSE cpu[c]  BY <1>1
<1>3. NoProc \notin Procs  BY Bounds
<1> QED  BY <1>2, <1>3 DEF On

LEMMA LeavesType ==
    ASSUME TypeOK, NEW p \in Procs, Leaves(p)
    PROVE  cpu' \in [CPUs -> Procs \union {NoProc}]
  BY DEF Leaves, TypeOK

LEMMA InUseOf ==
    ASSUME IInv, NEW p \in Procs, proc[p].pid # 0 \/ proc[p].tid # 0 \/ proc[p].at # "none"
                                 \/ proc[p].pgdir # NoDir
    PROVE  InUse(p)
<1> SUFFICES ASSUME ~InUse(p) PROVE FALSE  OBVIOUS
<1>1. proc[p] = [Blank EXCEPT !.killed = proc[p].killed]  BY DEF IInv, Blanks
<1> QED  BY <1>1 DEF Blank

-----------------------------------------------------------------------------
(* Steps that leave pids, tids, origins and directories as they are.        *)

CoreSame(q) ==
    /\ proc'[q].pid = proc[q].pid /\ proc'[q].tid = proc[q].tid
    /\ proc'[q].origin = proc[q].origin /\ proc'[q].pgdir = proc[q].pgdir
    /\ proc'[q].state = "UNUSED" <=> proc[q].state = "UNUSED"

Mild(q) ==
    /\ CoreSame(q)
    /\ proc'[q].at = proc[q].at /\ proc'[q].np = proc[q].np /\ proc'[q].arg = proc[q].arg
    /\ \/ proc'[q].state = proc[q].state /\ proc'[q].sleeps = proc[q].sleeps
       \/ proc[q].state = "SLEEPING" /\ proc'[q].state = "RUNNABLE"

(* The slot that thread_create or fork has finished filling.                *)
Finished(p, q) ==
    /\ proc[p].at \in {"create", "copied"} /\ proc[p].np = q
    /\ CoreSame(q) /\ proc'[q].state = "RUNNABLE" /\ proc'[q].at = "user"

(* What the running slot p may become.                                      *)
Becomes(p) ==
    /\ CoreSame(p) /\ proc'[p].state # "EMBRYO" /\ proc[p].state # "EMBRYO"
    /\ proc'[p].at \in {"create", "fork", "copied"} =>
         proc'[p].at = proc[p].at /\ proc'[p].np = proc[p].np
    /\ proc'[p].at = "join" => proc'[p].arg # 0 /\ proc'[p].arg <= MaxTid
    /\ proc'[p].at \in {"exec", "exit"} \/ (proc'[p].state = "ZOMBIE" /\ proc[p].tid = 0)
       => proc[p].at \in {"exec", "exit"} \/ (proc[p].state = "ZOMBIE" /\ proc[p].tid = 0)

Steps(p) ==
    /\ Becomes(p) /\ Placed(p)'
    /\ \A q \in Procs \ {p} : Mild(q) \/ (Finished(p, q) /\ ~Builds(p)')
    /\ \A q \in Procs \ {p} : On(q)' <=> On(q)
    /\ UNCHANGED <<dirs, nextpid>> /\ nexttid' \in {nexttid, nexttid + 1}

(* Such a step keeps what is about pids, tids, origins and directories...   *)
LEMMA CoreKept ==
    ASSUME IInv, \A q \in Procs : CoreSame(q), UNCHANGED <<dirs, nextpid>>,
           nexttid' \in {nexttid, nexttid + 1}
    PROVE  Ids' /\ DirOwn' /\ TidsOnce' /\ OneOrigin' /\ DirsExact'
<1>1. Ids'
  <2> SUFFICES ASSUME NEW q \in Procs, proc'[q].state # "UNUSED"
               PROVE  /\ 0 < proc'[q].pid /\ proc'[q].pid < nextpid'
                      /\ proc'[q].tid < nexttid'
    BY DEF Ids, InUse
  <2>1. CoreSame(q) /\ InUse(q)  BY DEF CoreSame, InUse
  <2>2. 0 < proc[q].pid /\ proc[q].pid < nextpid /\ proc[q].tid < nexttid
    BY <2>1 DEF IInv, Ids
  <2>3. proc[q].tid \in Nat /\ nexttid \in Nat  BY SlotFields, Bounds DEF IInv, TypeOK
  <2>4. proc[q].tid < nexttid'  BY <2>2, <2>3
  <2> QED  BY <2>1, <2>2, <2>4 DEF CoreSame
<1>2. DirOwn'
  BY DEF IInv, DirOwn, CoreSame
<1>3. TidsOnce'
  BY DEF IInv, TidsOnce, CoreSame
<1>4. OneOrigin'
  <2>1. \A q \in Procs : InUse(q) /\ proc[q].tid # 0 =>
            /\ proc[q].origin \in Procs /\ InUse(proc[q].origin)
            /\ proc[proc[q].origin].tid = 0 /\ proc[proc[q].origin].pid = proc[q].pid
            /\ proc[proc[q].origin].pgdir = proc[q].pgdir
    BY DEF IInv, OneOrigin
  <2>2. \A q \in Procs : InUse(q)' /\ proc'[q].tid # 0 =>
            /\ proc'[q].origin \in Procs /\ proc'[proc'[q].origin].state # "UNUSED"
            /\ proc'[proc'[q].origin].tid = 0 /\ proc'[proc'[q].origin].pid = proc'[q].pid
            /\ proc'[proc'[q].origin].pgdir = proc'[q].pgdir
    BY <2>1 DEF InUse, CoreSame
  <2>3. \A q, r \in Procs : InUse(q) /\ InUse(r) /\ proc[q].pid = proc[r].pid
                            /\ proc[q].tid = proc[r].tid => q = r
    BY DEF IInv, OneOrigin
  <2>4. \A q, r \in Procs : InUse(q)' /\ InUse(r)' /\ proc'[q].pid = proc'[r].pid
                            /\ proc'[q].tid = proc'[r].tid => q = r
    BY <2>3 DEF InUse, CoreSame
  <2> QED  BY <2>2, <2>4 DEF OneOrigin, InUse
<1>5. DirsExact'
  BY DEF IInv, DirsExact, CoreSame
<1> QED  BY <1>1, <1>2, <1>3, <1>4, <1>5

(* ... and Steps keeps the rest.                                            *)
LEMMA StepsKeep ==
    ASSUME IInv, NEW p \in Procs, Alone(p), Steps(p), TypeOK', Blanks'
    PROVE  IInv'
<1>1. \A q \in Procs : CoreSame(q)
  BY DEF Steps, Becomes, Mild, Finished
<1>2. Ids' /\ DirOwn' /\ TidsOnce' /\ OneOrigin' /\ DirsExact'
  BY <1>1, CoreKept DEF Steps
<1>3. \A q \in Procs \ {p} : Finished(p, q) => proc[q].state = "EMBRYO"
  <2>1. Filling(p)  BY DEF IInv, Fillings
  <2> QED  BY <2>1 DEF Filling, Builds, Finished
<1>4. Places'
  <2> SUFFICES ASSUME NEW q \in Procs PROVE Placed(q)'  BY DEF Places
  <2>1. CASE q = p  BY <2>1 DEF Steps
  <2>2. CASE q # p
    <3>1. Placed(q) /\ (On(q)' <=> On(q)) /\ ~On(q) /\ proc[q].state # "RUNNING"
          /\ proc[q].at # "dying"
      BY <2>2 DEF Alone, IInv, Places, Steps
    <3>2. CASE Mild(q)
      BY <3>1, <3>2 DEF Mild, CoreSame, Placed, Lives
    <3>3. CASE Finished(p, q)
      BY <3>1, <3>3 DEF Finished, CoreSame, Placed, Lives
    <3> QED  BY <2>2, <3>2, <3>3 DEF Steps
  <2> QED  BY <2>1, <2>2
<1>5. \A q \in Procs : Builds(q)' => /\ Builds(q) /\ proc'[q].at = proc[q].at
                                     /\ proc'[q].np = proc[q].np
  <2> SUFFICES ASSUME NEW q \in Procs, Builds(q)'
               PROVE  Builds(q) /\ proc'[q].at = proc[q].at /\ proc'[q].np = proc[q].np
    OBVIOUS
  <2>1. Mild(q) \/ (proc'[q].at = proc[q].at /\ proc'[q].np = proc[q].np)
    BY DEF Steps, Becomes, Finished, Builds
  <2> QED  BY <2>1 DEF Mild, Builds
<1>6. \A q \in Procs : proc'[q].state = "EMBRYO" => proc[q].state = "EMBRYO"
  BY DEF Steps, Becomes, Mild, Finished
<1>7. \A q, r \in Procs : Builds(q)' /\ proc'[q].np = r => proc'[r].state = "EMBRYO"
  <2> SUFFICES ASSUME NEW q \in Procs, NEW r \in Procs, Builds(q)', proc'[q].np = r
               PROVE  proc'[r].state = "EMBRYO"
    OBVIOUS
  <2>1. Builds(q) /\ proc[q].np = r /\ proc[r].state = "EMBRYO"
    BY <1>5 DEF IInv, Fillings, Filling
  <2>2. r # p
    BY <2>1 DEF Steps, Becomes
  <2>3. ~(Finished(p, r) /\ ~Builds(p)')
    <3> SUFFICES ASSUME Finished(p, r), ~Builds(p)' PROVE FALSE  OBVIOUS
    <3>1. Builds(p) /\ proc[p].np = r  BY DEF Finished, Builds
    <3>2. q = p  BY <2>1, <3>1 DEF IInv, Fillings
    <3> QED  BY <3>2
  <2>4. Mild(r)  BY <2>2, <2>3 DEF Steps
  <2> QED  BY <2>1, <2>4 DEF Mild
<1>8. Fillings'
  <2>1. \A q \in Procs : Filling(q)'
    <3> SUFFICES ASSUME NEW q \in Procs, Builds(q)' PROVE Filling(q)'  BY DEF Filling
    <3>1. Filling(q) /\ Builds(q) /\ proc'[q].at = proc[q].at /\ proc'[q].np = proc[q].np
      BY <1>5 DEF IInv, Fillings
    <3>2. proc[q].np \in Procs  BY <3>1 DEF Filling
    <3>3. proc'[proc[q].np].state = "EMBRYO"  BY <1>7, <3>1, <3>2
    <3>4. CoreSame(q) /\ CoreSame(proc[q].np)  BY <1>1, <3>2
    <3> QED  BY <3>1, <3>2, <3>3, <3>4 DEF Filling, CoreSame
  <2>2. \A q, r \in Procs : Builds(q)' /\ Builds(r)' /\ proc'[q].np = proc'[r].np => q = r
    <3>1. \A q, r \in Procs : Builds(q) /\ Builds(r) /\ proc[q].np = proc[r].np => q = r
      BY DEF IInv, Fillings
    <3> QED  BY <1>5, <3>1
  <2> QED  BY <2>1, <2>2 DEF Fillings
<1>9. NewAlone'
  BY <1>1, <1>6 DEF IInv, NewAlone, CoreSame
<1>10. JoinArgs'
  BY DEF IInv, JoinArgs, Steps, Becomes, Mild, Finished
<1>11. LastThread'
  <2> SUFFICES ASSUME NEW q \in Procs,
                      \/ proc'[q].at \in {"exec", "exit"}
                      \/ proc'[q].state = "ZOMBIE" /\ proc'[q].tid = 0,
                      NEW r \in Procs, proc'[r].pid = proc'[q].pid
               PROVE  r = q
    BY DEF LastThread, Family
  <2>1. proc[r].pid = proc[q].pid  BY <1>1 DEF CoreSame
  <2>2. proc[q].at \in {"exec", "exit"} \/ (proc[q].state = "ZOMBIE" /\ proc[q].tid = 0)
    <3>1. CASE q = p  BY <1>1, <3>1 DEF Steps, Becomes, CoreSame
    <3>2. CASE q # p  BY <1>1, <3>2 DEF Steps, Mild, Finished, CoreSame
    <3> QED  BY <3>1, <3>2
  <2> QED  BY <2>1, <2>2 DEF IInv, LastThread, Family
<1> QED  BY <1>2, <1>4, <1>8, <1>9, <1>10, <1>11 DEF IInv

(* A stop of the kernel changes nothing else.                               *)
LEMMA StopKeeps ==
    ASSUME IInv, UNCHANGED <<proc, cpu, dirs, mem, nextpid, nexttid>>, panic' \in Panics
    PROVE  IInv'
<1>1. TypeOK'  BY DEF IInv, TypeOK
<1>2. Blanks' /\ Ids'  BY DEF IInv, Blanks, Ids, InUse
<1>3. Places'  BY DEF IInv, Places, Placed, On, Lives
<1>4. Fillings'  BY DEF IInv, Fillings, Filling, Builds
<1>5. NewAlone' /\ DirOwn' /\ TidsOnce' /\ JoinArgs'
  BY DEF IInv, NewAlone, DirOwn, TidsOnce, JoinArgs
<1>6. OneOrigin' /\ LastThread'  BY DEF IInv, OneOrigin, LastThread, Family, InUse
<1>7. DirsExact'  BY DEF IInv, DirsExact
<1> QED  BY <1>1, <1>2, <1>3, <1>4, <1>5, <1>6, <1>7 DEF IInv

LEMMA StutterKeeps ==
    ASSUME IInv, UNCHANGED vars
    PROVE  IInv'
<1>1. panic' \in Panics  BY DEF IInv, TypeOK, vars
<1> QED  BY <1>1, StopKeeps DEF vars, memory

(* A step that changes the slot of p only, and leaves the memory's          *)
(* directories alone.                                                       *)
Only(p) ==
    /\ proc' \in [Procs -> Slot] /\ \A q \in Procs \ {p} : proc'[q] = proc[q]
    /\ CoreSame(p) /\ proc'[p].state # "UNUSED" /\ proc'[p].state # "EMBRYO"
    /\ proc'[p].at \in {"create", "fork", "copied"} =>
         proc'[p].at = proc[p].at /\ proc'[p].np = proc[p].np
    /\ proc'[p].at = "join" => proc'[p].arg # 0 /\ proc'[p].arg <= MaxTid
    /\ proc'[p].at \in {"exec", "exit"} \/ (proc'[p].state = "ZOMBIE" /\ proc[p].tid = 0)
       => proc[p].at \in {"exec", "exit"} \/ (proc[p].state = "ZOMBIE" /\ proc[p].tid = 0)

LEMMA OnlyKeeps ==
    ASSUME IInv, NEW p \in Procs, Alone(p), proc[p].state # "EMBRYO", Only(p), Placed(p)',
           cpu' \in [CPUs -> Procs \union {NoProc}], mem' \in [Dirs -> SUBSET VA],
           panic' = panic, \A q \in Procs \ {p} : On(q)' <=> On(q),
           UNCHANGED <<dirs, nextpid, nexttid>>
    PROVE  IInv'
<1>1. TypeOK'
  <2>1. TypeOK  BY DEF IInv
  <2> QED  BY <2>1 DEF Only, TypeOK, Slot, MaxArg
<1>2. Blanks'
  <2> SUFFICES ASSUME NEW q \in Procs, ~InUse(q)'
               PROVE  proc'[q] = [Blank EXCEPT !.killed = proc'[q].killed]
    BY DEF Blanks
  <2>1. q # p /\ proc'[q] = proc[q]  BY DEF Only, InUse
  <2>2. ~InUse(q)  BY <2>1 DEF InUse
  <2> QED  BY <2>1, <2>2 DEF IInv, Blanks
<1>3. Becomes(p)
  BY DEF Only, Becomes, Mild
<1>4. Steps(p)
  <2>1. \A q \in Procs \ {p} : Mild(q)  BY DEF Only, Mild, CoreSame
  <2> QED  BY <1>3, <2>1 DEF Steps
<1> QED  BY <1>1, <1>2, <1>4, StepsKeep

LEMMA Running ==
    ASSUME IInv, OneCpu, NEW p \in Procs, On(p), proc[p].state = "RUNNING"
    PROVE  /\ Alone(p) /\ InUse(p) /\ proc[p].state # "EMBRYO" /\ Placed(p)
           /\ proc[p] \in Slot /\ proc[p].at \notin {"none", "dying"}
           /\ 0 < proc[p].pid /\ proc[p].pid < nextpid /\ proc[p].tid < nexttid
           /\ \A q \in Procs : q # p => ~On(q)
<1>1. Placed(p) /\ Alone(p)  BY OneRuns DEF IInv, Places
<1>2. proc[p] \in Slot  BY SlotFields DEF IInv
<1>3. InUse(p)  BY DEF InUse
<1>4. 0 < proc[p].pid /\ proc[p].pid < nextpid /\ proc[p].tid < nexttid  BY <1>3 DEF IInv, Ids
<1>5. \A q \in Procs : q # p => ~On(q)  BY <1>1 DEF Alone
<1> QED  BY <1>1, <1>2, <1>3, <1>4, <1>5 DEF Placed, Lives

-----------------------------------------------------------------------------
(* Each action.                                                             *)

LEMMA ScheduleKeeps ==
    ASSUME IInv, OneCpu, NEW p \in Procs, NEW c \in CPUs, Schedule(c, p)
    PROVE  IInv'
<1>1. CASE proc[p].pgdir = NoDir
  <2>1. panic' \in Panics  BY <1>1 DEF Schedule, Panic, Panics
  <2> QED  BY <1>1, <2>1, StopKeeps DEF Schedule, Panic, memory
<1>2. CASE proc[p].pgdir # NoDir
  <2>1. /\ cpu[c] = NoProc /\ proc[p].state = "RUNNABLE" /\ cpu' = [cpu EXCEPT ![c] = p]
        /\ proc' = [proc EXCEPT ![p].state = "RUNNING"]
        /\ UNCHANGED <<dirs, mem, nextpid, nexttid, panic>>
    BY <1>2 DEF Schedule, memory
  <2>2. TypeOK /\ NoProc \notin Procs /\ proc \in [Procs -> Slot]
    BY Types, Bounds DEF IInv
  <2>3. \A q \in Procs : ~On(q)
    BY <2>1, <2>2 DEF On, OneCpu
  <2>4. Alone(p) /\ Placed(p)
    BY <2>3 DEF Alone, IInv, Places, Placed
  <2>5. cpu' \in [CPUs -> Procs \union {NoProc}] /\ cpu'[c] = p
    BY <2>1, <2>2 DEF TypeOK
  <2>6. \A q \in Procs \ {p} : On(q)' <=> On(q)
    <3>1. \A d \in CPUs : cpu'[d] = p  BY <2>5 DEF OneCpu
    <3> QED  BY <2>3, <3>1 DEF On
  <2>7. On(p)'  BY <2>5 DEF On
  <2>8. proc'[p] = [proc[p] EXCEPT !.state = "RUNNING"] /\ proc[p] \in Slot
    BY <2>1, <2>2
  <2>9. proc' \in [Procs -> Slot] /\ \A q \in Procs \ {p} : proc'[q] = proc[q]
    BY <2>1, <2>2 DEF Slot, States
  <2>10. /\ proc'[p].state = "RUNNING" /\ proc'[p].pid = proc[p].pid /\ proc'[p].tid = proc[p].tid
         /\ proc'[p].origin = proc[p].origin /\ proc'[p].pgdir = proc[p].pgdir
         /\ proc'[p].at = proc[p].at /\ proc'[p].np = proc[p].np /\ proc'[p].arg = proc[p].arg
         /\ proc'[p].sleeps = proc[p].sleeps
    BY <2>8 DEF Slot
  <2>11. Placed(p)'
    BY <2>1, <2>4, <2>7, <2>10 DEF Placed, Lives
  <2>12. Only(p)
    BY <2>1, <2>9, <2>10 DEF Only, CoreSame, IInv, JoinArgs
  <2>13. mem' \in [Dirs -> SUBSET VA]  BY <2>1, <2>2 DEF TypeOK
  <2> QED  BY <2>1, <2>4, <2>5, <2>6, <2>11, <2>12, <2>13, OnlyKeeps
<1> QED  BY <1>1, <1>2

(* A running thread that goes on, yields or sleeps, in its own slot.        *)
Local(p) ==
    /\ proc' \in [Procs -> Slot] /\ \A q \in Procs \ {p} : proc'[q] = proc[q]
    /\ proc'[p].pid = proc[p].pid /\ proc'[p].tid = proc[p].tid
    /\ proc'[p].origin = proc[p].origin /\ proc'[p].pgdir = proc[p].pgdir
    /\ \/ proc'[p].state = "RUNNING" /\ UNCHANGED cpu
       \/ proc'[p].state \in {"RUNNABLE", "SLEEPING"} /\ Leaves(p)
    /\ \/ proc'[p].at \in {"user", "sbrk", "wait"}
       \/ proc'[p].at = proc[p].at /\ proc'[p].np = proc[p].np /\ proc'[p].at # "join"
       \/ /\ proc'[p].at = "join" /\ proc'[p].arg # 0 /\ proc'[p].arg <= MaxTid
          /\ proc'[p].sleeps = "self" \/ proc'[p].state # "SLEEPING"

LEMMA LocalKeeps ==
    ASSUME IInv, OneCpu, NEW p \in Procs, On(p), proc[p].state = "RUNNING", Local(p),
           mem' \in [Dirs -> SUBSET VA], UNCHANGED <<dirs, nextpid, nexttid, panic>>
    PROVE  IInv'
<1>1. Alone(p) /\ Placed(p) /\ proc[p].at \notin {"none", "dying"}  BY Running
<1>2. TypeOK  BY DEF IInv
<1>3. cpu' \in [CPUs -> Procs \union {NoProc}]
  BY <1>2, LeavesType DEF Local, TypeOK
<1>4. \A q \in Procs \ {p} : On(q)' <=> On(q)
  <2>1. CASE UNCHANGED cpu  BY <2>1 DEF On
  <2>2. CASE Leaves(p)  BY <1>2, <2>2, LeavesOn
  <2> QED  BY <2>1, <2>2 DEF Local
<1>5. On(p)' <=> proc'[p].state = "RUNNING"
  <2>1. CASE proc'[p].state = "RUNNING" /\ UNCHANGED cpu  BY <2>1 DEF On
  <2>2. CASE proc'[p].state \in {"RUNNABLE", "SLEEPING"} /\ Leaves(p)
    BY <1>2, <2>2, LeavesOn
  <2> QED  BY <2>1, <2>2 DEF Local
<1>6. Placed(p)'
  <2>1. proc'[p].at \notin {"none", "dying"}  BY <1>1 DEF Local
  <2>2. proc'[p].at \in {"exec", "exit"} => proc'[p].tid = 0  BY <1>1 DEF Local, Placed
  <2>3. proc'[p].state \in {"RUNNING", "RUNNABLE", "SLEEPING"}  BY DEF Local
  <2>4. proc'[p].state = "SLEEPING" /\ proc'[p].at = "join" => proc'[p].sleeps = "self"
    BY DEF Local
  <2> QED  BY <1>5, <2>1, <2>2, <2>3, <2>4 DEF Placed, Lives
<1>7. Only(p)
  BY DEF Local, Only, CoreSame
<1> QED  BY <1>1, <1>3, <1>4, <1>6, <1>7, OnlyKeeps

LEMMA YieldKeeps ==
    ASSUME IInv, OneCpu, NEW p \in Procs, Yield(p)
    PROVE  IInv'
<1>1. /\ On(p) /\ proc[p].state = "RUNNING" /\ Leaves(p)
      /\ proc' = [proc EXCEPT ![p].state = "RUNNABLE"]
      /\ UNCHANGED <<dirs, mem, nextpid, nexttid, panic>>
  BY DEF Yield, memory
<1>2. TypeOK /\ proc \in [Procs -> Slot]  BY Types DEF IInv
<1>3. proc' \in [Procs -> Slot] /\ \A q \in Procs \ {p} : proc'[q] = proc[q]
  BY <1>1, <1>2 DEF Slot, States
<1>4. proc'[p] = [proc[p] EXCEPT !.state = "RUNNABLE"] /\ proc[p] \in Slot
  BY <1>1, <1>2
<1>5. CASE proc[p].at # "join"
  <2>1. Local(p)  BY <1>1, <1>3, <1>4, <1>5 DEF Local, Slot
  <2> QED  BY <1>1, <1>2, <2>1, LocalKeeps DEF TypeOK
<1>6. CASE proc[p].at = "join"
  <2>1. proc[p].arg # 0 /\ proc[p].arg <= MaxTid  BY <1>6 DEF IInv, JoinArgs
  <2>2. Local(p)  BY <1>1, <1>3, <1>4, <1>6, <2>1 DEF Local, Slot
  <2> QED  BY <1>1, <1>2, <2>2, LocalKeeps DEF TypeOK
<1> QED  BY <1>5, <1>6

LEMMA SleepKeeps ==
    ASSUME IInv, OneCpu, NEW p \in Procs, Sleep(p)
    PROVE  IInv'
<1>1. /\ On(p) /\ proc[p].state = "RUNNING" /\ proc[p].at = "user" /\ Leaves(p)
      /\ proc' = [proc EXCEPT ![p].state = "SLEEPING", ![p].sleeps = "io"]
      /\ UNCHANGED <<dirs, mem, nextpid, nexttid, panic>>
  BY DEF Sleep, Enters, Runs, memory
<1>2. TypeOK /\ proc \in [Procs -> Slot]  BY Types DEF IInv
<1>3. proc'[p] = [proc[p] EXCEPT !.state = "SLEEPING", !.sleeps = "io"] /\ proc[p] \in Slot
  BY <1>1, <1>2
<1>4. proc'[p] \in Slot  BY <1>3 DEF Slot, States
<1>5. proc' \in [Procs -> Slot] /\ \A q \in Procs \ {p} : proc'[q] = proc[q]
  BY <1>1, <1>2, <1>4
<1>6. Local(p)  BY <1>1, <1>3, <1>5 DEF Local, Slot
<1> QED  BY <1>1, <1>2, <1>6, LocalKeeps DEF TypeOK

LEMMA SbrkKeeps ==
    ASSUME IInv, OneCpu, NEW p \in Procs, Sbrk(p)
    PROVE  IInv'
<1>1. /\ On(p) /\ proc[p].state = "RUNNING" /\ UNCHANGED cpu
      /\ proc' = [proc EXCEPT ![p].at = "sbrk", ![p].arg = proc[p].sz]
      /\ UNCHANGED <<dirs, mem, nextpid, nexttid, panic>>
  BY DEF Sbrk, Enters, Runs, memory
<1>2. TypeOK /\ proc \in [Procs -> Slot]  BY Types DEF IInv
<1>3. proc[p].sz \in 0 .. MaxArg
  BY <1>2, SlotFields, Args
<1>4. proc'[p] = [proc[p] EXCEPT !.at = "sbrk", !.arg = proc[p].sz] /\ proc[p] \in Slot
  BY <1>1, <1>2
<1>5. proc'[p] \in Slot  BY <1>3, <1>4 DEF Slot, Ats
<1>6. proc' \in [Procs -> Slot] /\ \A q \in Procs \ {p} : proc'[q] = proc[q]
  BY <1>1, <1>2, <1>5
<1>7. Local(p)  BY <1>1, <1>4, <1>6 DEF Local, Slot
<1> QED  BY <1>1, <1>2, <1>7, LocalKeeps DEF TypeOK

LEMMA ExecBadKeeps ==
    ASSUME IInv, OneCpu, NEW p \in Procs, ExecBad(p)
    PROVE  IInv'
<1>1. /\ On(p) /\ proc[p].state = "RUNNING" /\ UNCHANGED cpu
      /\ proc' = [proc EXCEPT ![p].at = "user"]
      /\ UNCHANGED <<dirs, mem, nextpid, nexttid, panic>>
  BY DEF ExecBad, Runs, memory
<1>2. TypeOK /\ proc \in [Procs -> Slot]  BY Types DEF IInv
<1>3. proc' \in [Procs -> Slot] /\ \A q \in Procs \ {p} : proc'[q] = proc[q]
  BY <1>1, <1>2 DEF Slot, Ats
<1>4. proc'[p] = [proc[p] EXCEPT !.at = "user"] /\ proc[p] \in Slot
  BY <1>1, <1>2
<1>5. Local(p)  BY <1>1, <1>3, <1>4 DEF Local, Slot
<1> QED  BY <1>1, <1>2, <1>5, LocalKeeps DEF TypeOK

LEMMA ThreadExitMarkKeeps ==
    ASSUME IInv, OneCpu, NEW p \in Procs, ThreadExitMark(p)
    PROVE  IInv'
<1>1. CASE proc[p].tid = 0
  <2>1. panic' \in Panics  BY <1>1 DEF ThreadExitMark, Panic, Panics
  <2> QED  BY <1>1, <2>1, StopKeeps DEF ThreadExitMark, Panic, memory
<1>2. CASE proc[p].tid # 0
  <2>1. /\ On(p) /\ proc[p].state = "RUNNING" /\ UNCHANGED cpu
        /\ proc' = [proc EXCEPT ![p].state = "ZOMBIE", ![p].at = "dying"]
        /\ UNCHANGED <<dirs, mem, nextpid, nexttid, panic>>
    BY <1>2 DEF ThreadExitMark, Enters, Runs, memory
  <2>2. TypeOK /\ proc \in [Procs -> Slot]  BY Types DEF IInv
  <2>3. proc'[p] = [proc[p] EXCEPT !.state = "ZOMBIE", !.at = "dying"] /\ proc[p] \in Slot
    BY <2>1, <2>2
  <2>4. proc'[p] \in Slot  BY <2>3 DEF Slot, Ats, States
  <2>5. proc' \in [Procs -> Slot] /\ \A q \in Procs \ {p} : proc'[q] = proc[q]
    BY <2>1, <2>2, <2>4
  <2>6. /\ proc'[p].state = "ZOMBIE" /\ proc'[p].at = "dying" /\ proc'[p].pid = proc[p].pid
        /\ proc'[p].tid = proc[p].tid /\ proc'[p].origin = proc[p].origin
        /\ proc'[p].pgdir = proc[p].pgdir
    BY <2>3 DEF Slot
  <2>7. Alone(p) /\ proc[p].state # "EMBRYO"  BY <2>1, Running
  <2>8. \A q \in Procs : On(q)' <=> On(q)  BY <2>1 DEF On
  <2>9. Placed(p)'  BY <1>2, <2>1, <2>6, <2>8 DEF Placed, Lives
  <2>10. Only(p)  BY <1>2, <2>1, <2>5, <2>6 DEF Only, CoreSame
  <2>11. cpu' \in [CPUs -> Procs \union {NoProc}] /\ mem' \in [Dirs -> SUBSET VA]
    BY <2>1, <2>2 DEF TypeOK
  <2> QED  BY <2>1, <2>7, <2>8, <2>9, <2>10, <2>11, OnlyKeeps
<1> QED  BY <1>1, <1>2

(* Steps that touch other slots as well: what is asked of slots not in use. *)
LEMMA BlanksKept ==
    ASSUME IInv, \A q \in Procs : CoreSame(q),
           \A q \in Procs : proc[q].state = "UNUSED" =>
               proc'[q] = [proc[q] EXCEPT !.killed = proc'[q].killed]
    PROVE  Blanks'
<1> SUFFICES ASSUME NEW q \in Procs, ~InUse(q)'
             PROVE  proc'[q] = [Blank EXCEPT !.killed = proc'[q].killed]
  BY DEF Blanks
<1>1. proc[q].state = "UNUSED"  BY DEF InUse, CoreSame
<1>2. proc[q] = [Blank EXCEPT !.killed = proc[q].killed]
  BY <1>1 DEF IInv, Blanks, InUse
<1>3. proc'[q] = [proc[q] EXCEPT !.killed = proc'[q].killed]  BY <1>1
<1> QED  BY <1>2, <1>3 DEF Blank

LEMMA InterruptKeeps ==
    ASSUME IInv, OneCpu, Interrupt
    PROVE  IInv'
<1>1. PICK done \in SUBSET Procs :
          /\ done # {}
          /\ \A q \in done : proc[q].state = "SLEEPING"
          /\ proc' = [q \in Procs |-> IF q \in done
                         THEN [proc[q] EXCEPT !.state = "RUNNABLE", !.sleeps = "no"]
                         ELSE proc[q]]
  <2> DEFINE D == {q \in Procs : proc[q].state = "SLEEPING" /\ proc[q].sleeps = "io"}
  <2>1. /\ D # {}
        /\ \A q \in D : proc[q].state = "SLEEPING"
        /\ proc' = [q \in Procs |-> IF q \in D
                         THEN [proc[q] EXCEPT !.state = "RUNNABLE", !.sleeps = "no"]
                         ELSE proc[q]]
    BY DEF Interrupt
  <2>2. D \in SUBSET Procs  OBVIOUS
  <2> HIDE DEF D
  <2> QED  BY <2>1, <2>2
<1>2. UNCHANGED <<cpu, dirs, mem, nextpid, nexttid, panic>>  BY DEF Interrupt, memory
<1>3. TypeOK /\ proc \in [Procs -> Slot]  BY Types DEF IInv
<1>4. \A q \in Procs : proc'[q] = IF q \in done
          THEN [proc[q] EXCEPT !.state = "RUNNABLE", !.sleeps = "no"] ELSE proc[q]
  BY <1>1
<1>5. \A q \in Procs : proc'[q] \in Slot /\ Mild(q)
  <2> SUFFICES ASSUME NEW q \in Procs PROVE proc'[q] \in Slot /\ Mild(q)  OBVIOUS
  <2>1. proc[q] \in Slot  BY <1>3
  <2>2. CASE q \in done
    <3>1. proc'[q] = [proc[q] EXCEPT !.state = "RUNNABLE", !.sleeps = "no"]
          /\ proc[q].state = "SLEEPING"
      BY <1>1, <1>4, <2>2
    <3> QED  BY <2>1, <3>1 DEF Slot, States, Mild, CoreSame
  <2>3. CASE q \notin done
    <3>1. proc'[q] = proc[q]  BY <1>4, <2>3
    <3> QED  BY <2>1, <3>1 DEF Mild, CoreSame
  <2> QED  BY <2>2, <2>3
<1>6. \A q \in Procs : (On(q)' <=> On(q))  BY <1>2 DEF On
<1>7. PICK p \in Procs : Alone(p) /\ proc[p].state # "EMBRYO"
  <2>1. CASE \E q \in Procs : On(q)
    <3>1. PICK q \in Procs : On(q)  BY <2>1
    <3>2. Alone(q) /\ Placed(q)  BY <3>1, OneRuns DEF IInv, Places
    <3> QED  BY <3>1, <3>2 DEF Placed
  <2>2. CASE ~\E q \in Procs : On(q)
    <3>1. PICK q \in done : TRUE  BY <1>1
    <3>2. \A r \in Procs : Placed(r) /\ ~On(r)  BY <2>2 DEF IInv, Places
    <3>3. Alone(q)  BY <3>2 DEF Alone, Placed
    <3> QED  BY <1>1, <3>1, <3>3
  <2> QED  BY <2>1, <2>2
<1>8. Becomes(p)
  <2>1. Mild(p)  BY <1>5
  <2>2. proc[p].at = "join" => proc[p].arg # 0 /\ proc[p].arg <= MaxTid
    BY DEF IInv, JoinArgs
  <2> QED  BY <1>7, <2>1, <2>2 DEF Becomes, Mild, CoreSame
<1>9. Placed(p)'
  <2>1. Mild(p) /\ Placed(p) /\ (On(p)' <=> On(p))  BY <1>5, <1>6 DEF IInv, Places
  <2> QED  BY <2>1 DEF Mild, CoreSame, Placed, Lives
<1>10. Steps(p)  BY <1>2, <1>5, <1>6, <1>8, <1>9 DEF Steps
<1>11. proc' \in [Procs -> Slot]  BY <1>1, <1>5
<1>12. TypeOK'  BY <1>2, <1>3, <1>11 DEF TypeOK, Slot, MaxArg
<1>13. Blanks'
  <2>1. \A q \in Procs : CoreSame(q)  BY <1>5 DEF Mild
  <2>2. \A q \in Procs : proc[q].state = "UNUSED" => proc'[q] = proc[q]  BY <1>1, <1>4
  <2>3. \A q \in Procs : proc[q] = [proc[q] EXCEPT !.killed = proc[q].killed]
    BY <1>3 DEF Slot
  <2> QED  BY <2>1, <2>2, <2>3, BlanksKept
<1> QED  BY <1>7, <1>10, <1>12, <1>13, StepsKeep

LEMMA KillKeeps ==
    ASSUME IInv, OneCpu, NEW p \in Procs, NEW n \in TargetPids, Kill(p, n)
    PROVE  IInv'
<1>1. /\ On(p) /\ proc[p].state = "RUNNING" /\ proc[p].at = "user"
      /\ UNCHANGED <<cpu, dirs, mem, nextpid, nexttid, panic>>
  BY DEF Kill, Enters, Runs, memory
<1>2. proc' = [q \in Procs |->
          IF q \notin Victims(n) THEN proc[q]
          ELSE IF proc[q].state = "SLEEPING"
          THEN [proc[q] EXCEPT !.killed = TRUE, !.state = "RUNNABLE", !.sleeps = "no"]
          ELSE [proc[q] EXCEPT !.killed = TRUE]]
  BY DEF Kill
<1>3. TypeOK /\ proc \in [Procs -> Slot]  BY Types DEF IInv
<1>4. \A q \in Procs :
          /\ proc'[q] \in Slot /\ Mild(q)
          /\ proc[q].state = "UNUSED" => proc'[q] = [proc[q] EXCEPT !.killed = proc'[q].killed]
  <2> SUFFICES ASSUME NEW q \in Procs
               PROVE  /\ proc'[q] \in Slot /\ Mild(q)
                      /\ proc[q].state = "UNUSED" =>
                           proc'[q] = [proc[q] EXCEPT !.killed = proc'[q].killed]
    OBVIOUS
  <2>1. proc[q] \in Slot  BY <1>3
  <2>2. CASE q \notin Victims(n)
    <3>1. proc'[q] = proc[q]  BY <1>2, <2>2
    <3> QED  BY <2>1, <3>1 DEF Mild, CoreSame, Slot
  <2>3. CASE q \in Victims(n) /\ proc[q].state = "SLEEPING"
    <3>1. proc'[q] = [proc[q] EXCEPT !.killed = TRUE, !.state = "RUNNABLE", !.sleeps = "no"]
      BY <1>2, <2>3
    <3> QED  BY <2>1, <2>3, <3>1 DEF Mild, CoreSame, Slot, States
  <2>4. CASE q \in Victims(n) /\ proc[q].state # "SLEEPING"
    <3>1. proc'[q] = [proc[q] EXCEPT !.killed = TRUE]  BY <1>2, <2>4
    <3> QED  BY <2>1, <2>4, <3>1 DEF Mild, CoreSame, Slot
  <2> QED  BY <2>2, <2>3, <2>4
<1>5. \A q \in Procs : (On(q)' <=> On(q))  BY <1>1 DEF On
<1>6. Alone(p) /\ Placed(p)  BY <1>1, Running
<1>7. Mild(p)  BY <1>4
<1>8. Becomes(p)  BY <1>1, <1>7 DEF Becomes, Mild, CoreSame
<1>9. Placed(p)'
  BY <1>5, <1>6, <1>7 DEF Mild, CoreSame, Placed, Lives
<1>10. Steps(p)  BY <1>1, <1>4, <1>5, <1>8, <1>9 DEF Steps
<1>11. proc' \in [Procs -> Slot]  BY <1>2, <1>4
<1>12. TypeOK'  BY <1>1, <1>3, <1>11 DEF TypeOK, Slot, MaxArg
<1>13. \A q \in Procs : CoreSame(q)  BY <1>4 DEF Mild
<1>14. Blanks'  BY <1>4, <1>13, BlanksKept
<1> QED  BY <1>6, <1>10, <1>12, <1>14, StepsKeep

(* What exit and thread_exit do to the other slots.                         *)
LEMMA AbandonSlot ==
    ASSUME TypeOK, NEW p \in Procs
    PROVE  /\ Abandon(p) \in [Procs -> Slot]
           /\ \A q \in Procs :
                LET a == Abandon(p)[q] IN
                /\ a.pid = proc[q].pid /\ a.tid = proc[q].tid /\ a.origin = proc[q].origin
                /\ a.pgdir = proc[q].pgdir /\ a.at = proc[q].at /\ a.np = proc[q].np
                /\ a.arg = proc[q].arg /\ a.killed = proc[q].killed
                /\ a.parent = IF proc[q].parent = p THEN InitProc ELSE proc[q].parent
                /\ \/ a.state = proc[q].state /\ a.sleeps = proc[q].sleeps
                   \/ proc[q].state = "SLEEPING" /\ a.state = "RUNNABLE"
                /\ q = proc[p].parent /\ proc[q].sleeps = "self" => a.state # "SLEEPING"
                /\ proc[q].state # "SLEEPING" /\ proc[q].parent # p => a = proc[q]
<1> DEFINE kids   == {q \in Procs : proc[q].parent = p}
           called == {proc[p].parent} \union
                     {q \in {InitProc} : \E k \in kids : proc[k].state = "ZOMBIE"}
           pr     == [q \in Procs |-> IF q \in kids THEN [proc[q] EXCEPT !.parent = InitProc]
                                                    ELSE proc[q]]
<1>1. Abandon(p) = Woken(pr, called)  BY DEF Abandon
<1>2. proc \in [Procs -> Slot]  BY Types
<1>3. InitProc \in Procs  BY Bounds
<1>4. \A q \in Procs : q \in kids <=> proc[q].parent = p  OBVIOUS
<1>5. proc[p].parent \in called  OBVIOUS
<1>6. \A q \in Procs : pr[q] = IF q \in kids THEN [proc[q] EXCEPT !.parent = InitProc]
                                             ELSE proc[q]
  OBVIOUS
<1> HIDE DEF kids, called, pr
<1>7. \A q \in Procs : Abandon(p)[q] =
          IF q \in called /\ pr[q].state = "SLEEPING" /\ pr[q].sleeps = "self"
          THEN [pr[q] EXCEPT !.state = "RUNNABLE", !.sleeps = "no"] ELSE pr[q]
  BY <1>1 DEF Woken
<1>8. ASSUME NEW q \in Procs
      PROVE  LET a == Abandon(p)[q] IN
             /\ a \in Slot
             /\ a.pid = proc[q].pid /\ a.tid = proc[q].tid /\ a.origin = proc[q].origin
             /\ a.pgdir = proc[q].pgdir /\ a.at = proc[q].at /\ a.np = proc[q].np
             /\ a.arg = proc[q].arg /\ a.killed = proc[q].killed
             /\ a.parent = IF proc[q].parent = p THEN InitProc ELSE proc[q].parent
             /\ \/ a.state = proc[q].state /\ a.sleeps = proc[q].sleeps
                \/ proc[q].state = "SLEEPING" /\ a.state = "RUNNABLE"
             /\ q = proc[p].parent /\ proc[q].sleeps = "self" => a.state # "SLEEPING"
             /\ proc[q].state # "SLEEPING" /\ proc[q].parent # p => a = proc[q]
  <2>1. proc[q] \in Slot  BY <1>2
  <2>2. /\ pr[q] \in Slot
        /\ pr[q].pid = proc[q].pid /\ pr[q].tid = proc[q].tid /\ pr[q].origin = proc[q].origin
        /\ pr[q].pgdir = proc[q].pgdir /\ pr[q].at = proc[q].at /\ pr[q].np = proc[q].np
        /\ pr[q].arg = proc[q].arg /\ pr[q].killed = proc[q].killed
        /\ pr[q].parent = IF proc[q].parent = p THEN InitProc ELSE proc[q].parent
        /\ pr[q].state = proc[q].state /\ pr[q].sleeps = proc[q].sleeps
        /\ proc[q].parent # p => pr[q] = proc[q]
    <3>1. CASE proc[q].parent = p
      <4>1. pr[q] = [proc[q] EXCEPT !.parent = InitProc]  BY <1>4, <1>6, <3>1
      <4> QED  BY <1>3, <2>1, <3>1, <4>1 DEF Slot
    <3>2. CASE proc[q].parent # p
      <4>1. pr[q] = proc[q]  BY <1>4, <1>6, <3>2
      <4> QED  BY <2>1, <3>2, <4>1
    <3> QED  BY <3>1, <3>2
  <2>3. CASE q \in called /\ pr[q].state = "SLEEPING" /\ pr[q].sleeps = "self"
    <3>1. Abandon(p)[q] = [pr[q] EXCEPT !.state = "RUNNABLE", !.sleeps = "no"]
      BY <1>7, <2>3
    <3> DEFINE a == Abandon(p)[q]
    <3>2. a = [pr[q] EXCEPT !.state = "RUNNABLE", !.sleeps = "no"] /\ pr[q] \in Slot
      BY <2>2, <3>1
    <3> HIDE DEF a
    <3>3. a \in Slot  BY <3>2 DEF Slot, States
    <3>4. /\ a.pid = pr[q].pid /\ a.tid = pr[q].tid /\ a.origin = pr[q].origin
          /\ a.pgdir = pr[q].pgdir /\ a.at = pr[q].at /\ a.np = pr[q].np
          /\ a.arg = pr[q].arg /\ a.killed = pr[q].killed /\ a.parent = pr[q].parent
          /\ a.state = "RUNNABLE"
      BY <3>2 DEF Slot
    <3> QED  BY <2>2, <2>3, <3>3, <3>4 DEF a
  <2>4. CASE ~(q \in called /\ pr[q].state = "SLEEPING" /\ pr[q].sleeps = "self")
    <3>1. Abandon(p)[q] = pr[q]  BY <1>7, <2>4
    <3> QED  BY <1>5, <2>2, <2>4, <3>1
  <2> QED  BY <2>3, <2>4
<1>9. Abandon(p) \in [Procs -> Slot]
  <2>1. Abandon(p) = [q \in Procs |-> Abandon(p)[q]]  BY <1>1 DEF Woken
  <2> QED  BY <1>8, <2>1
<1> QED  BY <1>8, <1>9

LEMMA ThreadExitKeeps ==
    ASSUME IInv, OneCpu, NEW p \in Procs, ThreadExit(p)
    PROVE  IInv'
<1>1. /\ On(p) /\ proc[p].at = "dying" /\ Leaves(p)
      /\ proc' = [Abandon(p) EXCEPT ![p].at = "none"]
      /\ UNCHANGED <<dirs, mem, nextpid, nexttid, panic>>
  BY DEF ThreadExit, memory
<1>2. TypeOK /\ proc \in [Procs -> Slot]  BY Types DEF IInv
<1>3. Alone(p) /\ Placed(p) /\ proc[p].state = "ZOMBIE" /\ proc[p].tid # 0
  BY <1>1, OneRuns DEF IInv, Places, Placed
<1> DEFINE A == Abandon(p)
<1>4. A \in [Procs -> Slot]  BY <1>2, AbandonSlot
<1>5. \A q \in Procs \ {p} : proc'[q] = A[q]  BY <1>1, <1>4
<1>6. proc'[p] = [A[p] EXCEPT !.at = "none"]  BY <1>1, <1>4
<1> HIDE DEF A
<1>7. /\ proc'[p] \in Slot /\ proc'[p].state = "ZOMBIE" /\ proc'[p].at = "none"
      /\ proc'[p].pid = proc[p].pid /\ proc'[p].tid = proc[p].tid
      /\ proc'[p].origin = proc[p].origin /\ proc'[p].pgdir = proc[p].pgdir
  <2>1. /\ A[p] \in Slot /\ A[p].state = "ZOMBIE"
        /\ A[p].pid = proc[p].pid /\ A[p].tid = proc[p].tid
        /\ A[p].origin = proc[p].origin /\ A[p].pgdir = proc[p].pgdir
    BY <1>2, <1>3, <1>4, AbandonSlot DEF A
  <2> QED  BY <1>6, <2>1 DEF Slot, Ats
<1>8. \A q \in Procs \ {p} : proc'[q] \in Slot /\ Mild(q)
  BY <1>2, <1>4, <1>5, AbandonSlot DEF A, Mild, CoreSame
<1>9. Becomes(p)
  BY <1>3, <1>7 DEF Becomes, CoreSame
<1>10. \A q \in Procs : On(q)' <=> q # p /\ On(q)  BY <1>1, <1>2, LeavesOn
<1>11. Placed(p)'  BY <1>7, <1>10 DEF Placed, Lives
<1>12. Steps(p)  BY <1>1, <1>8, <1>9, <1>10, <1>11 DEF Steps
<1>13. proc' \in [Procs -> Slot]  BY <1>1, <1>4, <1>7, <1>8 DEF A
<1>14. TypeOK'  BY <1>1, <1>2, <1>13, LeavesType DEF TypeOK, Slot, MaxArg
<1>15. Blanks'
  <2>1. \A q \in Procs : CoreSame(q)  BY <1>8, <1>9 DEF Mild, Becomes
  <2>2. \A q \in Procs : proc[q].state = "UNUSED" => proc[q].parent # p
    <3>1. \A q \in Procs : proc[q].state = "UNUSED" =>
              proc[q] = [Blank EXCEPT !.killed = proc[q].killed]
      BY DEF IInv, Blanks, InUse
    <3>2. \A q \in Procs : proc[q].state = "UNUSED" => proc[q].parent = NoProc
      BY <3>1 DEF Blank
    <3> QED  BY <3>2, Bounds
  <2>3. \A q \in Procs : proc[q].state = "UNUSED" => proc'[q] = proc[q]
    BY <1>2, <1>3, <1>5, <2>2, AbandonSlot DEF A
  <2>4. \A q \in Procs : proc[q] = [proc[q] EXCEPT !.killed = proc[q].killed]
    BY <1>2 DEF Slot
  <2> QED  BY <2>1, <2>3, <2>4, BlanksKept
<1> QED  BY <1>3, <1>12, <1>14, <1>15, StepsKeep

LEMMA ExitDoneKeeps ==
    ASSUME IInv, OneCpu, NEW p \in Procs, ExitDone(p)
    PROVE  IInv'
<1>1. /\ On(p) /\ proc[p].at = "exit" /\ proc[p].state = "RUNNING" /\ Leaves(p)
      /\ proc' = [Abandon(p) EXCEPT ![p].state = "ZOMBIE", ![p].at = "none"]
      /\ UNCHANGED <<dirs, mem, nextpid, nexttid, panic>>
  BY DEF ExitDone, Runs, memory
<1>2. TypeOK /\ proc \in [Procs -> Slot]  BY Types DEF IInv
<1>3. Alone(p) /\ Placed(p)  BY <1>1, OneRuns DEF IInv, Places
<1> DEFINE A == Abandon(p)
<1>4. A \in [Procs -> Slot]  BY <1>2, AbandonSlot
<1>5. \A q \in Procs \ {p} : proc'[q] = A[q]  BY <1>1, <1>4
<1>6. proc'[p] = [A[p] EXCEPT !.state = "ZOMBIE", !.at = "none"]  BY <1>1, <1>4
<1> HIDE DEF A
<1>7. /\ proc'[p] \in Slot /\ proc'[p].state = "ZOMBIE" /\ proc'[p].at = "none"
      /\ proc'[p].pid = proc[p].pid /\ proc'[p].tid = proc[p].tid
      /\ proc'[p].origin = proc[p].origin /\ proc'[p].pgdir = proc[p].pgdir
  <2>1. /\ A[p] \in Slot
        /\ A[p].pid = proc[p].pid /\ A[p].tid = proc[p].tid
        /\ A[p].origin = proc[p].origin /\ A[p].pgdir = proc[p].pgdir
    BY <1>2, <1>4, AbandonSlot DEF A
  <2>2. proc'[p] \in Slot  BY <1>6, <2>1 DEF Slot, States, Ats
  <2>3. /\ proc'[p].state = "ZOMBIE" /\ proc'[p].at = "none"
        /\ proc'[p].pid = A[p].pid /\ proc'[p].tid = A[p].tid
        /\ proc'[p].origin = A[p].origin /\ proc'[p].pgdir = A[p].pgdir
    BY <1>6, <2>1 DEF Slot
  <2> QED  BY <2>1, <2>2, <2>3
<1>8. \A q \in Procs \ {p} : proc'[q] \in Slot /\ Mild(q)
  BY <1>2, <1>4, <1>5, AbandonSlot DEF A, Mild, CoreSame
<1>9. Becomes(p)
  BY <1>1, <1>7 DEF Becomes, CoreSame
<1>10. \A q \in Procs : On(q)' <=> q # p /\ On(q)  BY <1>1, <1>2, LeavesOn
<1>11. Placed(p)'  BY <1>7, <1>10 DEF Placed, Lives
<1>12. Steps(p)  BY <1>1, <1>8, <1>9, <1>10, <1>11 DEF Steps
<1>13. proc' \in [Procs -> Slot]  BY <1>1, <1>4, <1>7, <1>8 DEF A
<1>14. TypeOK'  BY <1>1, <1>2, <1>13, LeavesType DEF TypeOK, Slot, MaxArg
<1>15. Blanks'
  <2>1. \A q \in Procs : CoreSame(q)  BY <1>8, <1>9 DEF Mild, Becomes
  <2>2. \A q \in Procs : proc[q].state = "UNUSED" => proc[q].parent # p
    <3>1. \A q \in Procs : proc[q].state = "UNUSED" =>
              proc[q] = [Blank EXCEPT !.killed = proc[q].killed]
      BY DEF IInv, Blanks, InUse
    <3>2. \A q \in Procs : proc[q].state = "UNUSED" => proc[q].parent = NoProc
      BY <3>1 DEF Blank
    <3> QED  BY <3>2, Bounds
  <2>3. \A q \in Procs : proc[q].state = "UNUSED" => proc'[q] = proc[q]
    BY <1>1, <1>2, <1>5, <2>2, AbandonSlot DEF A
  <2>4. \A q \in Procs : proc[q] = [proc[q] EXCEPT !.killed = proc[q].killed]
    BY <1>2 DEF Slot
  <2> QED  BY <2>1, <2>3, <2>4, BlanksKept
<1> QED  BY <1>3, <1>12, <1>14, <1>15, StepsKeep

(* The step that makes a filled slot runnable.                              *)
LEMMA FilledKeeps ==
    ASSUME IInv, OneCpu, NEW p \in Procs, On(p), proc[p].state = "RUNNING",
           proc[p].at \in {"create", "copied"}, NEW l \in Procs, l = proc[p].np, l # p,
           proc' \in [Procs -> Slot], \A q \in Procs \ {p, l} : proc'[q] = proc[q],
           CoreSame(p), proc'[p].state = "RUNNING", proc'[p].at = "user",
           CoreSame(l), proc'[l].state = "RUNNABLE", proc'[l].at = "user",
           UNCHANGED <<cpu, dirs, mem, nextpid, nexttid, panic>>
    PROVE  IInv'
<1>1. Alone(p) /\ Placed(p)  BY Running
<1>2. TypeOK  BY DEF IInv
<1>3. TypeOK'  BY <1>2 DEF TypeOK, Slot, MaxArg
<1>4. \A q \in Procs : On(q)' <=> On(q)  BY DEF On
<1>5. Becomes(p)  BY DEF Becomes
<1>6. Placed(p)'  BY <1>4 DEF Placed, Lives
<1>7. \A q \in Procs \ {p} : Mild(q) \/ (Finished(p, q) /\ ~Builds(p)')
  BY DEF Mild, CoreSame, Finished, Builds
<1>8. Steps(p)  BY <1>4, <1>5, <1>6, <1>7 DEF Steps
<1>9. Blanks'
  <2>1. \A q \in Procs : CoreSame(q)  BY DEF CoreSame
  <2>2. proc[p].state # "UNUSED" /\ proc[l].state # "UNUSED"  BY DEF CoreSame
  <2>3. \A q \in Procs : proc[q].state = "UNUSED" => proc'[q] = proc[q]
    BY <2>2
  <2>4. \A q \in Procs : proc[q] = [proc[q] EXCEPT !.killed = proc[q].killed]
    BY <1>2, Types DEF Slot
  <2> QED  BY <2>1, <2>3, <2>4, BlanksKept
<1> QED  BY <1>1, <1>3, <1>8, <1>9, StepsKeep

LEMMA CreateDoneKeeps ==
    ASSUME IInv, OneCpu, NEW p \in Procs, CreateDone(p)
    PROVE  IInv'
<1>1. /\ On(p) /\ proc[p].at = "create" /\ proc[p].state = "RUNNING"
      /\ proc' = [proc EXCEPT ![proc[p].np].state = "RUNNABLE", ![proc[p].np].at = "user",
                              ![p].at = "user", ![p].np = NoProc]
      /\ UNCHANGED <<cpu, dirs, mem, nextpid, nexttid, panic>>
  BY DEF CreateDone, Runs, memory
<1>2. TypeOK /\ proc \in [Procs -> Slot]  BY Types DEF IInv
<1>3. PICK l \in Procs : l = proc[p].np /\ l # p /\ proc[l].state = "EMBRYO"
  <2>1. Filling(p)  BY DEF IInv, Fillings
  <2> QED  BY <1>1, <2>1 DEF Filling, Builds
<1>4. proc' = [proc EXCEPT ![l].state = "RUNNABLE", ![l].at = "user",
                           ![p].at = "user", ![p].np = NoProc]
  BY <1>1, <1>3
<1>5. /\ proc'[l] = [proc[l] EXCEPT !.state = "RUNNABLE", !.at = "user"]
      /\ proc'[p] = [proc[p] EXCEPT !.at = "user", !.np = NoProc]
      /\ \A q \in Procs \ {p, l} : proc'[q] = proc[q]
      /\ proc[p] \in Slot /\ proc[l] \in Slot
  BY <1>2, <1>3, <1>4
<1>6. /\ proc'[l] \in Slot /\ CoreSame(l)
      /\ proc'[l].state = "RUNNABLE" /\ proc'[l].at = "user"
  <2>1. proc'[l] = [proc[l] EXCEPT !.state = "RUNNABLE", !.at = "user"] /\ proc[l] \in Slot
    BY <1>5
  <2>2. proc'[l] \in Slot  BY <2>1 DEF Slot, States, Ats
  <2>3. proc[l].state = "EMBRYO"  BY <1>3
  <2> QED  BY <2>1, <2>2, <2>3 DEF Slot, CoreSame
<1>7. /\ proc'[p] \in Slot /\ CoreSame(p)
      /\ proc'[p].state = "RUNNING" /\ proc'[p].at = "user"
  <2>1. proc'[p] = [proc[p] EXCEPT !.at = "user", !.np = NoProc] /\ proc[p] \in Slot
    BY <1>5
  <2>2. proc[p].state = "RUNNING"  BY <1>1
  <2> QED  BY <2>1, <2>2 DEF Slot, Ats, CoreSame
<1>8. proc' \in [Procs -> Slot]
  BY <1>2, <1>4, <1>5, <1>6, <1>7
<1> QED  BY <1>1, <1>3, <1>5, <1>6, <1>7, <1>8, FilledKeeps

LEMMA ForkDoneKeeps ==
    ASSUME IInv, OneCpu, NEW p \in Procs, ForkDone(p)
    PROVE  IInv'
<1>1. /\ On(p) /\ proc[p].at = "copied" /\ proc[p].state = "RUNNING"
      /\ UNCHANGED <<cpu, dirs, mem, nextpid, nexttid, panic>>
  BY DEF ForkDone, Runs, memory
<1>2. TypeOK /\ proc \in [Procs -> Slot]  BY Types DEF IInv
<1>3. PICK l \in Procs : l = proc[p].np /\ l # p /\ proc[l].state = "EMBRYO" /\ proc[l].tid = 0
  <2>1. Filling(p)  BY DEF IInv, Fillings
  <2> QED  BY <1>1, <2>1 DEF Filling, Builds
<1>4. proc' = [proc EXCEPT ![l] = [proc[l] EXCEPT !.state = "RUNNABLE", !.tid = 0, !.parent = p,
                                                  !.sz = proc[p].sz, !.at = "user"],
                           ![p].at = "user", ![p].np = NoProc]
  BY <1>3 DEF ForkDone
<1>5. /\ proc'[l] = [proc[l] EXCEPT !.state = "RUNNABLE", !.tid = 0, !.parent = p,
                                    !.sz = proc[p].sz, !.at = "user"]
      /\ proc'[p] = [proc[p] EXCEPT !.at = "user", !.np = NoProc]
      /\ \A q \in Procs \ {p, l} : proc'[q] = proc[q]
      /\ proc[p] \in Slot /\ proc[l] \in Slot
  BY <1>2, <1>3, <1>4
<1>6. /\ proc'[l] \in Slot /\ CoreSame(l)
      /\ proc'[l].state = "RUNNABLE" /\ proc'[l].at = "user"
  <2>1. proc[p].sz \in 0 .. MaxSz /\ 0 \in 0 .. MaxTid
    BY <1>2, SlotFields, Bounds
  <2>2. proc'[l] = [proc[l] EXCEPT !.state = "RUNNABLE", !.tid = 0, !.parent = p,
                                   !.sz = proc[p].sz, !.at = "user"]
        /\ proc[l] \in Slot
    BY <1>5
  <2>3. proc'[l] \in Slot
    <3> DEFINE e == [proc[l] EXCEPT !.state = "RUNNABLE", !.tid = 0, !.parent = p]
    <3>1. e \in Slot  BY <2>1, <2>2 DEF Slot, States
    <3>2. proc'[l] = [e EXCEPT !.sz = proc[p].sz, !.at = "user"]  BY <2>2 DEF Slot
    <3> HIDE DEF e
    <3> QED  BY <2>1, <3>1, <3>2 DEF Slot, Ats
  <2>4. proc[l].tid = 0 /\ proc[l].state = "EMBRYO"  BY <1>3
  <2> QED  BY <2>2, <2>3, <2>4 DEF Slot, CoreSame
<1>7. /\ proc'[p] \in Slot /\ CoreSame(p)
      /\ proc'[p].state = "RUNNING" /\ proc'[p].at = "user"
  <2>1. proc'[p] = [proc[p] EXCEPT !.at = "user", !.np = NoProc] /\ proc[p] \in Slot
    BY <1>5
  <2>2. proc[p].state = "RUNNING"  BY <1>1
  <2> QED  BY <2>1, <2>2 DEF Slot, Ats, CoreSame
<1>8. proc' \in [Procs -> Slot]
  BY <1>2, <1>4, <1>5, <1>6, <1>7
<1> QED  BY <1>1, <1>3, <1>5, <1>6, <1>7, <1>8, FilledKeeps

LEMMA SbrkFailsKeeps ==
    ASSUME IInv, OneCpu, NEW p \in Procs, On(p), proc[p].state = "RUNNING", SbrkFails(p),
           mem' \in [Dirs -> SUBSET VA], UNCHANGED <<cpu, dirs, nextpid, nexttid, panic>>
    PROVE  IInv'
<1>1. TypeOK /\ proc \in [Procs -> Slot]  BY Types DEF IInv
<1>2. proc' = [proc EXCEPT ![p].at = "user", ![p].arg = 0]  BY DEF SbrkFails
<1>3. proc'[p] = [proc[p] EXCEPT !.at = "user", !.arg = 0] /\ proc[p] \in Slot
  BY <1>1, <1>2
<1>4. 0 \in 0 .. MaxArg  BY Args
<1>5. proc'[p] \in Slot  BY <1>3, <1>4 DEF Slot, Ats
<1>6. proc' \in [Procs -> Slot] /\ \A q \in Procs \ {p} : proc'[q] = proc[q]
  BY <1>1, <1>2, <1>5
<1>7. Local(p)  BY <1>3, <1>6 DEF Local, Slot
<1> QED  BY <1>7, LocalKeeps

LEMMA ResizedKeeps ==
    ASSUME IInv, OneCpu, NEW p \in Procs, On(p), proc[p].state = "RUNNING",
           NEW sz \in 0 .. MaxSz, proc' = Resized(p, sz),
           mem' \in [Dirs -> SUBSET VA], UNCHANGED <<cpu, dirs, nextpid, nexttid, panic>>
    PROVE  IInv'
<1>1. TypeOK /\ proc \in [Procs -> Slot]  BY Types DEF IInv
<1>2. Alone(p) /\ Placed(p) /\ 0 < proc[p].pid  BY Running
<1>3. \A q \in Procs : proc'[q] =
          IF q = p THEN [proc[p] EXCEPT !.sz = sz, !.at = "user", !.arg = 0]
          ELSE IF proc[q].pid = proc[p].pid THEN [proc[q] EXCEPT !.sz = sz] ELSE proc[q]
  BY DEF Resized, Family
<1>4. /\ proc'[p] \in Slot /\ CoreSame(p)
      /\ proc'[p].at = "user" /\ proc'[p].state = "RUNNING"
  <2>1. proc'[p] = [proc[p] EXCEPT !.sz = sz, !.at = "user", !.arg = 0] /\ proc[p] \in Slot
    BY <1>1, <1>3
  <2>2. 0 \in 0 .. MaxArg  BY Args
  <2>3. proc'[p] \in Slot  BY <2>1, <2>2 DEF Slot, Ats
  <2> QED  BY <2>1, <2>3 DEF Slot, CoreSame
<1>5. ASSUME NEW q \in Procs \ {p}
      PROVE  proc'[q] \in Slot /\ Mild(q)
  <2>1. proc[q] \in Slot  BY <1>1
  <2>2. CASE proc[q].pid = proc[p].pid
    <3>1. proc'[q] = [proc[q] EXCEPT !.sz = sz]  BY <1>3, <2>2
    <3> QED  BY <2>1, <3>1 DEF Slot, Mild, CoreSame
  <2>3. CASE proc[q].pid # proc[p].pid
    <3>1. proc'[q] = proc[q]  BY <1>3, <2>3
    <3> QED  BY <2>1, <3>1 DEF Mild, CoreSame
  <2> QED  BY <2>2, <2>3
<1>6. proc' \in [Procs -> Slot]  BY <1>4, <1>5 DEF Resized
<1>7. TypeOK'  BY <1>1, <1>6 DEF TypeOK, Slot, MaxArg
<1>8. Blanks'
  <2>1. \A q \in Procs : CoreSame(q)  BY <1>4, <1>5 DEF Mild
  <2>2. \A q \in Procs : proc[q].state = "UNUSED" =>
            proc[q] = [Blank EXCEPT !.killed = proc[q].killed]
    BY DEF IInv, Blanks, InUse
  <2>3. \A q \in Procs : proc[q].state = "UNUSED" => proc[q].pid = 0
    BY <2>2 DEF Blank
  <2>4. \A q \in Procs : proc[q].state = "UNUSED" => proc'[q] = proc[q]
    <3>1. SUFFICES ASSUME NEW q \in Procs, proc[q].state = "UNUSED" PROVE proc'[q] = proc[q]
      OBVIOUS
    <3>2. q # p  BY <3>1
    <3>3. proc[q].pid = 0  BY <2>3, <3>1
    <3>4. proc[q].pid # proc[p].pid  BY <1>2, <3>3
    <3> QED  BY <1>3, <3>2, <3>4
  <2>5. \A q \in Procs : proc[q] = [proc[q] EXCEPT !.killed = proc[q].killed]
    BY <1>1 DEF Slot
  <2> QED  BY <2>1, <2>4, <2>5, BlanksKept
<1>9. \A q \in Procs : On(q)' <=> On(q)  BY DEF On
<1>10. Becomes(p)  BY <1>4 DEF Becomes
<1>11. Placed(p)'  BY <1>4, <1>9 DEF Placed, Lives
<1>12. Steps(p)  BY <1>5, <1>9, <1>10, <1>11 DEF Steps
<1> QED  BY <1>2, <1>7, <1>8, <1>12, StepsKeep

LEMMA SizeType ==
    ASSUME IInv, NEW p \in Procs, InUse(p)
    PROVE  Size(p) \in 0 .. MaxSz
<1>1. proc[p].tid # 0 => proc[p].origin \in Procs  BY DEF IInv, OneOrigin
<1>2. (IF proc[p].tid = 0 THEN p ELSE proc[p].origin) \in Procs  BY <1>1
<1> QED  BY <1>2, SlotFields DEF IInv, Size

LEMMA PagesType ==
    ASSUME NEW a, NEW b PROVE Pages(a, b) \subseteq VA
  BY DEF Pages

LEMMA GrowKeeps ==
    ASSUME IInv, OneCpu, NEW p \in Procs, Grow(p)
    PROVE  IInv'
<1> DEFINE old == Size(p)
           new == Pages(old, old + 1)
<1>1. /\ On(p) /\ proc[p].state = "RUNNING" /\ UNCHANGED <<cpu, nextpid, nexttid>>
      /\ \/ SbrkFails(p) /\ UNCHANGED <<memory, panic>>
         \/ /\ ~TooBig(old + 1) /\ MapsIn(proc[p].pgdir, new)
            /\ proc' = Resized(p, old + 1)
            /\ UNCHANGED panic
         \/ panic' = "remap" /\ UNCHANGED <<proc, memory>>
  BY DEF Grow, Runs
<1>2. InUse(p) /\ TypeOK /\ old \in 0 .. MaxSz /\ MaxSz \in Nat /\ new \subseteq VA
  <2>1. InUse(p)  BY <1>1, Running
  <2> QED  BY <2>1, SizeType, Bounds, PagesType DEF IInv
<1> HIDE DEF old, new
<1>3. CASE SbrkFails(p) /\ UNCHANGED <<memory, panic>>
  BY <1>1, <1>2, <1>3, SbrkFailsKeeps DEF memory, TypeOK
<1>4. CASE /\ ~TooBig(old + 1) /\ MapsIn(proc[p].pgdir, new)
           /\ proc' = Resized(p, old + 1)
           /\ UNCHANGED panic
  <2>1. old + 1 \in 0 .. MaxSz  BY <1>2, <1>4 DEF TooBig
  <2>2. mem' \in [Dirs -> SUBSET VA] /\ UNCHANGED dirs
    BY <1>2, <1>4 DEF MapsIn, TypeOK
  <2> QED  BY <1>1, <1>4, <2>1, <2>2, ResizedKeeps
<1>5. CASE panic' = "remap" /\ UNCHANGED <<proc, memory>>
  <2>1. panic' \in Panics  BY <1>5 DEF Panics
  <2> QED  BY <1>1, <1>5, <2>1, StopKeeps DEF memory
<1> QED  BY <1>1, <1>3, <1>4, <1>5

LEMMA ShrinkKeeps ==
    ASSUME IInv, OneCpu, NEW p \in Procs, Shrink(p)
    PROVE  IInv'
<1> DEFINE old == Size(p)
           gone == Pages(old - 1, old)
<1>1. /\ On(p) /\ proc[p].state = "RUNNING" /\ UNCHANGED <<cpu, nextpid, nexttid, panic>>
      /\ \/ SbrkFails(p) /\ UNCHANGED memory
         \/ /\ mem' = [mem EXCEPT ![proc[p].pgdir] = @ \ gone] /\ UNCHANGED dirs
            /\ SbrkFails(p) \/ (old # 0 /\ proc' = Resized(p, old - 1))
  BY DEF Shrink, Runs
<1>2. InUse(p) /\ TypeOK /\ old \in 0 .. MaxSz /\ MaxSz \in Nat
  <2>1. InUse(p)  BY <1>1, Running
  <2> QED  BY <2>1, SizeType, Bounds DEF IInv
<1> HIDE DEF old, gone
<1>3. CASE SbrkFails(p) /\ UNCHANGED memory
  BY <1>1, <1>2, <1>3, SbrkFailsKeeps DEF memory, TypeOK
<1>4. CASE /\ mem' = [mem EXCEPT ![proc[p].pgdir] = @ \ gone] /\ UNCHANGED dirs
           /\ SbrkFails(p) \/ (old # 0 /\ proc' = Resized(p, old - 1))
  <2>1. mem' \in [Dirs -> SUBSET VA]
    BY <1>2, <1>4 DEF TypeOK
  <2>2. CASE SbrkFails(p)
    BY <1>1, <1>4, <2>1, <2>2, SbrkFailsKeeps
  <2>3. CASE old # 0 /\ proc' = Resized(p, old - 1)
    <3>1. old - 1 \in 0 .. MaxSz  BY <1>2, <2>3
    <3> QED  BY <1>1, <1>4, <2>1, <2>3, <3>1, ResizedKeeps
  <2> QED  BY <1>4, <2>2, <2>3
<1> QED  BY <1>1, <1>3, <1>4

-----------------------------------------------------------------------------
(* Reaping, by wait or thread_join.                                         *)

(* On one processor a ZOMBIE slot that is reaped has left its processor.    *)
LEMMA ReapKeeps ==
    ASSUME IInv, OneCpu, NEW p \in Procs, On(p), proc[p].state = "RUNNING",
           NEW q \in Procs, proc[q].state = "ZOMBIE",
           proc' \in [Procs -> Slot], \A r \in Procs \ {p, q} : proc'[r] = proc[r],
           proc'[q] = [Blank EXCEPT !.at = proc[q].at],
           CoreSame(p), proc'[p].state = "RUNNING", proc'[p].at = "user",
           mem' \in [Dirs -> SUBSET VA], UNCHANGED <<cpu, nextpid, nexttid, panic>>,
           \/ proc[q].tid # 0 /\ UNCHANGED dirs
           \/ proc[q].tid = 0 /\ dirs' = dirs \ {proc[q].pgdir}
    PROVE  IInv'
<1>1. Alone(p) /\ Placed(p) /\ InUse(p) /\ 0 < proc[p].pid  BY Running
<1>2. TypeOK  BY DEF IInv
<1>3. q # p /\ InUse(q) /\ proc[q].at = "none" /\ ~On(q)
  <2>1. q # p /\ InUse(q)  BY DEF InUse
  <2>2. ~On(q) /\ proc[q].at # "dying"  BY <1>1, <2>1 DEF Alone
  <2>3. proc[q].at \in {"none", "dying"}  BY DEF IInv, Places, Placed
  <2> QED  BY <2>1, <2>2, <2>3
<1>4. proc'[q] = Blank /\ proc'[q] = [Blank EXCEPT !.killed = proc'[q].killed]
  <2>1. proc'[q] = [Blank EXCEPT !.at = "none"]  BY <1>3
  <2> QED  BY <2>1, BlankSame
<1>5. /\ proc'[q].state = "UNUSED" /\ proc'[q].pid = 0 /\ proc'[q].tid = 0
      /\ proc'[q].pgdir = NoDir /\ proc'[q].at = "none"
  BY <1>4 DEF Blank
<1>6. \A r \in Procs : r # q => CoreSame(r)  BY DEF CoreSame
<1>7. \A r \in Procs : r # p /\ r # q => proc'[r] = proc[r]  OBVIOUS
<1>8. \A r \in Procs : On(r)' <=> On(r)  BY DEF On
<1>9. \A r \in Procs : proc[r].state # "UNUSED" => proc[r].pid # 0
  BY <1>2, SlotFields DEF IInv, Ids, InUse
<1>10. TypeOK'  BY <1>2 DEF TypeOK, Slot, MaxArg
<1>11. Blanks'
  <2> SUFFICES ASSUME NEW r \in Procs, proc'[r].state = "UNUSED"
               PROVE  proc'[r] = [Blank EXCEPT !.killed = proc'[r].killed]
    BY DEF Blanks, InUse
  <2>1. CASE r = q  BY <1>4, <2>1
  <2>2. CASE r # q
    <3>1. r # p /\ proc'[r] = proc[r]  BY <1>7, <2>2
    <3> QED  BY <3>1 DEF IInv, Blanks, InUse
  <2> QED  BY <2>1, <2>2
<1>12. Ids'
  <2> SUFFICES ASSUME NEW r \in Procs, proc'[r].state # "UNUSED"
               PROVE  /\ 0 < proc'[r].pid /\ proc'[r].pid < nextpid'
                      /\ proc'[r].tid < nexttid'
    BY DEF Ids, InUse
  <2>1. CoreSame(r) /\ InUse(r)  BY <1>5, <1>6 DEF CoreSame, InUse
  <2> QED  BY <2>1 DEF IInv, Ids, CoreSame
<1>13. Places'
  <2> SUFFICES ASSUME NEW r \in Procs PROVE Placed(r)'  BY DEF Places
  <2>1. CASE r = q  BY <1>3, <1>5, <1>8, <2>1 DEF Placed, Lives
  <2>2. CASE r = p
    <3>1. On(r)' /\ proc'[r].state = "RUNNING" /\ proc'[r].at = "user"  BY <1>8, <2>2
    <3> QED  BY <3>1 DEF Placed, Lives
  <2>3. CASE r # p /\ r # q
    <3>1. Placed(r) /\ proc'[r] = proc[r] /\ (On(r)' <=> On(r))
      BY <1>7, <1>8, <2>3 DEF IInv, Places
    <3> QED  BY <3>1 DEF Placed, Lives
  <2> QED  BY <2>1, <2>2, <2>3
<1>14. Fillings'
  <2>1. \A r \in Procs : Builds(r)' =>
            /\ r # p /\ r # q /\ proc'[r] = proc[r] /\ Builds(r) /\ Filling(r)
            /\ proc[r].np \in Procs /\ proc'[proc[r].np] = proc[proc[r].np]
    <3> SUFFICES ASSUME NEW r \in Procs, Builds(r)'
                 PROVE  /\ r # p /\ r # q /\ proc'[r] = proc[r] /\ Builds(r) /\ Filling(r)
                        /\ proc[r].np \in Procs /\ proc'[proc[r].np] = proc[proc[r].np]
      OBVIOUS
    <3>1. r # p /\ r # q  BY <1>5 DEF Builds
    <3>2. proc'[r] = proc[r] /\ Builds(r)  BY <1>7, <3>1 DEF Builds
    <3>3. Filling(r)  BY DEF IInv, Fillings
    <3>4. proc[r].np \in Procs /\ proc[proc[r].np].state = "EMBRYO"
      BY <3>2, <3>3 DEF Filling
    <3>5. proc[r].np # p /\ proc[r].np # q  BY <3>4
    <3> QED  BY <1>7, <3>1, <3>2, <3>3, <3>4, <3>5
  <2>2. \A r \in Procs : Filling(r)'
    <3> SUFFICES ASSUME NEW r \in Procs, Builds(r)' PROVE Filling(r)'  BY DEF Filling
    <3>1. /\ proc'[r] = proc[r] /\ Builds(r) /\ Filling(r)
          /\ proc'[proc[r].np] = proc[proc[r].np]
      BY <2>1
    <3> QED  BY <3>1 DEF Filling
  <2>3. \A r, s \in Procs : Builds(r) /\ Builds(s) /\ proc[r].np = proc[s].np => r = s
    BY DEF IInv, Fillings
  <2>4. \A r, s \in Procs : Builds(r)' /\ Builds(s)' /\ proc'[r].np = proc'[s].np => r = s
    BY <2>1, <2>3
  <2> QED  BY <2>2, <2>4 DEF Fillings
<1>15. NewAlone'
  <2> SUFFICES ASSUME NEW r \in Procs, NEW s \in Procs, proc'[r].state = "EMBRYO",
                      proc'[r].tid = 0, proc'[s].pid = proc'[r].pid
               PROVE  s = r
    BY DEF NewAlone
  <2>1. r # p /\ r # q /\ proc'[r] = proc[r]  BY <1>5, <1>7
  <2>2. proc'[r].pid # 0  BY <1>9, <2>1
  <2>3. s # q  BY <1>5, <2>2
  <2>4. proc[s].pid = proc[r].pid  BY <1>6, <2>1, <2>3 DEF CoreSame
  <2> QED  BY <2>1, <2>4 DEF IInv, NewAlone
<1>16. DirOwn'
  <2> SUFFICES ASSUME NEW r \in Procs, NEW s \in Procs, proc'[r].pgdir # NoDir,
                      proc'[s].pgdir = proc'[r].pgdir
               PROVE  proc'[s].pid = proc'[r].pid
    BY DEF DirOwn
  <2>1. r # q /\ s # q  BY <1>5
  <2>2. CoreSame(r) /\ CoreSame(s)  BY <1>6, <2>1
  <2> QED  BY <2>2 DEF IInv, DirOwn, CoreSame
<1>17. TidsOnce'
  <2> SUFFICES ASSUME NEW r \in Procs, NEW s \in Procs, proc'[r].tid # 0,
                      proc'[s].tid = proc'[r].tid
               PROVE  s = r
    BY DEF TidsOnce
  <2>1. CoreSame(r) /\ CoreSame(s)  BY <1>5, <1>6
  <2> QED  BY <2>1 DEF IInv, TidsOnce, CoreSame
<1>18. JoinArgs'
  <2> SUFFICES ASSUME NEW r \in Procs, proc'[r].at = "join"
               PROVE  proc'[r].arg # 0 /\ proc'[r].arg <= MaxTid
    BY DEF JoinArgs
  <2>1. proc'[r] = proc[r]  BY <1>5, <1>7
  <2> QED  BY <2>1 DEF IInv, JoinArgs
<1>19. OneOrigin'
  <2>1. ASSUME NEW r \in Procs, proc'[r].state # "UNUSED", proc'[r].tid # 0
        PROVE  /\ proc'[r].origin \in Procs /\ proc'[proc'[r].origin].state # "UNUSED"
               /\ proc'[proc'[r].origin].tid = 0
               /\ proc'[proc'[r].origin].pid = proc'[r].pid
               /\ proc'[proc'[r].origin].pgdir = proc'[r].pgdir
    <3>1. r # q /\ CoreSame(r)  BY <1>5, <1>6, <2>1
    <3>2. proc[r].state # "UNUSED" /\ proc[r].tid # 0  BY <2>1, <3>1 DEF CoreSame
    <3>3. PICK o \in Procs : o = proc[r].origin /\ InUse(o) /\ proc[o].tid = 0
              /\ proc[o].pid = proc[r].pid /\ proc[o].pgdir = proc[r].pgdir
      BY <3>2 DEF IInv, OneOrigin, InUse
    <3>4. o # q
      <4> SUFFICES ASSUME o = q PROVE FALSE  OBVIOUS
      <4>1. \A s \in Family(q) : s = q  BY <3>3 DEF IInv, LastThread
      <4>2. r \in Family(q)  BY <3>3 DEF Family
      <4> QED  BY <3>1, <4>1, <4>2
    <3>5. CoreSame(o)  BY <1>6, <3>4
    <3>6. proc'[r].origin = o  BY <3>1, <3>3 DEF CoreSame
    <3> QED  BY <3>1, <3>3, <3>5, <3>6 DEF CoreSame, InUse
  <2>2. ASSUME NEW r \in Procs, NEW s \in Procs, proc'[r].state # "UNUSED",
               proc'[s].state # "UNUSED", proc'[r].pid = proc'[s].pid,
               proc'[r].tid = proc'[s].tid
        PROVE  r = s
    <3>1. CoreSame(r) /\ CoreSame(s)  BY <1>5, <1>6, <2>2
    <3>2. /\ proc[r].state # "UNUSED" /\ proc[s].state # "UNUSED"
          /\ proc[r].pid = proc[s].pid /\ proc[r].tid = proc[s].tid
      BY <2>2, <3>1 DEF CoreSame
    <3> QED  BY <3>2 DEF IInv, OneOrigin, InUse
  <2> QED  BY <2>1, <2>2 DEF OneOrigin, InUse
<1>20. LastThread'
  <2> SUFFICES ASSUME NEW r \in Procs,
                      \/ proc'[r].at \in {"exec", "exit"}
                      \/ proc'[r].state = "ZOMBIE" /\ proc'[r].tid = 0,
                      NEW s \in Procs, proc'[s].pid = proc'[r].pid
               PROVE  s = r
    BY DEF LastThread, Family
  <2>1. r # p /\ r # q /\ proc'[r] = proc[r]  BY <1>5, <1>7
  <2>2. proc[r].state # "UNUSED"
    <3>1. proc[r].at # "none" \/ proc[r].state = "ZOMBIE"  BY <2>1
    <3> QED  BY <3>1, InUseOf DEF InUse
  <2>3. s # q  BY <1>5, <1>9, <2>1, <2>2
  <2>4. proc[s].pid = proc[r].pid  BY <1>6, <2>1, <2>3 DEF CoreSame
  <2> QED  BY <2>1, <2>4 DEF IInv, LastThread, Family
<1>21. DirsExact'
  <2>1. \A d : d \in dirs <=> d # NoDir /\ \E r \in Procs : proc[r].pgdir = d
    BY DEF IInv, DirsExact
  <2>2. \A r \in Procs : r # q => proc'[r].pgdir = proc[r].pgdir  BY <1>6 DEF CoreSame
  <2>3. NoDir \notin dirs  BY <2>1
  <2>4. CASE proc[q].tid # 0 /\ UNCHANGED dirs
    <3>1. PICK o \in Procs : o # q /\ proc[o].pgdir = proc[q].pgdir
      BY <1>3, <2>4 DEF IInv, OneOrigin
    <3>2. \A d : d \in dirs' <=> d # NoDir /\ \E r \in Procs : proc'[r].pgdir = d
      <4> SUFFICES ASSUME NEW d, d # NoDir
                   PROVE  (\E r \in Procs : proc[r].pgdir = d)
                          <=> \E r \in Procs : proc'[r].pgdir = d
        BY <2>1, <2>3, <2>4
      <4>1. ASSUME NEW r \in Procs, proc[r].pgdir = d
            PROVE  \E s \in Procs : proc'[s].pgdir = d
        <5>1. CASE r = q  BY <2>2, <3>1, <4>1, <5>1
        <5>2. CASE r # q  BY <2>2, <4>1, <5>2
        <5> QED  BY <5>1, <5>2
      <4>2. ASSUME NEW r \in Procs, proc'[r].pgdir = d
            PROVE  proc[r].pgdir = d
        BY <1>5, <2>2, <4>2
      <4> QED  BY <4>1, <4>2
    <3> QED  BY <3>2 DEF DirsExact
  <2>5. CASE proc[q].tid = 0 /\ dirs' = dirs \ {proc[q].pgdir}
    <3>1. \A r \in Procs : proc[r].pgdir = proc[q].pgdir /\ proc[q].pgdir # NoDir => r = q
      <4>1. \A r \in Family(q) : r = q  BY <2>5 DEF IInv, LastThread
      <4> QED  BY <4>1 DEF IInv, DirOwn, Family
    <3>2. \A d : d \in dirs' <=> d # NoDir /\ \E r \in Procs : proc'[r].pgdir = d
      <4> SUFFICES ASSUME NEW d, d # NoDir
                   PROVE  (d # proc[q].pgdir /\ \E r \in Procs : proc[r].pgdir = d)
                          <=> \E r \in Procs : proc'[r].pgdir = d
        BY <2>1, <2>3, <2>5
      <4>1. ASSUME NEW r \in Procs, proc[r].pgdir = d, d # proc[q].pgdir
            PROVE  proc'[r].pgdir = d
        BY <2>2, <4>1
      <4>2. ASSUME NEW r \in Procs, proc'[r].pgdir = d
            PROVE  proc[r].pgdir = d /\ d # proc[q].pgdir
        <5>1. r # q /\ proc[r].pgdir = d  BY <1>5, <2>2, <4>2
        <5> QED  BY <3>1, <5>1
      <4> QED  BY <4>1, <4>2
    <3> QED  BY <3>2 DEF DirsExact
  <2> QED  BY <2>4, <2>5
<1> QED
  BY <1>10, <1>11, <1>12, <1>13, <1>14, <1>15, <1>16, <1>17, <1>18, <1>19, <1>20, <1>21
     DEF IInv

(* A program that joins its own threads knows a tid that is not 0.          *)
LEMMA JoinKnown ==
    ASSUME IInv, ~AnyJoin, NEW p \in Procs, NEW thread \in 0 .. MaxTid, ThreadJoin(p, thread)
    PROVE  /\ On(p) /\ proc[p].state = "RUNNING" /\ thread # 0 /\ thread <= MaxTid
           /\ UNCHANGED <<dirs, mem, nextpid, nexttid, panic>>
<1>1. /\ \/ Enters(p, "thread_join") /\ thread \in Joins(p)
         \/ Loops(p, "join") /\ thread = proc[p].arg
      /\ UNCHANGED <<dirs, mem, nextpid, nexttid, panic>>
  BY DEF ThreadJoin, memory
<1>2. CASE Enters(p, "thread_join") /\ thread \in Joins(p)
  <2>1. thread # 0  BY <1>2 DEF Joins
  <2> QED  BY <1>1, <1>2, <2>1 DEF Enters, Runs
<1>3. CASE Loops(p, "join") /\ thread = proc[p].arg
  BY <1>1, <1>3 DEF Loops, IInv, JoinArgs
<1> QED  BY <1>1, <1>2, <1>3

LEMMA ThreadJoinKeeps ==
    ASSUME IInv, OneCpu, ~AnyJoin, NEW p \in Procs, NEW thread \in 0 .. MaxTid,
           ThreadJoin(p, thread)
    PROVE  IInv'
<1>1. /\ On(p) /\ proc[p].state = "RUNNING" /\ thread # 0 /\ thread <= MaxTid
      /\ UNCHANGED <<dirs, mem, nextpid, nexttid, panic>>
  BY JoinKnown
<1>2. TypeOK /\ proc \in [Procs -> Slot]  BY Types DEF IInv
<1>3. mem' \in [Dirs -> SUBSET VA]  BY <1>1, <1>2 DEF TypeOK
<1>4. 0 \in 0 .. MaxArg /\ thread \in 0 .. MaxArg  BY Args
<1>5. CASE \E q \in Procs :
             /\ proc[q].tid = thread /\ proc[q].state = "ZOMBIE" /\ UNCHANGED cpu
             /\ proc' = [proc EXCEPT ![q] = [Blank EXCEPT !.at = proc[q].at],
                                     ![p].at = "user", ![p].arg = 0]
  <2>1. PICK q \in Procs :
             /\ proc[q].tid = thread /\ proc[q].state = "ZOMBIE" /\ UNCHANGED cpu
             /\ proc' = [proc EXCEPT ![q] = [Blank EXCEPT !.at = proc[q].at],
                                     ![p].at = "user", ![p].arg = 0]
    BY <1>5
  <2>2. q # p  BY <1>1, <2>1
  <2>3. /\ proc'[q] = [Blank EXCEPT !.at = proc[q].at]
        /\ proc'[p] = [proc[p] EXCEPT !.at = "user", !.arg = 0]
        /\ \A r \in Procs \ {p, q} : proc'[r] = proc[r]
        /\ proc[p] \in Slot /\ proc[q] \in Slot
    BY <1>2, <2>1, <2>2
  <2>4. proc'[p] \in Slot /\ CoreSame(p) /\ proc'[p].state = "RUNNING" /\ proc'[p].at = "user"
    <3>1. proc'[p] = [proc[p] EXCEPT !.at = "user", !.arg = 0] /\ proc[p] \in Slot
      BY <2>3
    <3>2. proc'[p] \in Slot  BY <1>4, <3>1 DEF Slot, Ats
    <3> QED  BY <1>1, <3>1, <3>2 DEF Slot, CoreSame
  <2>5. proc'[q] \in Slot
    <3>1. proc[q].at \in Ats  BY <1>2, SlotFields
    <3> QED  BY <2>3, <3>1, BlankType
  <2>6. proc' \in [Procs -> Slot]  BY <1>2, <2>1, <2>3, <2>4, <2>5
  <2> QED  BY <1>1, <1>3, <2>1, <2>3, <2>4, <2>6, ReapKeeps
<1>6. CASE /\ proc' = [proc EXCEPT ![p].state = "SLEEPING", ![p].sleeps = "self",
                                   ![p].at = "join", ![p].arg = thread]
           /\ Leaves(p)
  <2>1. proc'[p] = [proc[p] EXCEPT !.state = "SLEEPING", !.sleeps = "self",
                                   !.at = "join", !.arg = thread]
        /\ proc[p] \in Slot
    BY <1>2, <1>6
  <2>2. proc'[p] \in Slot
    <3> DEFINE e == [proc[p] EXCEPT !.state = "SLEEPING", !.sleeps = "self"]
    <3>1. e \in Slot  BY <2>1 DEF Slot, States
    <3>2. proc'[p] = [e EXCEPT !.at = "join", !.arg = thread]  BY <2>1 DEF Slot
    <3> HIDE DEF e
    <3> QED  BY <1>4, <3>1, <3>2 DEF Slot, Ats
  <2>3. proc' \in [Procs -> Slot] /\ \A q \in Procs \ {p} : proc'[q] = proc[q]
    BY <1>2, <1>6, <2>2
  <2>4. Local(p)  BY <1>1, <1>6, <2>1, <2>3 DEF Local, Slot
  <2> QED  BY <1>1, <1>3, <2>4, LocalKeeps
<1> QED  BY <1>5, <1>6 DEF ThreadJoin

LEMMA WaitKeeps ==
    ASSUME IInv, OneCpu, NEW p \in Procs, Wait(p)
    PROVE  IInv'
<1>1. /\ On(p) /\ proc[p].state = "RUNNING" /\ UNCHANGED <<nextpid, nexttid, panic>>
  BY DEF Wait, Enters, Runs, Loops
<1>2. TypeOK /\ proc \in [Procs -> Slot]  BY Types DEF IInv
<1>3. CASE \E q \in Procs :
             /\ proc[q].state = "ZOMBIE" /\ UNCHANGED cpu
             /\ IF Frees(q)
                THEN /\ dirs' = dirs \ {proc[q].pgdir}
                     /\ mem' = [mem EXCEPT ![proc[q].pgdir] = {}]
                ELSE UNCHANGED memory
             /\ proc' = [proc EXCEPT ![q] = [Blank EXCEPT !.at = proc[q].at],
                                     ![p].at = "user"]
  <2>1. PICK q \in Procs :
             /\ proc[q].state = "ZOMBIE" /\ UNCHANGED cpu
             /\ IF Frees(q)
                THEN /\ dirs' = dirs \ {proc[q].pgdir}
                     /\ mem' = [mem EXCEPT ![proc[q].pgdir] = {}]
                ELSE UNCHANGED memory
             /\ proc' = [proc EXCEPT ![q] = [Blank EXCEPT !.at = proc[q].at],
                                     ![p].at = "user"]
    BY <1>3
  <2>2. q # p  BY <1>1, <2>1
  <2>3. /\ proc'[q] = [Blank EXCEPT !.at = proc[q].at]
        /\ proc'[p] = [proc[p] EXCEPT !.at = "user"]
        /\ \A r \in Procs \ {p, q} : proc'[r] = proc[r]
        /\ proc[p] \in Slot /\ proc[q] \in Slot
    BY <1>2, <2>1, <2>2
  <2>4. proc'[p] \in Slot /\ CoreSame(p) /\ proc'[p].state = "RUNNING" /\ proc'[p].at = "user"
    <3>1. proc'[p] = [proc[p] EXCEPT !.at = "user"] /\ proc[p] \in Slot
      BY <2>3
    <3>2. proc'[p] \in Slot  BY <3>1 DEF Slot, Ats
    <3> QED  BY <1>1, <3>1, <3>2 DEF Slot, CoreSame
  <2>5. proc'[q] \in Slot
    <3>1. proc[q].at \in Ats  BY <1>2, SlotFields
    <3> QED  BY <2>3, <3>1, BlankType
  <2>6. proc' \in [Procs -> Slot]  BY <1>2, <2>1, <2>3, <2>4, <2>5
  <2>7. CASE proc[q].tid = 0
    <3>1. dirs' = dirs \ {proc[q].pgdir} /\ mem' = [mem EXCEPT ![proc[q].pgdir] = {}]
      BY <2>1, <2>7 DEF Frees
    <3>2. mem' \in [Dirs -> SUBSET VA]  BY <1>2, <3>1 DEF TypeOK
    <3> QED  BY <1>1, <2>1, <2>3, <2>4, <2>6, <2>7, <3>1, <3>2, ReapKeeps
  <2>8. CASE proc[q].tid # 0
    <3>1. UNCHANGED <<dirs, mem>>  BY <2>1, <2>8 DEF Frees, memory
    <3>2. mem' \in [Dirs -> SUBSET VA]  BY <1>2, <3>1 DEF TypeOK
    <3> QED  BY <1>1, <2>1, <2>3, <2>4, <2>6, <2>8, <3>1, <3>2, ReapKeeps
  <2> QED  BY <2>7, <2>8
<1>4. CASE proc' = [proc EXCEPT ![p].at = "user"] /\ UNCHANGED <<cpu, memory>>
  <2>1. proc'[p] = [proc[p] EXCEPT !.at = "user"] /\ proc[p] \in Slot
    BY <1>2, <1>4
  <2>2. proc'[p] \in Slot  BY <2>1 DEF Slot, Ats
  <2>3. proc' \in [Procs -> Slot] /\ \A q \in Procs \ {p} : proc'[q] = proc[q]
    BY <1>2, <1>4, <2>2
  <2>4. Local(p)  BY <1>1, <1>4, <2>1, <2>3 DEF Local, Slot
  <2>5. UNCHANGED dirs /\ mem' \in [Dirs -> SUBSET VA]  BY <1>2, <1>4 DEF TypeOK, memory
  <2> QED  BY <1>1, <2>4, <2>5, LocalKeeps
<1>5. CASE /\ proc' = [proc EXCEPT ![p].state = "SLEEPING", ![p].sleeps = "self",
                                   ![p].at = "wait"]
           /\ Leaves(p) /\ UNCHANGED memory
  <2>1. proc'[p] = [proc[p] EXCEPT !.state = "SLEEPING", !.sleeps = "self", !.at = "wait"]
        /\ proc[p] \in Slot
    BY <1>2, <1>5
  <2>2. proc'[p] \in Slot  BY <2>1 DEF Slot, States, Ats
  <2>3. proc' \in [Procs -> Slot] /\ \A q \in Procs \ {p} : proc'[q] = proc[q]
    BY <1>2, <1>5, <2>2
  <2>4. Local(p)  BY <1>1, <1>5, <2>1, <2>3 DEF Local, Slot
  <2>5. UNCHANGED dirs /\ mem' \in [Dirs -> SUBSET VA]  BY <1>2, <1>5 DEF TypeOK, memory
  <2> QED  BY <1>1, <2>4, <2>5, LocalKeeps
<1> QED  BY <1>3, <1>4, <1>5 DEF Wait

-----------------------------------------------------------------------------
(* New slots, by thread_create and fork.                                    *)

Origin(p) == IF proc[p].tid = 0 THEN p ELSE proc[p].origin

NewThread(p, l) ==
    /\ proc'[p].at = "create" /\ proc'[l].tid = nexttid /\ proc'[l].pid = proc[p].pid
    /\ proc'[l].origin = Origin(p) /\ proc'[l].pgdir = proc[p].pgdir
    /\ nexttid' = nexttid + 1 /\ nextpid' = nextpid

NewProcess(p, l) ==
    /\ proc'[p].at = "fork" /\ proc'[l].tid = 0 /\ proc'[l].pid = nextpid
    /\ proc'[l].pgdir = NoDir
    /\ nextpid' = nextpid + 1 /\ nexttid' = nexttid

LEMMA AddKeeps ==
    ASSUME IInv, OneCpu, NEW p \in Procs, On(p), proc[p].state = "RUNNING", proc[p].at = "user",
           NEW l \in Procs, ~InUse(l), TypeOK',
           \A r \in Procs \ {l} : CoreSame(r),
           \A r \in Procs \ {p, l} : Mild(r) /\ (proc[r].state = "UNUSED" => proc'[r] = proc[r]),
           proc'[p].state = "RUNNING", proc'[p].np = l,
           proc'[l].state = "EMBRYO", proc'[l].at = "none",
           NewThread(p, l) \/ NewProcess(p, l), UNCHANGED <<cpu, dirs>>
    PROVE  IInv'
<1>1. Alone(p) /\ Placed(p) /\ InUse(p)  BY Running
<1>2. /\ TypeOK /\ nextpid \in Nat /\ nexttid \in Nat /\ nextpid # 0 /\ nexttid # 0
      /\ \A r \in Procs : proc[r].pid \in Nat /\ proc[r].tid \in Nat
  <2>1. TypeOK  BY DEF IInv
  <2>2. nextpid \in Nat /\ nexttid \in Nat /\ nextpid # 0 /\ nexttid # 0
    BY <2>1, Bounds DEF TypeOK
  <2> QED  BY <2>1, <2>2, SlotFields
<1>3. \A r \in Procs : InUse(r) => /\ proc[r].pid # 0 /\ proc[r].pid # nextpid
                                   /\ proc[r].tid # nexttid
  BY <1>2 DEF IInv, Ids
<1>4. l # p /\ ~On(l) /\ proc[l].tid = 0 /\ proc[l].pid = 0 /\ proc[l].pgdir = NoDir
  <2>1. proc[l] = [Blank EXCEPT !.killed = proc[l].killed]  BY DEF IInv, Blanks
  <2>2. l # p  BY <1>1
  <2>3. ~On(l)  BY <1>1, <2>2 DEF Alone
  <2> QED  BY <2>1, <2>2, <2>3 DEF Blank
<1>5. \A r \in Procs : r # p /\ r # l => Mild(r)  OBVIOUS
<1>6. \A r \in Procs : r # l => CoreSame(r)  OBVIOUS
<1>7. \A r \in Procs : On(r)' <=> On(r)  BY DEF On
<1>8. proc'[p].at \in {"create", "fork"}  BY DEF NewThread, NewProcess
<1>9. \A r \in Procs : r # l /\ proc'[r].pid # 0 => InUse(r)
  BY <1>6, InUseOf DEF CoreSame
<1>10. proc'[l].pid # 0 /\ proc'[l].pid # nextpid'
  BY <1>1, <1>2, <1>3 DEF NewThread, NewProcess
<1>11. Blanks'
  <2> SUFFICES ASSUME NEW r \in Procs, proc'[r].state = "UNUSED"
               PROVE  proc'[r] = [Blank EXCEPT !.killed = proc'[r].killed]
    BY DEF Blanks, InUse
  <2>1. r # l /\ r # p  OBVIOUS
  <2>2. proc[r].state = "UNUSED"  BY <1>6, <2>1 DEF CoreSame
  <2>3. proc'[r] = proc[r]  BY <2>1, <2>2
  <2> QED  BY <2>2, <2>3 DEF IInv, Blanks, InUse
<1>12. Ids'
  <2> SUFFICES ASSUME NEW r \in Procs, proc'[r].state # "UNUSED"
               PROVE  /\ 0 < proc'[r].pid /\ proc'[r].pid < nextpid'
                      /\ proc'[r].tid < nexttid'
    BY DEF Ids, InUse
  <2>1. nextpid <= nextpid' /\ nexttid <= nexttid' /\ nextpid' \in Nat /\ nexttid' \in Nat
    BY <1>2 DEF NewThread, NewProcess
  <2>2. CASE r # l
    <3>1. CoreSame(r) /\ InUse(r)  BY <1>6, <2>2 DEF CoreSame, InUse
    <3>2. 0 < proc[r].pid /\ proc[r].pid < nextpid /\ proc[r].tid < nexttid
      BY <3>1 DEF IInv, Ids
    <3>3. proc'[r].pid = proc[r].pid /\ proc'[r].tid = proc[r].tid  BY <3>1 DEF CoreSame
    <3>4. proc[r].pid \in Nat /\ proc[r].tid \in Nat  BY <1>2
    <3> QED  BY <1>2, <2>1, <3>2, <3>3, <3>4
  <2>3. CASE r = l
    <3>1. 0 < proc[p].pid /\ proc[p].pid < nextpid  BY <1>1 DEF IInv, Ids
    <3>2. CASE NewThread(p, l)  BY <1>2, <2>3, <3>1, <3>2 DEF NewThread
    <3>3. CASE NewProcess(p, l)  BY <1>2, <2>3, <3>3 DEF NewProcess
    <3> QED  BY <3>2, <3>3
  <2> QED  BY <2>2, <2>3
<1>13. Places'
  <2> SUFFICES ASSUME NEW r \in Procs PROVE Placed(r)'  BY DEF Places
  <2>1. CASE r = l
    <3>1. ~On(r)' /\ proc'[r].state = "EMBRYO" /\ proc'[r].at = "none"  BY <1>4, <1>7, <2>1
    <3> QED  BY <3>1 DEF Placed, Lives
  <2>2. CASE r = p
    <3>1. On(r)' /\ proc'[r].state = "RUNNING" /\ proc'[r].at \in {"create", "fork"}
      BY <1>7, <1>8, <2>2
    <3> QED  BY <3>1 DEF Placed, Lives
  <2>3. CASE r # p /\ r # l
    <3>1. Placed(r) /\ Mild(r) /\ (On(r)' <=> On(r)) /\ ~On(r)
      BY <1>1, <1>5, <1>7, <2>3 DEF IInv, Places, Alone
    <3> QED  BY <3>1 DEF Placed, Mild, CoreSame, Lives
  <2> QED  BY <2>1, <2>2, <2>3
<1>14. Fillings'
  <2>1. \A r \in Procs : Builds(r)' /\ r # p =>
            /\ r # l /\ Mild(r) /\ Builds(r) /\ Filling(r)
            /\ proc[r].np \in Procs /\ proc[proc[r].np].state = "EMBRYO"
            /\ proc[r].np # p /\ proc[r].np # l /\ Mild(proc[r].np)
            /\ proc'[r].np = proc[r].np /\ proc'[proc[r].np].state = "EMBRYO"
    <3> SUFFICES ASSUME NEW r \in Procs, Builds(r)', r # p
                 PROVE  /\ r # l /\ Mild(r) /\ Builds(r) /\ Filling(r)
                        /\ proc[r].np \in Procs /\ proc[proc[r].np].state = "EMBRYO"
                        /\ proc[r].np # p /\ proc[r].np # l /\ Mild(proc[r].np)
                        /\ proc'[r].np = proc[r].np /\ proc'[proc[r].np].state = "EMBRYO"
      OBVIOUS
    <3>1. r # l  BY DEF Builds
    <3>2. Mild(r) /\ Builds(r)  BY <1>5, <3>1 DEF Mild, Builds
    <3>3. Filling(r)  BY DEF IInv, Fillings
    <3>4. proc[r].np \in Procs /\ proc[proc[r].np].state = "EMBRYO"
      BY <3>2, <3>3 DEF Filling
    <3>5. proc[r].np # p /\ proc[r].np # l  BY <3>4 DEF InUse
    <3>6. Mild(proc[r].np)  BY <1>5, <3>4, <3>5
    <3> QED  BY <3>1, <3>2, <3>3, <3>4, <3>5, <3>6 DEF Mild
  <2>2. \A r \in Procs : Filling(r)'
    <3> SUFFICES ASSUME NEW r \in Procs, Builds(r)' PROVE Filling(r)'  BY DEF Filling
    <3>1. CASE r = p
      <4>1. /\ proc'[r].np = l /\ proc'[l].state = "EMBRYO" /\ proc'[r].pid = proc[p].pid
            /\ l \in Procs
        BY <1>4, <1>6, <3>1 DEF CoreSame
      <4>2. CASE NewThread(p, l)
        <5>1. proc'[r].at = "create" /\ proc'[l].tid # 0 /\ proc'[l].pid = proc'[r].pid
          BY <1>2, <3>1, <4>1, <4>2 DEF NewThread
        <5> QED  BY <4>1, <5>1 DEF Filling
      <4>3. CASE NewProcess(p, l)
        <5>1. proc'[r].at = "fork" /\ proc'[l].tid = 0 /\ proc'[l].pgdir = NoDir
          BY <3>1, <4>1, <4>3 DEF NewProcess
        <5> QED  BY <4>1, <5>1 DEF Filling
      <4> QED  BY <4>2, <4>3
    <3>2. CASE r # p
      <4>1. /\ Mild(r) /\ Builds(r) /\ Filling(r) /\ Mild(proc[r].np)
            /\ proc'[r].np = proc[r].np /\ proc'[proc[r].np].state = "EMBRYO"
        BY <2>1, <3>2
      <4> QED  BY <4>1 DEF Filling, Mild, CoreSame
    <3> QED  BY <3>1, <3>2
  <2>3. \A r, s \in Procs : Builds(r) /\ Builds(s) /\ proc[r].np = proc[s].np => r = s
    BY DEF IInv, Fillings
  <2>4. \A r, s \in Procs : Builds(r)' /\ Builds(s)' /\ proc'[r].np = proc'[s].np => r = s
    BY <2>1, <2>3
  <2> QED  BY <2>2, <2>4 DEF Fillings
<1>15. NewAlone'
  <2> SUFFICES ASSUME NEW r \in Procs, NEW s \in Procs, proc'[r].state = "EMBRYO",
                      proc'[r].tid = 0, proc'[s].pid = proc'[r].pid, s # r
               PROVE  FALSE
    BY DEF NewAlone
  <2>1. CASE r = l
    <3>1. NewProcess(p, l)  BY <1>2, <2>1 DEF NewThread
    <3>2. proc[s].pid = nextpid  BY <1>6, <2>1, <3>1 DEF NewProcess, CoreSame
    <3>3. InUse(s)  BY <1>2, <3>2, InUseOf
    <3> QED  BY <1>3, <3>2, <3>3
  <2>2. CASE r # l
    <3>1. r # p /\ Mild(r)  BY <1>5, <2>2
    <3>2. proc[r].state = "EMBRYO" /\ proc[r].tid = 0 /\ proc[r].pid = proc'[r].pid /\ InUse(r)
      BY <3>1 DEF Mild, CoreSame, InUse
    <3>3. CASE s = l
      <4>1. CASE NewThread(p, l)
        <5>1. proc[p].pid = proc[r].pid  BY <3>2, <3>3, <4>1 DEF NewThread
        <5> QED  BY <3>1, <3>2, <5>1 DEF IInv, NewAlone
      <4>2. CASE NewProcess(p, l)
        <5>1. nextpid = proc[r].pid  BY <3>2, <3>3, <4>2 DEF NewProcess
        <5> QED  BY <1>3, <3>2, <5>1
      <4> QED  BY <4>1, <4>2
    <3>4. CASE s # l
      <4>1. proc[s].pid = proc[r].pid  BY <1>6, <3>2, <3>4 DEF CoreSame
      <4> QED  BY <3>2, <4>1 DEF IInv, NewAlone
    <3> QED  BY <3>3, <3>4
  <2> QED  BY <2>1, <2>2
<1>16. DirOwn'
  <2>1. \A r, s \in Procs :
            proc[r].pgdir # NoDir /\ proc[s].pgdir = proc[r].pgdir => proc[s].pid = proc[r].pid
    BY DEF IInv, DirOwn
  <2>2. \A r \in Procs : r # l => proc'[r].pgdir = proc[r].pgdir /\ proc'[r].pid = proc[r].pid
    BY <1>6 DEF CoreSame
  <2>3. proc'[l].pgdir = NoDir \/ (proc'[l].pgdir = proc[p].pgdir /\ proc'[l].pid = proc[p].pid)
    BY DEF NewThread, NewProcess
  <2>4. ASSUME NEW r \in Procs, NEW s \in Procs, proc'[r].pgdir # NoDir,
               proc'[s].pgdir = proc'[r].pgdir
        PROVE  proc'[s].pid = proc'[r].pid
    <3>1. CASE r = l /\ s = l  BY <3>1
    <3>2. CASE r = l /\ s # l  BY <2>1, <2>2, <2>3, <2>4, <3>2
    <3>3. CASE r # l /\ s = l  BY <2>1, <2>2, <2>3, <2>4, <3>3
    <3>4. CASE r # l /\ s # l  BY <2>1, <2>2, <2>4, <3>4
    <3> QED  BY <3>1, <3>2, <3>3, <3>4
  <2> QED  BY <2>4 DEF DirOwn
<1>17. TidsOnce'
  <2>1. \A r \in Procs : proc[r].tid # nexttid
    <3> SUFFICES ASSUME NEW r \in Procs, proc[r].tid = nexttid PROVE FALSE  OBVIOUS
    <3>1. InUse(r)  BY <1>2, InUseOf
    <3> QED  BY <1>3, <3>1
  <2>2. \A r \in Procs : r # l => proc'[r].tid = proc[r].tid  BY <1>6 DEF CoreSame
  <2>3. proc'[l].tid = 0 \/ proc'[l].tid = nexttid  BY DEF NewThread, NewProcess
  <2>4. \A r, s \in Procs : proc[r].tid # 0 /\ proc[s].tid = proc[r].tid => s = r
    BY DEF IInv, TidsOnce
  <2>5. \A r, s \in Procs : proc'[r].tid # 0 /\ proc'[s].tid = proc'[r].tid => s = r
    BY <2>1, <2>2, <2>3, <2>4
  <2> QED  BY <2>5 DEF TidsOnce
<1>18. JoinArgs'
  <2> SUFFICES ASSUME NEW r \in Procs, proc'[r].at = "join"
               PROVE  proc'[r].arg # 0 /\ proc'[r].arg <= MaxTid
    BY DEF JoinArgs
  <2>1. r # p /\ r # l  BY <1>8
  <2>2. Mild(r)  BY <1>5, <2>1
  <2> QED  BY <2>2 DEF Mild, IInv, JoinArgs
<1>19. OneOrigin'
  <2>1. proc[p].tid # 0 =>
            /\ proc[p].origin \in Procs /\ InUse(proc[p].origin)
            /\ proc[proc[p].origin].tid = 0 /\ proc[proc[p].origin].pid = proc[p].pid
            /\ proc[proc[p].origin].pgdir = proc[p].pgdir
    BY <1>1 DEF IInv, OneOrigin
  <2>2. PICK o \in Procs : /\ o = Origin(p) /\ InUse(o) /\ proc[o].tid = 0
                           /\ proc[o].pid = proc[p].pid /\ proc[o].pgdir = proc[p].pgdir
    BY <1>1, <2>1 DEF Origin
  <2>3. ASSUME NEW r \in Procs, proc'[r].state # "UNUSED", proc'[r].tid # 0
        PROVE  /\ proc'[r].origin \in Procs /\ proc'[proc'[r].origin].state # "UNUSED"
               /\ proc'[proc'[r].origin].tid = 0
               /\ proc'[proc'[r].origin].pid = proc'[r].pid
               /\ proc'[proc'[r].origin].pgdir = proc'[r].pgdir
    <3>1. CASE r = l
      <4>1. NewThread(p, l)  BY <2>3, <3>1 DEF NewProcess
      <4>2. proc'[l].origin = o /\ proc'[l].pid = proc[p].pid /\ proc'[l].pgdir = proc[p].pgdir
        BY <2>2, <4>1 DEF NewThread
      <4>3. o # l /\ CoreSame(o)  BY <1>6, <2>2
      <4> QED  BY <2>2, <3>1, <4>2, <4>3 DEF CoreSame, InUse
    <3>2. CASE r # l
      <4>1. CoreSame(r)  BY <1>6, <3>2
      <4>2. proc[r].state # "UNUSED" /\ proc[r].tid # 0  BY <2>3, <4>1 DEF CoreSame
      <4>3. PICK u \in Procs : u = proc[r].origin /\ InUse(u) /\ proc[u].tid = 0
                /\ proc[u].pid = proc[r].pid /\ proc[u].pgdir = proc[r].pgdir
        BY <4>2 DEF IInv, OneOrigin, InUse
      <4>4. u # l /\ CoreSame(u)  BY <1>6, <4>3
      <4>5. proc'[r].origin = u  BY <4>1, <4>3 DEF CoreSame
      <4> QED  BY <4>1, <4>3, <4>4, <4>5 DEF CoreSame, InUse
    <3> QED  BY <3>1, <3>2
  <2>4. \A r, s \in Procs : proc[r].state # "UNUSED" /\ proc[s].state # "UNUSED"
                            /\ proc[r].pid = proc[s].pid /\ proc[r].tid = proc[s].tid => r = s
    BY DEF IInv, OneOrigin, InUse
  <2>5. \A r \in Procs : r # l /\ proc'[r].state # "UNUSED" =>
            /\ proc[r].state # "UNUSED"
            /\ proc'[r].pid = proc[r].pid /\ proc'[r].tid = proc[r].tid
    BY <1>6 DEF CoreSame
  <2>6. \A r \in Procs : r # l /\ proc'[r].state # "UNUSED" =>
            proc'[r].pid # proc'[l].pid \/ proc'[r].tid # proc'[l].tid
    BY <1>3, <2>5 DEF NewThread, NewProcess, InUse
  <2>7. \A r, s \in Procs : proc'[r].state # "UNUSED" /\ proc'[s].state # "UNUSED"
                            /\ proc'[r].pid = proc'[s].pid /\ proc'[r].tid = proc'[s].tid => r = s
    BY <2>4, <2>5, <2>6
  <2> QED  BY <2>3, <2>7 DEF OneOrigin, InUse
<1>20. LastThread'
  <2> SUFFICES ASSUME NEW r \in Procs,
                      \/ proc'[r].at \in {"exec", "exit"}
                      \/ proc'[r].state = "ZOMBIE" /\ proc'[r].tid = 0,
                      NEW s \in Procs, proc'[s].pid = proc'[r].pid
               PROVE  s = r
    BY DEF LastThread, Family
  <2>1. r # p /\ r # l  BY <1>8
  <2>2. Mild(r)  BY <1>5, <2>1
  <2>3. proc[r].at \in {"exec", "exit"} \/ (proc[r].state = "ZOMBIE" /\ proc[r].tid = 0)
    BY <2>2 DEF Mild, CoreSame
  <2>4. \A t \in Family(r) : t = r  BY <2>3 DEF IInv, LastThread
  <2>5. InUse(r)  BY <2>3, InUseOf DEF InUse
  <2>6. s # l
    <3> SUFFICES ASSUME s = l PROVE FALSE  OBVIOUS
    <3>1. CASE NewThread(p, l)
      <4>1. proc[p].pid = proc[r].pid  BY <2>2, <3>1 DEF NewThread, Mild, CoreSame
      <4> QED  BY <2>1, <2>4, <4>1 DEF Family
    <3>2. CASE NewProcess(p, l)
      <4>1. nextpid = proc[r].pid  BY <2>2, <3>2 DEF NewProcess, Mild, CoreSame
      <4> QED  BY <1>3, <2>5, <4>1
    <3> QED  BY <3>1, <3>2
  <2>7. proc[s].pid = proc[r].pid  BY <1>6, <2>2, <2>6 DEF Mild, CoreSame
  <2> QED  BY <2>4, <2>7 DEF Family
<1>21. DirsExact'
  <2>1. \A d : d \in dirs <=> d # NoDir /\ \E r \in Procs : proc[r].pgdir = d
    BY DEF IInv, DirsExact
  <2>2. \A r \in Procs : r # l => proc'[r].pgdir = proc[r].pgdir  BY <1>6 DEF CoreSame
  <2>3. proc'[l].pgdir = NoDir \/ proc'[l].pgdir = proc[p].pgdir
    BY DEF NewThread, NewProcess
  <2>4. ASSUME NEW d, d # NoDir
        PROVE  (\E r \in Procs : proc[r].pgdir = d) <=> \E r \in Procs : proc'[r].pgdir = d
    <3>1. ASSUME NEW r \in Procs, proc[r].pgdir = d PROVE proc'[r].pgdir = d
      BY <1>4, <2>2, <2>4, <3>1
    <3>2. ASSUME NEW r \in Procs, proc'[r].pgdir = d
          PROVE  \E s \in Procs : proc[s].pgdir = d
      <4>1. CASE r = l  BY <2>3, <2>4, <3>2, <4>1
      <4>2. CASE r # l  BY <2>2, <3>2, <4>2
      <4> QED  BY <4>1, <4>2
    <3> QED  BY <3>1, <3>2
  <2>5. NoDir \notin dirs /\ dirs' = dirs  BY <2>1
  <2>6. \A d : d \in dirs' <=> d # NoDir /\ \E r \in Procs : proc'[r].pgdir = d
    BY <2>1, <2>4, <2>5
  <2> QED  BY <2>6 DEF DirsExact
<1> QED
  BY <1>11, <1>12, <1>13, <1>14, <1>15, <1>16, <1>17, <1>18, <1>19, <1>20, <1>21 DEF IInv

LEMMA ForkKeeps ==
    ASSUME IInv, OneCpu, NEW p \in Procs, Fork(p)
    PROVE  IInv'
<1>1. /\ On(p) /\ proc[p].state = "RUNNING" /\ proc[p].at = "user" /\ nextpid <= MaxPid
      /\ nextpid' = nextpid + 1 /\ UNCHANGED <<cpu, dirs, mem, nexttid, panic>>
  BY DEF Fork, Enters, Runs, memory
<1>2. PICK l \in Procs :
          /\ ~InUse(l)
          /\ proc' = [proc EXCEPT ![l].state = "EMBRYO", ![l].pid = nextpid,
                                  ![p].at = "fork", ![p].np = l, ![p].arg = proc[p].sz]
  BY DEF Fork, Free
<1>3. TypeOK /\ proc \in [Procs -> Slot] /\ nextpid \in Nat /\ nextpid \in 0 .. MaxPid
      /\ MaxPid \in Nat
  BY <1>1, Types, Bounds DEF IInv, TypeOK
<1>4. l # p /\ proc[l] = [Blank EXCEPT !.killed = proc[l].killed]
  BY <1>1, <1>2 DEF InUse, IInv, Blanks
<1>5. /\ proc'[l] = [proc[l] EXCEPT !.state = "EMBRYO", !.pid = nextpid]
      /\ proc'[p] = [proc[p] EXCEPT !.at = "fork", !.np = l, !.arg = proc[p].sz]
      /\ \A r \in Procs \ {p, l} : proc'[r] = proc[r]
      /\ proc[p] \in Slot /\ proc[l] \in Slot
  BY <1>2, <1>3, <1>4
<1>6. proc[p].sz \in 0 .. MaxArg  BY <1>3, SlotFields, Args
<1>7. /\ proc'[p] \in Slot /\ CoreSame(p)
      /\ proc'[p].state = "RUNNING" /\ proc'[p].at = "fork" /\ proc'[p].np = l
  <2>1. proc'[p] = [proc[p] EXCEPT !.at = "fork", !.np = l, !.arg = proc[p].sz]
        /\ proc[p] \in Slot
    BY <1>5
  <2>2. proc'[p] \in Slot  BY <1>6, <2>1 DEF Slot, Ats
  <2> QED  BY <1>1, <2>1, <2>2 DEF Slot, CoreSame
<1>8. /\ proc'[l] \in Slot /\ proc'[l].state = "EMBRYO" /\ proc'[l].pid = nextpid
      /\ proc'[l].at = "none" /\ proc'[l].tid = 0 /\ proc'[l].pgdir = NoDir
  <2>1. proc'[l] = [proc[l] EXCEPT !.state = "EMBRYO", !.pid = nextpid] /\ proc[l] \in Slot
    BY <1>5
  <2>2. proc'[l] \in Slot  BY <1>3, <2>1 DEF Slot, States
  <2>3. proc[l].at = "none" /\ proc[l].tid = 0 /\ proc[l].pgdir = NoDir
    BY <1>4 DEF Blank
  <2> QED  BY <2>1, <2>2, <2>3 DEF Slot
<1>9. proc' \in [Procs -> Slot]  BY <1>2, <1>3, <1>5, <1>7, <1>8
<1>10. TypeOK'
  <2>1. nextpid' \in 1 .. MaxPid + 1  BY <1>1, <1>3 DEF TypeOK
  <2> QED  BY <1>1, <1>3, <1>9, <2>1 DEF TypeOK, Slot, MaxArg
<1>11. NewProcess(p, l)  BY <1>1, <1>7, <1>8 DEF NewProcess
<1>12. \A r \in Procs \ {p, l} : Mild(r) /\ (proc[r].state = "UNUSED" => proc'[r] = proc[r])
  BY <1>5 DEF Mild, CoreSame
<1>13. \A r \in Procs \ {l} : CoreSame(r)  BY <1>7, <1>12 DEF Mild
<1> QED  BY <1>1, <1>2, <1>7, <1>8, <1>10, <1>11, <1>12, <1>13, AddKeeps

(* The size of the address space stays within its bound.                    *)
LEMMA NewSize ==
    ASSUME NEW old \in 0 .. MaxSz, ~TooBig(old + StackSz)
    PROVE  old + StackSz \in 0 .. MaxSz
  BY Bounds DEF TooBig

LEMMA OriginIn ==
    ASSUME IInv, NEW p \in Procs, InUse(p)
    PROVE  Origin(p) \in Procs /\ InUse(Origin(p))
  BY DEF IInv, OneOrigin, Origin

LEMMA ThreadCreateKeeps ==
    ASSUME IInv, OneCpu, NEW p \in Procs, ThreadCreate(p)
    PROVE  IInv'
<1> DEFINE ori == Origin(p)
           old == proc[ori].sz
           new == old + StackSz
<1>1. /\ On(p) /\ proc[p].state = "RUNNING" /\ proc[p].at = "user" /\ nexttid <= MaxTid
      /\ \/ Panic("kfree")
         \/ \E l \in Procs :
             /\ Free(l)
             /\ \/ /\ proc' = [proc EXCEPT ![ori].sz = 0, ![l] = Blank]
                   /\ nexttid' = nexttid + 1
                   /\ UNCHANGED <<cpu, memory, nextpid, panic>>
                \/ Panic("remap")
                \/ /\ ~TooBig(new)
                   /\ MapsIn(proc[p].pgdir, Pages(old, new))
                   /\ proc' = [q \in Procs |->
                         CASE q = l -> [proc[l] EXCEPT !.state = "EMBRYO", !.tid = nexttid,
                                           !.pid = proc[p].pid, !.parent = p, !.origin = ori,
                                           !.pgdir = proc[p].pgdir, !.sz = new]
                           [] q = p -> [proc[p] EXCEPT !.sz = new, !.at = "create", !.np = l]
                           [] q \in Family(p) \ {l, p} -> [proc[q] EXCEPT !.sz = new]
                           [] OTHER -> proc[q]]
                   /\ nexttid' = nexttid + 1
                   /\ UNCHANGED <<cpu, nextpid, panic>>
  BY DEF ThreadCreate, Enters, Runs, Origin
<1>2. /\ TypeOK /\ proc \in [Procs -> Slot] /\ nexttid \in Nat /\ nexttid \in 0 .. MaxTid
      /\ MaxTid \in Nat /\ nexttid # 0
  <2>1. TypeOK /\ proc \in [Procs -> Slot]  BY Types DEF IInv
  <2>2. nexttid \in 1 .. MaxTid + 1 /\ MaxTid \in Nat  BY <2>1, Bounds DEF TypeOK
  <2>3. nexttid <= MaxTid  BY <1>1
  <2> QED  BY <2>1, <2>2, <2>3
<1>3. Alone(p) /\ Placed(p) /\ InUse(p) /\ 0 < proc[p].pid  BY <1>1, Running
<1>4. ori \in Procs /\ InUse(ori) /\ old \in 0 .. MaxSz
  BY <1>2, <1>3, OriginIn, SlotFields
<1>5. \A r \in Procs : ~InUse(r) => proc[r] = [Blank EXCEPT !.killed = proc[r].killed]
  BY DEF IInv, Blanks
<1> HIDE DEF ori, old, new
<1>6. CASE Panic("kfree") \/ Panic("remap")
  <2>1. panic' \in Panics  BY <1>6 DEF Panic, Panics
  <2> QED  BY <1>6, <2>1, StopKeeps DEF Panic, memory
<1>7. ASSUME NEW l \in Procs, Free(l),
             proc' = [proc EXCEPT ![ori].sz = 0, ![l] = Blank],
             nexttid' = nexttid + 1, UNCHANGED <<cpu, memory, nextpid, panic>>
      PROVE  IInv'
  <2>1. ~InUse(l) /\ l # p /\ l # ori  BY <1>3, <1>4, <1>7 DEF Free
  <2>2. /\ proc'[l] = Blank /\ proc'[ori] = [proc[ori] EXCEPT !.sz = 0]
        /\ \A r \in Procs \ {ori, l} : proc'[r] = proc[r]
        /\ proc[ori] \in Slot /\ proc[l] \in Slot
    BY <1>2, <1>4, <1>7, <2>1
  <2>3. proc'[ori] \in Slot /\ Mild(ori)
    <3>1. 0 \in 0 .. MaxSz  BY Bounds
    <3>2. proc'[ori] = [proc[ori] EXCEPT !.sz = 0] /\ proc[ori] \in Slot  BY <2>2
    <3>3. proc'[ori] \in Slot  BY <3>1, <3>2 DEF Slot
    <3> QED  BY <3>2, <3>3 DEF Slot, Mild, CoreSame
  <2>4. Mild(l) /\ proc'[l] \in Slot
    <3>1. proc[l] = [Blank EXCEPT !.killed = proc[l].killed]  BY <1>5, <2>1
    <3> QED  BY <2>2, <3>1, BlankType DEF Blank, Mild, CoreSame
  <2>5. \A r \in Procs \ {ori, l} : Mild(r) /\ proc'[r] \in Slot
    BY <1>2, <2>2 DEF Mild, CoreSame
  <2>6. \A r \in Procs : Mild(r) /\ proc'[r] \in Slot  BY <2>3, <2>4, <2>5
  <2>7. proc' \in [Procs -> Slot]  BY <1>2, <1>7, <2>6
  <2>8. TypeOK'
    <3>1. nexttid' \in 1 .. MaxTid + 1  BY <1>2, <1>7
    <3> QED  BY <1>2, <1>7, <2>7, <3>1 DEF TypeOK, Slot, MaxArg, memory
  <2>9. Mild(p) /\ \A r \in Procs : On(r)' <=> On(r)  BY <1>7, <2>6 DEF On
  <2>10. Blanks'
    <3> SUFFICES ASSUME NEW r \in Procs, proc'[r].state = "UNUSED"
                 PROVE  proc'[r] = [Blank EXCEPT !.killed = proc'[r].killed]
      BY DEF Blanks, InUse
    <3>1. CASE r = l
      <4>1. Blank = [Blank EXCEPT !.killed = Blank.killed]  BY DEF Blank
      <4> QED  BY <2>2, <3>1, <4>1
    <3>2. CASE r # l
      <4>1. ~InUse(r)  BY <2>6 DEF Mild, CoreSame, InUse
      <4>2. r # ori  BY <1>4, <4>1
      <4>3. proc'[r] = proc[r]  BY <2>2, <3>2, <4>2
      <4> QED  BY <1>5, <4>1, <4>3
    <3> QED  BY <3>1, <3>2
  <2>11. Becomes(p)  BY <1>1, <2>9 DEF Becomes, Mild, CoreSame
  <2>12. Placed(p)'  BY <1>3, <2>9 DEF Placed, Mild, CoreSame, Lives
  <2>13. Steps(p)  BY <1>7, <2>6, <2>9, <2>11, <2>12 DEF Steps, memory
  <2> QED  BY <1>3, <2>8, <2>10, <2>13, StepsKeep
<1>8. ASSUME NEW l \in Procs, Free(l), ~TooBig(new),
             MapsIn(proc[p].pgdir, Pages(old, new)),
             proc' = [q \in Procs |->
                CASE q = l -> [proc[l] EXCEPT !.state = "EMBRYO", !.tid = nexttid,
                                  !.pid = proc[p].pid, !.parent = p, !.origin = ori,
                                  !.pgdir = proc[p].pgdir, !.sz = new]
                  [] q = p -> [proc[p] EXCEPT !.sz = new, !.at = "create", !.np = l]
                  [] q \in Family(p) \ {l, p} -> [proc[q] EXCEPT !.sz = new]
                  [] OTHER -> proc[q]],
             nexttid' = nexttid + 1, UNCHANGED <<cpu, nextpid, panic>>
      PROVE  IInv'
  <2>1. ~InUse(l) /\ l # p  BY <1>3, <1>8 DEF Free
  <2>2. new \in 0 .. MaxSz  BY <1>4, <1>8, NewSize DEF new
  <2>3. \A q \in Procs : proc'[q] =
                CASE q = l -> [proc[l] EXCEPT !.state = "EMBRYO", !.tid = nexttid,
                                  !.pid = proc[p].pid, !.parent = p, !.origin = ori,
                                  !.pgdir = proc[p].pgdir, !.sz = new]
                  [] q = p -> [proc[p] EXCEPT !.sz = new, !.at = "create", !.np = l]
                  [] q \in Family(p) \ {l, p} -> [proc[q] EXCEPT !.sz = new]
                  [] OTHER -> proc[q]
    BY <1>8
  <2>4. /\ proc'[l] \in Slot /\ proc'[l].state = "EMBRYO" /\ proc'[l].at = "none"
        /\ proc'[l].tid = nexttid /\ proc'[l].pid = proc[p].pid /\ proc'[l].origin = ori
        /\ proc'[l].pgdir = proc[p].pgdir
    <3>1. /\ proc'[l] = [proc[l] EXCEPT !.state = "EMBRYO", !.tid = nexttid,
                                  !.pid = proc[p].pid, !.parent = p, !.origin = ori,
                                  !.pgdir = proc[p].pgdir, !.sz = new]
          /\ proc[l] \in Slot
      <4> DEFINE e == [proc[l] EXCEPT !.state = "EMBRYO", !.tid = nexttid,
                                      !.pid = proc[p].pid, !.parent = p, !.origin = ori,
                                      !.pgdir = proc[p].pgdir, !.sz = new]
      <4>1. proc'[l] = CASE l = l -> e
                  [] l = p -> [proc[p] EXCEPT !.sz = new, !.at = "create", !.np = l]
                  [] l \in Family(p) \ {l, p} -> [proc[l] EXCEPT !.sz = new]
                  [] OTHER -> proc[l]
        BY <2>3
      <4> HIDE DEF e
      <4>2. proc'[l] = e  BY <2>1, <4>1
      <4> QED  BY <1>2, <4>2 DEF e
    <3>2. proc[p].pid \in 0 .. MaxPid /\ proc[p].pgdir \in Dirs \union {NoDir}
      BY <1>2, SlotFields
    <3>3. proc[l].at = "none"
      <4>1. proc[l] = [Blank EXCEPT !.killed = proc[l].killed]  BY <1>5, <2>1
      <4> QED  BY <4>1 DEF Blank
    <3>4. proc'[l] \in Slot
      <4> DEFINE e == [proc[l] EXCEPT !.state = "EMBRYO", !.tid = nexttid, !.pid = proc[p].pid]
      <4>1. e \in Slot  BY <1>2, <3>1, <3>2 DEF Slot, States
      <4>2. proc'[l] = [e EXCEPT !.parent = p, !.origin = ori,
                                 !.pgdir = proc[p].pgdir, !.sz = new]
        BY <3>1 DEF Slot
      <4> HIDE DEF e
      <4> QED  BY <1>4, <2>2, <3>2, <4>1, <4>2 DEF Slot
    <3> QED  BY <3>1, <3>3, <3>4 DEF Slot
  <2>5. /\ proc'[p] \in Slot /\ CoreSame(p) /\ proc'[p].state = "RUNNING"
        /\ proc'[p].at = "create" /\ proc'[p].np = l
    <3>1. proc'[p] = [proc[p] EXCEPT !.sz = new, !.at = "create", !.np = l] /\ proc[p] \in Slot
      BY <1>2, <2>1, <2>3
    <3>2. proc'[p] \in Slot  BY <2>2, <3>1 DEF Slot, Ats
    <3> QED  BY <1>1, <3>1, <3>2 DEF Slot, CoreSame
  <2>6. ASSUME NEW r \in Procs \ {p, l}
        PROVE  /\ proc'[r] \in Slot /\ Mild(r)
               /\ proc[r].state = "UNUSED" => proc'[r] = proc[r]
    <3>1. proc[r] \in Slot  BY <1>2
    <3>2. CASE r \in Family(p)
      <4>1. proc'[r] = [proc[r] EXCEPT !.sz = new]  BY <2>3, <3>2
      <4>2. proc[r].pid = proc[p].pid  BY <3>2 DEF Family
      <4>3. InUse(r)
        <5>1. proc[r].pid # 0  BY <1>3, <4>2
        <5> QED  BY <5>1, InUseOf
      <4>4. proc'[r] \in Slot /\ Mild(r)  BY <2>2, <3>1, <4>1 DEF Slot, Mild, CoreSame
      <4> QED  BY <4>3, <4>4 DEF InUse
    <3>3. CASE r \notin Family(p)
      <4>1. proc'[r] = proc[r]  BY <2>3, <3>3
      <4> QED  BY <3>1, <4>1 DEF Mild, CoreSame
    <3> QED  BY <3>2, <3>3
  <2>7. proc' \in [Procs -> Slot]  BY <1>8, <2>4, <2>5, <2>6
  <2>8. TypeOK' /\ UNCHANGED dirs
    <3>1. nexttid' \in 1 .. MaxTid + 1  BY <1>2, <1>8
    <3>2. mem' \in [Dirs -> SUBSET VA] /\ UNCHANGED dirs
      <4>1. Pages(old, new) \subseteq VA  BY PagesType
      <4> QED  BY <1>2, <1>8, <4>1 DEF MapsIn, TypeOK
    <3> QED  BY <1>2, <1>8, <2>7, <3>1, <3>2 DEF TypeOK, Slot, MaxArg
  <2>9. NewThread(p, l)  BY <1>8, <2>4, <2>5 DEF NewThread, ori
  <2>10. \A r \in Procs \ {l} : CoreSame(r)  BY <2>5, <2>6 DEF Mild
  <2> QED  BY <1>1, <1>8, <2>1, <2>4, <2>5, <2>6, <2>8, <2>9, <2>10, AddKeeps
<1> QED  BY <1>1, <1>6, <1>7, <1>8

-----------------------------------------------------------------------------
(* New directories, by fork and exec.                                       *)

(* A process of one thread exchanges its directory for a new one.           *)
LEMMA NewDirKeeps ==
    ASSUME IInv, NEW l \in Procs, InUse(l), proc[l].tid = 0, \A q \in Family(l) : q = l,
           NEW d \in Dirs \ dirs, proc'[l].pgdir = d,
           dirs' = (dirs \union {d}) \ {proc[l].pgdir},
           \A r \in Procs : /\ proc'[r].pid = proc[r].pid /\ proc'[r].tid = proc[r].tid
                            /\ proc'[r].origin = proc[r].origin
                            /\ proc'[r].state = "UNUSED" <=> proc[r].state = "UNUSED",
           \A r \in Procs \ {l} : proc'[r].pgdir = proc[r].pgdir,
           UNCHANGED nexttid, UNCHANGED nextpid
    PROVE  Ids' /\ DirOwn' /\ TidsOnce' /\ OneOrigin' /\ DirsExact'
<1>1. d # NoDir  BY Bounds
<1>2. \A e : e \in dirs <=> e # NoDir /\ \E r \in Procs : proc[r].pgdir = e
  BY DEF IInv, DirsExact
<1>3. \A r \in Procs : proc[r].pgdir # d  BY <1>1, <1>2
<1>4. \A r \in Procs : r # l => proc[r].pid # proc[l].pid  BY DEF Family
<1>5. \A r \in Procs : r # l => proc'[r].pgdir = proc[r].pgdir  OBVIOUS
<1>6. \A r \in Procs : r # l /\ proc[l].pgdir # NoDir => proc[r].pgdir # proc[l].pgdir
  BY <1>4 DEF IInv, DirOwn
<1>7. Ids'  BY DEF IInv, Ids, InUse
<1>8. TidsOnce'  BY DEF IInv, TidsOnce
<1>9. DirOwn'
  <2> SUFFICES ASSUME NEW r \in Procs, NEW s \in Procs, proc'[r].pgdir # NoDir,
                      proc'[s].pgdir = proc'[r].pgdir
               PROVE  proc'[s].pid = proc'[r].pid
    BY DEF DirOwn
  <2>1. CASE r = l \/ s = l
    <3>1. r = s  BY <1>3, <1>5, <2>1
    <3> QED  BY <3>1
  <2>2. CASE r # l /\ s # l
    <3>1. proc[s].pgdir = proc[r].pgdir /\ proc[r].pgdir # NoDir  BY <1>5, <2>2
    <3> QED  BY <3>1 DEF IInv, DirOwn
  <2> QED  BY <2>1, <2>2
<1>10. OneOrigin'
  <2>1. ASSUME NEW r \in Procs, proc'[r].state # "UNUSED", proc'[r].tid # 0
        PROVE  /\ proc'[r].origin \in Procs /\ proc'[proc'[r].origin].state # "UNUSED"
               /\ proc'[proc'[r].origin].tid = 0
               /\ proc'[proc'[r].origin].pid = proc'[r].pid
               /\ proc'[proc'[r].origin].pgdir = proc'[r].pgdir
    <3>1. proc[r].state # "UNUSED" /\ proc[r].tid # 0 /\ r # l  BY <2>1
    <3>2. PICK o \in Procs : o = proc[r].origin /\ InUse(o) /\ proc[o].tid = 0
              /\ proc[o].pid = proc[r].pid /\ proc[o].pgdir = proc[r].pgdir
      BY <3>1 DEF IInv, OneOrigin, InUse
    <3>3. o # l  BY <1>4, <3>1, <3>2
    <3>4. proc'[r].origin = o /\ proc'[o].pgdir = proc[o].pgdir /\ proc'[r].pgdir = proc[r].pgdir
      BY <1>5, <3>1, <3>2, <3>3
    <3> QED  BY <3>2, <3>4 DEF InUse
  <2>2. \A r, s \in Procs : proc'[r].state # "UNUSED" /\ proc'[s].state # "UNUSED"
                            /\ proc'[r].pid = proc'[s].pid /\ proc'[r].tid = proc'[s].tid => r = s
    BY DEF IInv, OneOrigin, InUse
  <2> QED  BY <2>1, <2>2 DEF OneOrigin, InUse
<1>11. DirsExact'
  <2>1. ASSUME NEW e
        PROVE  e \in dirs' <=> e # NoDir /\ \E r \in Procs : proc'[r].pgdir = e
    <3>1. CASE e = d  BY <1>1, <1>3, <3>1
    <3>2. CASE e # d
      <4>1. e \in dirs' <=> e \in dirs /\ e # proc[l].pgdir  BY <3>2
      <4>2. ASSUME e \in dirs, e # proc[l].pgdir
            PROVE  e # NoDir /\ \E r \in Procs : proc'[r].pgdir = e
        <5>1. PICK r \in Procs : proc[r].pgdir = e /\ e # NoDir  BY <1>2, <4>2
        <5>2. r # l  BY <4>2, <5>1
        <5> QED  BY <1>5, <5>1, <5>2
      <4>3. ASSUME NEW r \in Procs, proc'[r].pgdir = e, e # NoDir
            PROVE  e \in dirs /\ e # proc[l].pgdir
        <5>1. r # l  BY <3>2, <4>3
        <5>2. proc[r].pgdir = e  BY <1>5, <4>3, <5>1
        <5> QED  BY <1>2, <1>6, <4>3, <5>1, <5>2
      <4> QED  BY <4>1, <4>2, <4>3
    <3> QED  BY <3>1, <3>2
  <2> QED  BY <2>1 DEF DirsExact
<1> QED  BY <1>7, <1>8, <1>9, <1>10, <1>11

LEMMA ForkCopyKeeps ==
    ASSUME IInv, OneCpu, NEW p \in Procs, ForkCopy(p)
    PROVE  IInv'
<1>1. CASE ~(Pages(0, proc[p].arg) \subseteq mem[proc[p].pgdir])
  <2>1. Panic("copyuvm: page not present")  BY <1>1 DEF ForkCopy
  <2>2. panic' \in Panics  BY <2>1 DEF Panic, Panics
  <2> QED  BY <2>1, <2>2, StopKeeps DEF Panic, memory
<1>2. CASE Pages(0, proc[p].arg) \subseteq mem[proc[p].pgdir]
  <2>1. PICK d \in Dirs \ dirs :
            /\ On(p) /\ proc[p].state = "RUNNING" /\ proc[p].at = "fork"
            /\ dirs' = dirs \union {d}
            /\ mem' = [mem EXCEPT ![d] = Pages(0, proc[p].arg)]
            /\ proc' = [proc EXCEPT ![proc[p].np].pgdir = d, ![p].at = "copied", ![p].arg = 0]
            /\ UNCHANGED <<cpu, nextpid, nexttid, panic>>
    BY <1>2 DEF ForkCopy, Runs, NewDir
  <2>2. TypeOK /\ proc \in [Procs -> Slot] /\ 0 \in 0 .. MaxArg  BY Types, Args DEF IInv
  <2>3. PICK l \in Procs : /\ l = proc[p].np /\ l # p /\ proc[l].state = "EMBRYO"
                           /\ proc[l].tid = 0 /\ proc[l].pgdir = NoDir
    <3>1. Filling(p)  BY DEF IInv, Fillings
    <3> QED  BY <2>1, <3>1 DEF Filling, Builds
  <2>4. proc' = [proc EXCEPT ![l].pgdir = d, ![p].at = "copied", ![p].arg = 0]
    BY <2>1, <2>3
  <2>5. /\ proc'[l] = [proc[l] EXCEPT !.pgdir = d]
        /\ proc'[p] = [proc[p] EXCEPT !.at = "copied", !.arg = 0]
        /\ \A r \in Procs \ {p, l} : proc'[r] = proc[r]
        /\ proc[p] \in Slot /\ proc[l] \in Slot
    BY <2>2, <2>3, <2>4
  <2>6. /\ proc'[l] \in Slot /\ proc'[l].pgdir = d /\ proc'[l].state = "EMBRYO"
        /\ proc'[l].pid = proc[l].pid /\ proc'[l].tid = 0 /\ proc'[l].origin = proc[l].origin
        /\ proc'[l].at = proc[l].at
    <3>1. proc'[l] = [proc[l] EXCEPT !.pgdir = d] /\ proc[l] \in Slot  BY <2>5
    <3> QED  BY <2>3, <3>1 DEF Slot
  <2>7. /\ proc'[p] \in Slot /\ CoreSame(p) /\ proc'[p].state = "RUNNING"
        /\ proc'[p].at = "copied" /\ proc'[p].np = l
    <3>1. proc'[p] = [proc[p] EXCEPT !.at = "copied", !.arg = 0] /\ proc[p] \in Slot  BY <2>5
    <3>2. proc'[p] \in Slot  BY <2>2, <3>1 DEF Slot, Ats
    <3>3. proc[p].state = "RUNNING"  BY <2>1
    <3>4. proc[p].np = l  BY <2>3
    <3> QED  BY <3>1, <3>2, <3>3, <3>4 DEF Slot, CoreSame
  <2>8. \A r \in Procs : r # p /\ r # l => proc'[r] = proc[r]  BY <2>5
  <2>9. Alone(p) /\ Placed(p)  BY <2>1, Running
  <2>10. proc' \in [Procs -> Slot]  BY <2>2, <2>4, <2>5, <2>6, <2>7
  <2>11. TypeOK'
    <3>1. mem' \in [Dirs -> SUBSET VA]  BY <2>1, <2>2, PagesType DEF TypeOK
    <3>2. dirs' \in SUBSET Dirs  BY <2>1, <2>2 DEF TypeOK
    <3> QED  BY <2>1, <2>2, <2>10, <3>1, <3>2 DEF TypeOK, Slot, MaxArg
  <2>12. \A q \in Family(l) : q = l  BY <2>3 DEF IInv, NewAlone, Family
  <2>13. Ids' /\ DirOwn' /\ TidsOnce' /\ OneOrigin' /\ DirsExact'
    <3>1. dirs' = (dirs \union {d}) \ {proc[l].pgdir}
      BY <2>1, <2>2, <2>3, Bounds DEF TypeOK
    <3>2. \A r \in Procs : /\ proc'[r].pid = proc[r].pid /\ proc'[r].tid = proc[r].tid
                           /\ proc'[r].origin = proc[r].origin
                           /\ proc'[r].state = "UNUSED" <=> proc[r].state = "UNUSED"
      BY <2>3, <2>6, <2>7, <2>8 DEF CoreSame
    <3>3. \A r \in Procs \ {l} : proc'[r].pgdir = proc[r].pgdir
      BY <2>7, <2>8 DEF CoreSame
    <3>4. InUse(l)  BY <2>3 DEF InUse
    <3> QED  BY <2>1, <2>3, <2>6, <2>12, <3>1, <3>2, <3>3, <3>4, NewDirKeeps
  <2>14. \A r \in Procs : On(r)' <=> On(r)  BY <2>1 DEF On
  <2>15. Blanks'
    <3> SUFFICES ASSUME NEW r \in Procs, proc'[r].state = "UNUSED"
                 PROVE  proc'[r] = [Blank EXCEPT !.killed = proc'[r].killed]
      BY DEF Blanks, InUse
    <3>1. proc'[r] = proc[r]  BY <2>6, <2>7, <2>8
    <3> QED  BY <3>1 DEF IInv, Blanks, InUse
  <2>16. Places'
    <3> SUFFICES ASSUME NEW r \in Procs PROVE Placed(r)'  BY DEF Places
    <3>1. CASE r = l
      <4>1. Placed(l) /\ ~On(l)  BY <2>3, <2>9 DEF IInv, Places, Alone
      <4>2. ~On(r)' /\ proc'[r].state = "EMBRYO" /\ proc'[r].at = "none"
        BY <2>3, <2>6, <2>9, <2>14, <3>1, <4>1 DEF Placed, Alone
      <4> QED  BY <4>2 DEF Placed, Lives
    <3>2. CASE r = p
      <4>1. On(r)' /\ proc'[r].state = "RUNNING" /\ proc'[r].at = "copied"
        BY <2>1, <2>7, <2>14, <3>2
      <4> QED  BY <4>1 DEF Placed, Lives
    <3>3. CASE r # p /\ r # l
      <4>1. Placed(r) /\ proc'[r] = proc[r] /\ (On(r)' <=> On(r))
        BY <2>8, <2>14, <3>3 DEF IInv, Places
      <4> QED  BY <4>1 DEF Placed, Lives
    <3> QED  BY <3>1, <3>2, <3>3
  <2>17. Fillings'
    <3>1. \A r, s \in Procs : Builds(r) /\ Builds(s) /\ proc[r].np = proc[s].np => r = s
      BY DEF IInv, Fillings
    <3>2. Builds(p)  BY <2>1 DEF Builds
    <3>3. \A r \in Procs : Builds(r)' /\ r # p =>
              /\ proc'[r] = proc[r] /\ Builds(r) /\ Filling(r)
              /\ proc[r].np \in Procs /\ proc'[proc[r].np] = proc[proc[r].np]
      <4> SUFFICES ASSUME NEW r \in Procs, Builds(r)', r # p
                   PROVE  /\ proc'[r] = proc[r] /\ Builds(r) /\ Filling(r)
                          /\ proc[r].np \in Procs /\ proc'[proc[r].np] = proc[proc[r].np]
        OBVIOUS
      <4>1. r # l
        <5>1. Placed(l)'  BY <2>16 DEF Places
        <5> QED  BY <2>6, <5>1 DEF Builds, Placed
      <4>2. proc'[r] = proc[r] /\ Builds(r)  BY <2>8, <4>1 DEF Builds
      <4>3. Filling(r)  BY DEF IInv, Fillings
      <4>4. proc[r].np \in Procs /\ proc[proc[r].np].state = "EMBRYO"
        BY <4>2, <4>3 DEF Filling
      <4>5. proc[r].np # l  BY <2>3, <3>1, <3>2, <4>2
      <4>6. proc[r].np # p  BY <2>1, <4>4
      <4> QED  BY <2>8, <4>2, <4>3, <4>4, <4>5, <4>6
    <3>4. \A r \in Procs : Filling(r)'
      <4> SUFFICES ASSUME NEW r \in Procs, Builds(r)' PROVE Filling(r)'  BY DEF Filling
      <4>1. CASE r = p
        <5>1. proc'[r].np = l /\ proc'[r].at = "copied"  BY <2>7, <4>1
        <5>2. proc'[l].state = "EMBRYO" /\ proc'[l].tid = 0 /\ proc'[l].pgdir # NoDir
          BY <2>6, Bounds
        <5> QED  BY <5>1, <5>2 DEF Filling
      <4>2. CASE r # p
        <5>1. /\ proc'[r] = proc[r] /\ Builds(r) /\ Filling(r)
              /\ proc'[proc[r].np] = proc[proc[r].np]
          BY <3>3, <4>2
        <5> QED  BY <5>1 DEF Filling
      <4> QED  BY <4>1, <4>2
    <3>5. \A r \in Procs : Builds(r)' => Builds(r) /\ proc'[r].np = proc[r].np
      BY <2>3, <2>7, <3>2, <3>3
    <3> QED  BY <3>1, <3>4, <3>5 DEF Fillings
  <2>18. \A r \in Procs : /\ proc'[r].pid = proc[r].pid /\ proc'[r].tid = proc[r].tid
                          /\ proc'[r].state = proc[r].state
                          /\ r # p => proc'[r].at = proc[r].at
    <3>1. \A r \in Procs : r # p /\ r # l => proc'[r] = proc[r]  BY <2>8
    <3>2. /\ proc'[l].pid = proc[l].pid /\ proc'[l].tid = proc[l].tid
          /\ proc'[l].state = proc[l].state /\ proc'[l].at = proc[l].at
      BY <2>3, <2>6
    <3>3. /\ proc'[p].pid = proc[p].pid /\ proc'[p].tid = proc[p].tid
          /\ proc'[p].state = proc[p].state
      BY <2>1, <2>7 DEF CoreSame
    <3> QED  BY <3>1, <3>2, <3>3
  <2>19. NewAlone'  BY <2>18 DEF IInv, NewAlone
  <2>20. JoinArgs'
    <3> SUFFICES ASSUME NEW r \in Procs, proc'[r].at = "join"
                 PROVE  proc'[r].arg # 0 /\ proc'[r].arg <= MaxTid
      BY DEF JoinArgs
    <3>1. r # p /\ r # l
      <4>1. Placed(l)'  BY <2>16 DEF Places
      <4> QED  BY <2>6, <2>7, <4>1 DEF Placed
    <3>2. proc'[r] = proc[r]  BY <2>8, <3>1
    <3> QED  BY <3>2 DEF IInv, JoinArgs
  <2>21. LastThread'
    <3> SUFFICES ASSUME NEW r \in Procs,
                        \/ proc'[r].at \in {"exec", "exit"}
                        \/ proc'[r].state = "ZOMBIE" /\ proc'[r].tid = 0,
                        NEW s \in Procs, proc'[s].pid = proc'[r].pid
                 PROVE  s = r
      BY DEF LastThread, Family
    <3>1. r # p  BY <2>7
    <3>2. proc[r].at \in {"exec", "exit"} \/ (proc[r].state = "ZOMBIE" /\ proc[r].tid = 0)
      BY <2>18, <3>1
    <3>3. \A t \in Family(r) : t = r  BY <3>2 DEF IInv, LastThread
    <3>4. proc[s].pid = proc[r].pid  BY <2>18
    <3> QED  BY <3>3, <3>4 DEF Family
  <2> QED
    BY <2>11, <2>13, <2>15, <2>16, <2>17, <2>19, <2>20, <2>21 DEF IInv
<1> QED  BY <1>1, <1>2

LEMMA ExecCommitKeeps ==
    ASSUME IInv, OneCpu, NEW p \in Procs, ExecCommit(p)
    PROVE  IInv'
<1>1. PICK d \in Dirs \ dirs :
          /\ On(p) /\ proc[p].state = "RUNNING" /\ proc[p].at = "exec"
          /\ dirs' = (dirs \union {d}) \ {proc[p].pgdir}
          /\ mem' = [mem EXCEPT ![d] = Pages(0, ImageSz), ![proc[p].pgdir] = {}]
          /\ proc' = [proc EXCEPT ![p].pgdir = d, ![p].sz = ImageSz, ![p].at = "user"]
          /\ UNCHANGED <<cpu, nextpid, nexttid, panic>>
  BY DEF ExecCommit, Runs, NewDir
<1>2. TypeOK /\ proc \in [Procs -> Slot]  BY Types DEF IInv
<1>3. Alone(p) /\ Placed(p) /\ InUse(p)  BY <1>1, Running
<1>4. proc[p].tid = 0 /\ \A q \in Family(p) : q = p
  BY <1>1, <1>3 DEF IInv, Placed, LastThread
<1>5. proc'[p] = [proc[p] EXCEPT !.pgdir = d, !.sz = ImageSz, !.at = "user"] /\ proc[p] \in Slot
  BY <1>1, <1>2
<1>6. /\ proc'[p] \in Slot /\ proc'[p].pgdir = d /\ proc'[p].state = "RUNNING"
      /\ proc'[p].at = "user" /\ proc'[p].pid = proc[p].pid /\ proc'[p].tid = 0
      /\ proc'[p].origin = proc[p].origin
  <2>1. ImageSz \in 0 .. MaxSz  BY Bounds
  <2>2. proc'[p] \in Slot  BY <1>5, <2>1 DEF Slot, Ats
  <2>3. proc[p].state = "RUNNING"  BY <1>1
  <2>4. proc[p].tid = 0  BY <1>4
  <2> QED  BY <1>5, <2>2, <2>3, <2>4 DEF Slot
<1>7. \A r \in Procs : r # p => proc'[r] = proc[r]  BY <1>1, <1>2
<1>8. proc' \in [Procs -> Slot]  BY <1>1, <1>2, <1>6, <1>7
<1>9. TypeOK'
  <2>1. mem' \in [Dirs -> SUBSET VA]
    <3>1. Pages(0, ImageSz) \subseteq VA  BY PagesType
    <3> QED  BY <1>1, <1>2, <3>1 DEF TypeOK
  <2>2. dirs' \in SUBSET Dirs  BY <1>1, <1>2 DEF TypeOK
  <2> QED  BY <1>1, <1>2, <1>8, <2>1, <2>2 DEF TypeOK, Slot, MaxArg
<1>10. \A r \in Procs : /\ proc'[r].pid = proc[r].pid /\ proc'[r].tid = proc[r].tid
                        /\ proc'[r].origin = proc[r].origin /\ proc'[r].state = proc[r].state
                        /\ r # p => proc'[r].at = proc[r].at
  BY <1>1, <1>4, <1>6, <1>7
<1>11. Ids' /\ DirOwn' /\ TidsOnce' /\ OneOrigin' /\ DirsExact'
  <2>1. \A r \in Procs : /\ proc'[r].pid = proc[r].pid /\ proc'[r].tid = proc[r].tid
                         /\ proc'[r].origin = proc[r].origin
                         /\ proc'[r].state = "UNUSED" <=> proc[r].state = "UNUSED"
    BY <1>10
  <2>2. \A r \in Procs \ {p} : proc'[r].pgdir = proc[r].pgdir  BY <1>7
  <2> QED  BY <1>1, <1>3, <1>4, <1>6, <2>1, <2>2, NewDirKeeps
<1>12. \A r \in Procs : On(r)' <=> On(r)  BY <1>1 DEF On
<1>13. Blanks'
  <2> SUFFICES ASSUME NEW r \in Procs, proc'[r].state = "UNUSED"
               PROVE  proc'[r] = [Blank EXCEPT !.killed = proc'[r].killed]
    BY DEF Blanks, InUse
  <2>1. proc'[r] = proc[r]  BY <1>6, <1>7
  <2> QED  BY <2>1 DEF IInv, Blanks, InUse
<1>14. Places'
  <2> SUFFICES ASSUME NEW r \in Procs PROVE Placed(r)'  BY DEF Places
  <2>1. CASE r = p
    <3>1. On(r)' /\ proc'[r].state = "RUNNING" /\ proc'[r].at = "user"
      BY <1>1, <1>6, <1>12, <2>1
    <3> QED  BY <3>1 DEF Placed, Lives
  <2>2. CASE r # p
    <3>1. Placed(r) /\ proc'[r] = proc[r] /\ (On(r)' <=> On(r))
      BY <1>7, <1>12, <2>2 DEF IInv, Places
    <3> QED  BY <3>1 DEF Placed, Lives
  <2> QED  BY <2>1, <2>2
<1>15. Fillings'
  <2>1. \A r \in Procs : Builds(r)' => r # p /\ proc'[r] = proc[r] /\ Builds(r) /\ Filling(r)
    BY <1>6, <1>7 DEF Builds, IInv, Fillings
  <2>2. \A r \in Procs : Builds(r)' =>
            /\ proc[r].np \in Procs /\ proc'[proc[r].np] = proc[proc[r].np]
    <3> SUFFICES ASSUME NEW r \in Procs, Builds(r)'
                 PROVE  proc[r].np \in Procs /\ proc'[proc[r].np] = proc[proc[r].np]
      OBVIOUS
    <3>1. proc[r].np \in Procs /\ proc[proc[r].np].state = "EMBRYO"  BY <2>1 DEF Filling
    <3>2. proc[r].np # p  BY <1>1, <3>1
    <3> QED  BY <1>7, <3>1, <3>2
  <2>3. \A r \in Procs : Filling(r)'
    <3> SUFFICES ASSUME NEW r \in Procs, Builds(r)' PROVE Filling(r)'  BY DEF Filling
    <3>1. /\ proc'[r] = proc[r] /\ Builds(r) /\ Filling(r)
          /\ proc'[proc[r].np] = proc[proc[r].np]
      BY <2>1, <2>2
    <3> QED  BY <3>1 DEF Filling
  <2>4. \A r, s \in Procs : Builds(r) /\ Builds(s) /\ proc[r].np = proc[s].np => r = s
    BY DEF IInv, Fillings
  <2> QED  BY <2>1, <2>3, <2>4 DEF Fillings
<1>16. NewAlone'  BY <1>10 DEF IInv, NewAlone
<1>17. JoinArgs'  BY <1>6, <1>7 DEF IInv, JoinArgs
<1>18. LastThread'
  <2> SUFFICES ASSUME NEW r \in Procs,
                      \/ proc'[r].at \in {"exec", "exit"}
                      \/ proc'[r].state = "ZOMBIE" /\ proc'[r].tid = 0,
                      NEW s \in Procs, proc'[s].pid = proc'[r].pid
               PROVE  s = r
    BY DEF LastThread, Family
  <2>1. r # p  BY <1>6
  <2>2. proc[r].at \in {"exec", "exit"} \/ (proc[r].state = "ZOMBIE" /\ proc[r].tid = 0)
    BY <1>10, <2>1
  <2>3. \A t \in Family(r) : t = r  BY <2>2 DEF IInv, LastThread
  <2>4. proc[s].pid = proc[r].pid  BY <1>10
  <2> QED  BY <2>3, <2>4 DEF Family
<1> QED
  BY <1>9, <1>11, <1>13, <1>14, <1>15, <1>16, <1>17, <1>18 DEF IInv

-----------------------------------------------------------------------------
(* exec and exit drop the other threads.                                    *)

LEMMA FamilyDir ==
    ASSUME IInv, NEW p \in Procs, NEW q \in Procs, InUse(p), proc[q].pid = proc[p].pid
    PROVE  proc[q].pgdir = proc[p].pgdir
<1>1. InUse(q)
  <2>1. proc[p].pid # 0  BY DEF IInv, Ids
  <2> QED  BY <2>1, InUseOf
<1>2. PICK o \in Procs : /\ InUse(o) /\ proc[o].tid = 0 /\ proc[o].pid = proc[p].pid
                         /\ proc[o].pgdir = proc[p].pgdir
  BY DEF IInv, OneOrigin
<1>3. PICK u \in Procs : /\ InUse(u) /\ proc[u].tid = 0 /\ proc[u].pid = proc[q].pid
                         /\ proc[u].pgdir = proc[q].pgdir
  BY <1>1 DEF IInv, OneOrigin
<1>4. u = o  BY <1>2, <1>3 DEF IInv, OneOrigin
<1> QED  BY <1>2, <1>3, <1>4

LEMMA RemoveAllSlots ==
    ASSUME IInv, OneCpu, NEW p \in Procs, On(p), proc[p].state = "RUNNING",
           NEW at \in {"exec", "exit"}, RemoveAll(p, at)
    PROVE  /\ proc' \in [Procs -> Slot]
           /\ \A q \in Procs : proc[q].pid # proc[p].pid => proc'[q] = proc[q]
           /\ \A q \in Procs : q # p /\ proc[q].pid = proc[p].pid => proc'[q] = Blank
           /\ proc'[p].state = "RUNNING" /\ proc'[p].at = at /\ proc'[p].tid = 0
           /\ proc'[p].pid = proc[p].pid /\ proc'[p].pgdir = proc[p].pgdir
           /\ proc'[p].killed = proc[p].killed
<1>1. proc' = [q \in Procs |->
        CASE q \in Removed(p) -> [Blank EXCEPT !.at = IF On(q) THEN proc[q].at ELSE "none"]
          [] q = p /\ proc[p].tid # 0 ->
                [proc[p] EXCEPT !.parent = proc[proc[p].origin].parent,
                                !.origin = NoProc, !.tid = 0, !.at = at]
          [] q = p /\ proc[p].tid = 0 -> [proc[p] EXCEPT !.at = at]
          [] OTHER -> proc[q]]
  BY DEF RemoveAll
<1>2. TypeOK /\ proc \in [Procs -> Slot]  BY Types DEF IInv
<1>3. Alone(p) /\ InUse(p)  BY Running
<1>4. \A q \in Procs : q \in Removed(p) <=> q # p /\ proc[q].pid = proc[p].pid
  BY DEF Removed, Family
<1>5. ASSUME NEW q \in Procs, proc[q].pid # proc[p].pid
      PROVE  proc'[q] = proc[q]
  <2>1. q \notin Removed(p) /\ q # p  BY <1>4, <1>5
  <2> QED  BY <1>1, <2>1
<1>6. ASSUME NEW q \in Procs, q # p, proc[q].pid = proc[p].pid
      PROVE  proc'[q] = Blank
  <2>1. q \in Removed(p)  BY <1>4, <1>6
  <2>2. ~On(q)  BY <1>3, <1>6 DEF Alone
  <2>3. proc'[q] = [Blank EXCEPT !.at = IF On(q) THEN proc[q].at ELSE "none"]
    <3> DEFINE a == [Blank EXCEPT !.at = IF On(q) THEN proc[q].at ELSE "none"]
               b == [proc[p] EXCEPT !.parent = proc[proc[p].origin].parent,
                                    !.origin = NoProc, !.tid = 0, !.at = at]
               c == [proc[p] EXCEPT !.at = at]
    <3>1. proc'[q] = CASE q \in Removed(p) -> a
                       [] q = p /\ proc[p].tid # 0 -> b
                       [] q = p /\ proc[p].tid = 0 -> c
                       [] OTHER -> proc[q]
      BY <1>1
    <3> HIDE DEF a, b, c
    <3>2. proc'[q] = a  BY <1>6, <2>1, <3>1
    <3> QED  BY <3>2 DEF a
  <2> QED  BY <2>2, <2>3 DEF Blank
<1>7. /\ proc'[p] \in Slot
      /\ proc'[p].state = "RUNNING" /\ proc'[p].at = at /\ proc'[p].tid = 0
      /\ proc'[p].pid = proc[p].pid /\ proc'[p].pgdir = proc[p].pgdir
      /\ proc'[p].killed = proc[p].killed
  <2>1. p \notin Removed(p) /\ proc[p] \in Slot  BY <1>2, <1>4
  <2>2. CASE proc[p].tid # 0
    <3>1. proc'[p] = [proc[p] EXCEPT !.parent = proc[proc[p].origin].parent,
                                     !.origin = NoProc, !.tid = 0, !.at = at]
      BY <1>1, <2>1, <2>2
    <3>2. proc[proc[p].origin].parent \in Procs \union {NoProc}
      <4>1. proc[p].origin \in Procs  BY <1>3, <2>2 DEF IInv, OneOrigin
      <4> QED  BY <1>2, <4>1, SlotFields
    <3>3. 0 \in 0 .. MaxTid  BY Bounds
    <3>4. proc'[p] \in Slot  BY <2>1, <3>1, <3>2, <3>3 DEF Slot, Ats
    <3> QED  BY <2>1, <3>1, <3>4 DEF Slot
  <2>3. CASE proc[p].tid = 0
    <3>1. proc'[p] = [proc[p] EXCEPT !.at = at]  BY <1>1, <2>1, <2>3
    <3>2. proc'[p] \in Slot  BY <2>1, <3>1 DEF Slot, Ats
    <3> QED  BY <2>1, <2>3, <3>1, <3>2 DEF Slot
  <2> QED  BY <2>2, <2>3
<1>8. \A q \in Procs : proc'[q] \in Slot
  <2> SUFFICES ASSUME NEW q \in Procs PROVE proc'[q] \in Slot  OBVIOUS
  <2>1. CASE q = p  BY <1>7, <2>1
  <2>2. CASE q # p /\ proc[q].pid = proc[p].pid  BY <1>6, <2>2, BlankType
  <2>3. CASE proc[q].pid # proc[p].pid  BY <1>2, <1>5, <2>3
  <2> QED  BY <2>1, <2>2, <2>3
<1>9. proc' \in [Procs -> Slot]  BY <1>1, <1>8
<1> QED  BY <1>5, <1>6, <1>7, <1>9

LEMMA RemoveAllKeeps ==
    ASSUME IInv, OneCpu, NEW p \in Procs, On(p), proc[p].state = "RUNNING",
           proc[p].at = "user",
           NEW at \in {"exec", "exit"}, RemoveAll(p, at),
           UNCHANGED <<cpu, dirs, mem, nextpid, nexttid, panic>>
    PROVE  IInv'
<1>1. /\ proc' \in [Procs -> Slot]
      /\ proc'[p].state = "RUNNING" /\ proc'[p].at = at /\ proc'[p].tid = 0
      /\ proc'[p].pid = proc[p].pid /\ proc'[p].pgdir = proc[p].pgdir
  BY RemoveAllSlots
<1>2. \A q \in Procs : proc[q].pid # proc[p].pid => proc'[q] = proc[q]
  BY RemoveAllSlots
<1>3. \A q \in Procs : q # p /\ proc[q].pid = proc[p].pid => proc'[q] = Blank
  BY RemoveAllSlots
<1>4. Alone(p) /\ Placed(p) /\ InUse(p) /\ TypeOK  BY Running DEF IInv
<1>5. /\ proc[p].pid \in Nat /\ proc[p].pid # 0 /\ 0 < proc[p].pid /\ proc[p].pid < nextpid
      /\ nexttid \in Nat /\ 0 < nexttid
  <2>1. proc[p].pid \in Nat  BY <1>4, SlotFields
  <2>2. 0 < proc[p].pid /\ proc[p].pid < nextpid  BY <1>4 DEF IInv, Ids
  <2>3. nexttid \in Nat /\ 0 < nexttid  BY <1>4, Bounds DEF TypeOK
  <2> QED  BY <2>1, <2>2, <2>3
<1>6. /\ Blank.state = "UNUSED" /\ Blank.pid = 0 /\ Blank.tid = 0 /\ Blank.pgdir = NoDir
      /\ Blank.at = "none" /\ Blank = [Blank EXCEPT !.killed = Blank.killed]
  BY DEF Blank
<1>7. \A q \in Procs : proc'[q].pid = proc[p].pid => q = p
  BY <1>1, <1>2, <1>3, <1>5, <1>6
<1>8. \A q \in Procs : q = p \/ proc'[q] = Blank \/ (proc[q].pid # proc[p].pid
                                                     /\ proc'[q] = proc[q])
  BY <1>2, <1>3
<1>9. \A q \in Procs : On(q)' <=> On(q)  BY DEF On
<1>10. TypeOK'  BY <1>1, <1>4 DEF TypeOK, Slot, MaxArg
<1>11. Blanks'
  <2> SUFFICES ASSUME NEW r \in Procs, proc'[r].state = "UNUSED"
               PROVE  proc'[r] = [Blank EXCEPT !.killed = proc'[r].killed]
    BY DEF Blanks, InUse
  <2>1. r # p  BY <1>1
  <2>2. CASE proc'[r] = Blank  BY <1>6, <2>2
  <2>3. CASE proc'[r] = proc[r]  BY <2>3 DEF IInv, Blanks, InUse
  <2> QED  BY <1>8, <2>1, <2>2, <2>3
<1>12. Ids'
  <2> SUFFICES ASSUME NEW r \in Procs, proc'[r].state # "UNUSED"
               PROVE  /\ 0 < proc'[r].pid /\ proc'[r].pid < nextpid'
                      /\ proc'[r].tid < nexttid'
    BY DEF Ids, InUse
  <2>1. CASE r = p  BY <1>1, <1>5, <2>1
  <2>2. CASE r # p
    <3>1. proc'[r] = proc[r]  BY <1>6, <1>8, <2>2
    <3> QED  BY <3>1 DEF IInv, Ids, InUse
  <2> QED  BY <2>1, <2>2
<1>13. Places'
  <2> SUFFICES ASSUME NEW r \in Procs PROVE Placed(r)'  BY DEF Places
  <2>1. CASE r = p
    <3>1. On(r)' /\ proc'[r].state = "RUNNING" /\ proc'[r].at \in {"exec", "exit"}
          /\ proc'[r].tid = 0
      BY <1>1, <1>9, <2>1
    <3> QED  BY <3>1 DEF Placed, Lives
  <2>2. CASE r # p /\ proc'[r] = Blank
    <3>1. ~On(r)' /\ proc'[r].state = "UNUSED" /\ proc'[r].at = "none"
      BY <1>4, <1>6, <1>9, <2>2 DEF Alone
    <3> QED  BY <3>1 DEF Placed, Lives
  <2>3. CASE r # p /\ proc'[r] = proc[r]
    <3>1. Placed(r) /\ proc'[r] = proc[r] /\ (On(r)' <=> On(r))
      BY <1>9, <2>3 DEF IInv, Places
    <3> QED  BY <3>1 DEF Placed, Lives
  <2> QED  BY <1>8, <2>1, <2>2, <2>3
<1>14. Fillings'
  <2>1. \A r \in Procs : Builds(r)' =>
            /\ proc'[r] = proc[r] /\ Builds(r) /\ Filling(r)
            /\ proc[r].np \in Procs /\ proc'[proc[r].np] = proc[proc[r].np]
    <3> SUFFICES ASSUME NEW r \in Procs, Builds(r)'
                 PROVE  /\ proc'[r] = proc[r] /\ Builds(r) /\ Filling(r)
                        /\ proc[r].np \in Procs /\ proc'[proc[r].np] = proc[proc[r].np]
      OBVIOUS
    <3>1. r # p /\ proc'[r] # Blank  BY <1>1, <1>6 DEF Builds
    <3>2. proc'[r] = proc[r] /\ proc[r].pid # proc[p].pid /\ Builds(r)
      BY <1>8, <3>1 DEF Builds
    <3>3. Filling(r)  BY DEF IInv, Fillings
    <3>4. proc[r].np \in Procs /\ proc[proc[r].np].state = "EMBRYO"
      BY <3>2, <3>3 DEF Filling
    <3>5. proc[proc[r].np].pid # proc[p].pid
      <4> SUFFICES ASSUME proc[proc[r].np].pid = proc[p].pid PROVE FALSE  OBVIOUS
      <4>1. proc[proc[r].np].tid = 0  BY <3>2, <3>3 DEF Filling, Builds
      <4>2. p = proc[r].np  BY <3>4, <4>1 DEF IInv, NewAlone
      <4> QED  BY <3>4, <4>2
    <3> QED  BY <1>2, <3>2, <3>3, <3>4, <3>5
  <2>2. \A r \in Procs : Filling(r)'
    <3> SUFFICES ASSUME NEW r \in Procs, Builds(r)' PROVE Filling(r)'  BY DEF Filling
    <3>1. /\ proc'[r] = proc[r] /\ Builds(r) /\ Filling(r)
          /\ proc'[proc[r].np] = proc[proc[r].np]
      BY <2>1
    <3> QED  BY <3>1 DEF Filling
  <2>3. \A r, s \in Procs : Builds(r) /\ Builds(s) /\ proc[r].np = proc[s].np => r = s
    BY DEF IInv, Fillings
  <2>4. \A r, s \in Procs : Builds(r)' /\ Builds(s)' /\ proc'[r].np = proc'[s].np => r = s
    BY <2>1, <2>3
  <2> QED  BY <2>2, <2>4 DEF Fillings
<1>15. NewAlone'
  <2> SUFFICES ASSUME NEW r \in Procs, NEW s \in Procs, proc'[r].state = "EMBRYO",
                      proc'[r].tid = 0, proc'[s].pid = proc'[r].pid
               PROVE  s = r
    BY DEF NewAlone
  <2>1. r # p /\ proc'[r] = proc[r] /\ proc[r].pid # proc[p].pid  BY <1>1, <1>6, <1>8
  <2>2. proc[r].pid # 0
    <3>1. InUse(r)  BY <2>1 DEF InUse
    <3>2. 0 < proc[r].pid /\ proc[r].pid \in Nat  BY <1>4, <3>1, SlotFields DEF IInv, Ids
    <3> QED  BY <3>2
  <2>3. s # p /\ proc'[s] # Blank  BY <1>1, <1>6, <2>1, <2>2
  <2>4. proc'[s] = proc[s]  BY <1>8, <2>3
  <2> QED  BY <2>1, <2>4 DEF IInv, NewAlone
<1>16. DirOwn'
  <2> SUFFICES ASSUME NEW r \in Procs, NEW s \in Procs, proc'[r].pgdir # NoDir,
                      proc'[s].pgdir = proc'[r].pgdir
               PROVE  proc'[s].pid = proc'[r].pid
    BY DEF DirOwn
  <2>1. \A q \in Procs : q = p \/ proc'[q] = Blank \/ proc'[q] = proc[q]  BY <1>8
  <2>2. proc'[r].pgdir = proc[r].pgdir /\ proc'[r].pid = proc[r].pid
    BY <1>1, <1>6, <2>1
  <2>3. proc'[s].pgdir = proc[s].pgdir /\ proc'[s].pid = proc[s].pid
    BY <1>1, <1>6, <2>1
  <2> QED  BY <2>2, <2>3 DEF IInv, DirOwn
<1>17. TidsOnce'
  <2> SUFFICES ASSUME NEW r \in Procs, NEW s \in Procs, proc'[r].tid # 0,
                      proc'[s].tid = proc'[r].tid
               PROVE  s = r
    BY DEF TidsOnce
  <2>1. \A q \in Procs : q = p \/ proc'[q] = Blank \/ proc'[q] = proc[q]  BY <1>8
  <2>2. proc'[r] = proc[r] /\ proc'[s] = proc[s]
    BY <1>1, <1>6, <2>1
  <2> QED  BY <2>2 DEF IInv, TidsOnce
<1>18. JoinArgs'
  <2> SUFFICES ASSUME NEW r \in Procs, proc'[r].at = "join"
               PROVE  proc'[r].arg # 0 /\ proc'[r].arg <= MaxTid
    BY DEF JoinArgs
  <2>1. r # p /\ proc'[r] # Blank  BY <1>1, <1>6
  <2>2. proc'[r] = proc[r]  BY <1>8, <2>1
  <2> QED  BY <2>2 DEF IInv, JoinArgs
<1>19. OneOrigin'
  <2>1. ASSUME NEW r \in Procs, proc'[r].state # "UNUSED", proc'[r].tid # 0
        PROVE  /\ proc'[r].origin \in Procs /\ proc'[proc'[r].origin].state # "UNUSED"
               /\ proc'[proc'[r].origin].tid = 0
               /\ proc'[proc'[r].origin].pid = proc'[r].pid
               /\ proc'[proc'[r].origin].pgdir = proc'[r].pgdir
    <3>1. r # p /\ proc'[r] # Blank  BY <1>1, <1>6, <2>1
    <3>2. proc'[r] = proc[r] /\ proc[r].pid # proc[p].pid  BY <1>8, <3>1
    <3>3. PICK o \in Procs : o = proc[r].origin /\ InUse(o) /\ proc[o].tid = 0
              /\ proc[o].pid = proc[r].pid /\ proc[o].pgdir = proc[r].pgdir
      BY <2>1, <3>2 DEF IInv, OneOrigin, InUse
    <3>4. proc'[o] = proc[o]  BY <1>2, <3>2, <3>3
    <3> QED  BY <3>2, <3>3, <3>4 DEF InUse
  <2>2. ASSUME NEW r \in Procs, NEW s \in Procs, proc'[r].state # "UNUSED",
               proc'[s].state # "UNUSED", proc'[r].pid = proc'[s].pid,
               proc'[r].tid = proc'[s].tid
        PROVE  r = s
    <3>1. CASE r = p \/ s = p  BY <1>1, <1>7, <2>2, <3>1
    <3>2. CASE r # p /\ s # p
      <4>1. proc'[r] = proc[r] /\ proc'[s] = proc[s]  BY <1>6, <1>8, <2>2, <3>2
      <4> QED  BY <2>2, <4>1 DEF IInv, OneOrigin, InUse
    <3> QED  BY <3>1, <3>2
  <2> QED  BY <2>1, <2>2 DEF OneOrigin, InUse
<1>20. LastThread'
  <2> SUFFICES ASSUME NEW r \in Procs,
                      \/ proc'[r].at \in {"exec", "exit"}
                      \/ proc'[r].state = "ZOMBIE" /\ proc'[r].tid = 0,
                      NEW s \in Procs, proc'[s].pid = proc'[r].pid
               PROVE  s = r
    BY DEF LastThread, Family
  <2>1. CASE r = p  BY <1>1, <1>7, <2>1
  <2>2. CASE r # p
    <3>1. proc'[r] # Blank  BY <1>6
    <3>2. proc'[r] = proc[r] /\ proc[r].pid # proc[p].pid  BY <1>8, <2>2, <3>1
    <3>3. \A t \in Family(r) : t = r  BY <3>2 DEF IInv, LastThread
    <3>4. proc[r].pid # 0
      <4>1. InUse(r)  BY <3>2, InUseOf DEF InUse
      <4>2. 0 < proc[r].pid /\ proc[r].pid \in Nat  BY <1>4, <4>1, SlotFields DEF IInv, Ids
      <4> QED  BY <4>2
    <3>5. s # p /\ proc'[s] # Blank  BY <1>1, <1>6, <3>2, <3>4
    <3>6. proc[s].pid = proc[r].pid  BY <1>8, <3>2, <3>5
    <3> QED  BY <3>3, <3>6 DEF Family
  <2> QED  BY <2>1, <2>2
<1>21. DirsExact'
  <2>1. \A d : d \in dirs <=> d # NoDir /\ \E r \in Procs : proc[r].pgdir = d
    BY DEF IInv, DirsExact
  <2>2. ASSUME NEW d, d # NoDir
        PROVE  (\E r \in Procs : proc[r].pgdir = d) <=> \E r \in Procs : proc'[r].pgdir = d
    <3>1. ASSUME NEW r \in Procs, proc[r].pgdir = d
          PROVE  \E s \in Procs : proc'[s].pgdir = d
      <4>1. CASE proc[r].pid = proc[p].pid
        <5>1. proc'[p].pgdir = d  BY <1>1, <1>4, <3>1, <4>1, FamilyDir
        <5> QED  BY <5>1
      <4>2. CASE proc[r].pid # proc[p].pid
        <5>1. proc'[r].pgdir = d  BY <1>2, <3>1, <4>2
        <5> QED  BY <5>1
      <4> QED  BY <4>1, <4>2
    <3>2. ASSUME NEW r \in Procs, proc'[r].pgdir = d
          PROVE  \E s \in Procs : proc[s].pgdir = d
      <4>1. proc'[r] # Blank  BY <1>6, <2>2, <3>2
      <4>2. proc[r].pgdir = d  BY <1>1, <1>8, <3>2, <4>1
      <4> QED  BY <4>2
    <3> QED  BY <3>1, <3>2
  <2>3. NoDir \notin dirs /\ dirs' = dirs  BY <2>1
  <2>4. \A d : d \in dirs' <=> d # NoDir /\ \E r \in Procs : proc'[r].pgdir = d
    BY <2>1, <2>2, <2>3
  <2> QED  BY <2>4 DEF DirsExact
<1> QED
  BY <1>10, <1>11, <1>12, <1>13, <1>14, <1>15, <1>16, <1>17, <1>18, <1>19, <1>20, <1>21
     DEF IInv

LEMMA ExecKeeps ==
    ASSUME IInv, OneCpu, NEW p \in Procs, Exec(p)
    PROVE  IInv'
  BY RemoveAllKeeps DEF Exec, Enters, Runs, memory

LEMMA ExitKeeps ==
    ASSUME IInv, OneCpu, NEW p \in Procs, Exit(p)
    PROVE  IInv'
  BY RemoveAllKeeps DEF Exit, Enters, Runs, memory

-----------------------------------------------------------------------------
(* The invariant holds at the start and is kept.                            *)

LEMMA InitHolds ==
    ASSUME Init
    PROVE  IInv
<1> DEFINE first == [Blank EXCEPT !.state = "RUNNABLE", !.pid = 1, !.pgdir = 1,
                                  !.sz = ImageSz, !.at = "user"]
<1>1. /\ proc = [p \in Procs |-> IF p = InitProc THEN first ELSE Blank]
      /\ cpu = [c \in CPUs |-> NoProc] /\ dirs = {1}
      /\ mem = [d \in Dirs |-> IF d = 1 THEN Pages(0, ImageSz) ELSE {}]
      /\ nextpid = 2 /\ nexttid = 1 /\ panic = "none"
  BY DEF Init
<1>2. /\ first \in Slot /\ first.state = "RUNNABLE" /\ first.pid = 1 /\ first.pgdir = 1
      /\ first.at = "user" /\ first.tid = 0
  <2>1. ImageSz \in 0 .. MaxSz /\ 1 \in 0 .. MaxPid /\ 1 \in Dirs /\ Blank \in Slot
    BY Bounds, BlankType
  <2>2. first \in Slot  BY <2>1 DEF Slot, States, Ats
  <2> QED  BY <2>1, <2>2 DEF Blank, Slot
<1> HIDE DEF first
<1>3. /\ Blank.state = "UNUSED" /\ Blank.pid = 0 /\ Blank.tid = 0 /\ Blank.pgdir = NoDir
      /\ Blank.at = "none" /\ Blank = [Blank EXCEPT !.killed = Blank.killed] /\ Blank \in Slot
  BY BlankType DEF Blank
<1>4. \A p \in Procs : proc[p] = IF p = InitProc THEN first ELSE Blank  BY <1>1
<1>5. InitProc \in Procs /\ 1 \in Dirs /\ NoDir # 1 /\ NoProc \notin Procs
  BY Bounds
<1>6. \A p \in Procs : ~On(p)  BY <1>1, <1>5 DEF On
<1>7. TypeOK
  <2>1. proc \in [Procs -> Slot]  BY <1>1, <1>2, <1>3
  <2>2. mem \in [Dirs -> SUBSET VA]  BY <1>1, PagesType
  <2>3. nextpid \in 1 .. MaxPid + 1 /\ nexttid \in 1 .. MaxTid + 1  BY <1>1, Bounds
  <2>4. cpu \in [CPUs -> Procs \union {NoProc}] /\ dirs \in SUBSET Dirs /\ panic \in Panics
    BY <1>1, <1>5 DEF Panics
  <2> QED  BY <2>1, <2>2, <2>3, <2>4, Types
<1>8. Blanks  BY <1>2, <1>3, <1>4 DEF Blanks, InUse
<1>9. Ids
  <2> SUFFICES ASSUME NEW p \in Procs, InUse(p)
               PROVE  0 < proc[p].pid /\ proc[p].pid < nextpid /\ proc[p].tid < nexttid
    BY DEF Ids
  <2>1. proc[p] = first  BY <1>3, <1>4 DEF InUse
  <2>2. proc[p].pid = 1 /\ proc[p].tid = 0 /\ nextpid = 2 /\ nexttid = 1  BY <1>1, <1>2, <2>1
  <2> QED  BY <2>2
<1>10. Places
  <2> SUFFICES ASSUME NEW p \in Procs PROVE Placed(p)  BY DEF Places
  <2>1. ~On(p)  BY <1>6
  <2>2. \/ proc[p].state = "RUNNABLE" /\ proc[p].at = "user"
        \/ proc[p].state = "UNUSED" /\ proc[p].at = "none"
    BY <1>2, <1>3, <1>4
  <2> QED  BY <2>1, <2>2 DEF Placed, Lives
<1>11. \A p \in Procs : proc[p].at \in {"none", "user"} /\ proc[p].tid = 0
                        /\ proc[p].state \in {"UNUSED", "RUNNABLE"}
  BY <1>2, <1>3, <1>4
<1>12. Fillings /\ NewAlone /\ TidsOnce /\ JoinArgs /\ LastThread
  BY <1>11 DEF Fillings, Filling, Builds, NewAlone, TidsOnce, JoinArgs, LastThread
<1>13. \A p \in Procs : p # InitProc => proc[p].pgdir = NoDir /\ ~InUse(p)
  BY <1>3, <1>4 DEF InUse
<1>14. DirOwn  BY <1>13 DEF DirOwn
<1>15. OneOrigin  BY <1>11, <1>13 DEF OneOrigin
<1>16. DirsExact
  <2>1. proc[InitProc].pgdir = 1  BY <1>2, <1>4, <1>5
  <2> QED  BY <1>1, <1>5, <1>13, <2>1 DEF DirsExact
<1> QED  BY <1>7, <1>8, <1>9, <1>10, <1>12, <1>14, <1>15, <1>16 DEF IInv

LEMMA StepHolds ==
    ASSUME IInv, OneCpu, ~AnyJoin, [Next]_vars
    PROVE  IInv'
<1>1. CASE UNCHANGED vars  BY <1>1, StutterKeeps
<1>2. CASE Interrupt  BY <1>2, InterruptKeeps
<1>3. ASSUME NEW p \in Procs,
             \/ \E c \in CPUs : Schedule(c, p)
             \/ Yield(p) \/ Sleep(p) \/ ThreadCreate(p) \/ CreateDone(p)
             \/ ThreadExitMark(p) \/ ThreadExit(p)
             \/ \E thread \in 0 .. MaxTid : ThreadJoin(p, thread)
             \/ Fork(p) \/ ForkCopy(p) \/ ForkDone(p) \/ Sbrk(p) \/ Grow(p) \/ Shrink(p)
             \/ Exec(p) \/ ExecCommit(p) \/ ExecBad(p) \/ Exit(p) \/ ExitDone(p) \/ Wait(p)
             \/ \E n \in TargetPids : Kill(p, n)
      PROVE  IInv'
  BY <1>3, ScheduleKeeps, YieldKeeps, SleepKeeps, ThreadCreateKeeps, CreateDoneKeeps,
     ThreadExitMarkKeeps, ThreadExitKeeps, ThreadJoinKeeps, ForkKeeps, ForkCopyKeeps,
     ForkDoneKeeps, SbrkKeeps, GrowKeeps, ShrinkKeeps, ExecKeeps, ExecCommitKeeps,
     ExecBadKeeps, ExitKeeps, ExitDoneKeeps, WaitKeeps, KillKeeps
<1> QED  BY <1>1, <1>2, <1>3 DEF Next

(* On one processor, the invariant holds whatever the programs do, if they  *)
(* join threads of their own.                                               *)
THEOREM Invariance ==
    ASSUME OneCpu, ~AnyJoin
    PROVE  Spec => []IInv
<1>1. Init => IInv  BY InitHolds
<1>2. IInv /\ [Next]_vars => IInv'  BY StepHolds
<1> QED  BY <1>1, <1>2, PTL DEF Spec

(* Every variable has its type: no size passes KERNBASE (the limit check of *)
(* allocuvm), and no state, tid or argument is out of its range.            *)
THEOREM TypeCorrect ==
    ASSUME OneCpu, ~AnyJoin
    PROVE  Spec => []TypeOK
<1>1. IInv => TypeOK  BY DEF IInv
<1> QED  BY <1>1, Invariance, PTL

(* The threads of a process have one origin, the slot with tid 0, and its   *)
(* page directory, whatever thread_create, fork, exec, exit, join and wait  *)
(* do to the table (lwp.c's alloclwp and swap_origin).                      *)
THEOREM OriginCorrect ==
    ASSUME OneCpu, ~AnyJoin
    PROVE  Spec => []OneOrigin
<1>1. IInv => OneOrigin  BY DEF IInv
<1> QED  BY <1>1, Invariance, PTL

(* A process that exec or exit has begun to replace or end has one thread   *)
(* left, and so has one that waits to be reaped (thread_removeall).         *)
THEOREM LastCorrect ==
    ASSUME OneCpu, ~AnyJoin
    PROVE  Spec => []LastThread
<1>1. IInv => LastThread  BY DEF IInv
<1> QED  BY <1>1, Invariance, PTL

(* The page directories in existence are exactly those of the slots in use: *)
(* wait and exec give one up once, and with its last thread (freevm).       *)
THEOREM DirsCorrect ==
    ASSUME OneCpu, ~AnyJoin
    PROVE  Spec => []DirsExact
<1>1. IInv => DirsExact  BY DEF IInv
<1> QED  BY <1>1, Invariance, PTL

-----------------------------------------------------------------------------
(* Joins and kills.                                                         *)

Quiet(a) == a \in {"none", "user", "exit"}

(* A step that leaves pids, tids and the parents of threads as they are.    *)
Calm(q) ==
    /\ proc'[q].pid = proc[q].pid /\ proc'[q].tid = proc[q].tid
    /\ proc[q].tid # 0 => proc'[q].parent = proc[q].parent
    /\ proc'[q].killed = proc[q].killed \/ proc'[q].state = "UNUSED"
    /\ proc'[q].state = "ZOMBIE" =>
         proc'[q].at = "dying" \/ (proc[q].state = "ZOMBIE" /\ proc'[q].at = proc[q].at)
    /\ proc'[q].at = "join" =>
         \/ proc[q].at = "join" /\ proc'[q].arg = proc[q].arg
         \/ q # InitProc /\ \E r \in Procs : proc[r].tid = proc'[q].arg /\ proc[r].parent = q
    /\ ~Quiet(proc'[q].at) /\ proc[q].killed => ~Quiet(proc[q].at)
    /\ proc'[q].state = "SLEEPING" /\ proc'[q].killed => proc'[q].at = "join"
    /\ proc'[q].state = "SLEEPING" /\ proc'[q].at = "join" =>
         \/ proc[q].state = "SLEEPING" /\ proc[q].at = "join" /\ proc'[q].arg = proc[q].arg
         \/ \A r \in Procs : proc[r].tid = proc'[q].arg => proc[r].state # "ZOMBIE"

LEMMA PidInUse ==
    ASSUME IInv, NEW p \in Procs
    PROVE  proc[p].pid # 0 <=> InUse(p)
<1>1. InUse(p) => proc[p].pid # 0
  <2> SUFFICES ASSUME InUse(p) PROVE proc[p].pid # 0  OBVIOUS
  <2>1. 0 < proc[p].pid /\ proc[p].pid \in Nat  BY SlotFields DEF IInv, Ids
  <2> QED  BY <2>1
<1>2. proc[p].pid # 0 => InUse(p)  BY InUseOf
<1> QED  BY <1>1, <1>2

LEMMA PidOf ==
    ASSUME IInv, NEW p \in Procs, proc[p].at # "none"
    PROVE  proc[p].pid # 0
  BY PidInUse, InUseOf

LEMMA CalmKeeps ==
    ASSUME IInv, KInv, IInv', \A q \in Procs : Calm(q)
    PROVE  KInv'
<1>1. Kinship'
  <2> SUFFICES ASSUME NEW q \in Procs, proc'[q].tid # 0, proc'[q].parent # InitProc
               PROVE  /\ proc'[q].parent \in Procs
                      /\ proc'[proc'[q].parent].pid = proc'[q].pid
                      /\ proc'[proc'[q].parent].tid < proc'[q].tid
                      /\ proc'[proc'[q].parent].state = "ZOMBIE" =>
                           proc'[proc'[q].parent].at = "dying"
    BY DEF Kinship
  <2>1. proc'[q].tid = proc[q].tid /\ proc'[q].parent = proc[q].parent
        /\ proc'[q].pid = proc[q].pid
    BY DEF Calm
  <2>2. PICK u \in Procs : /\ u = proc[q].parent /\ proc[u].pid = proc[q].pid
                           /\ proc[u].tid < proc[q].tid
                           /\ proc[u].state = "ZOMBIE" => proc[u].at = "dying"
    BY <2>1 DEF KInv, Kinship
  <2>3. proc'[u].pid = proc[u].pid /\ proc'[u].tid = proc[u].tid
        /\ (proc'[u].state = "ZOMBIE" =>
              proc'[u].at = "dying" \/ (proc[u].state = "ZOMBIE" /\ proc'[u].at = proc[u].at))
    BY DEF Calm
  <2> QED  BY <2>1, <2>2, <2>3
<1>2. JoinDue'
  <2> SUFFICES ASSUME NEW p \in Procs, proc'[p].at = "join"
               PROVE  p # InitProc /\ \E q \in Procs : proc'[q].tid = proc'[p].arg
                                                       /\ proc'[q].parent = p
    BY DEF JoinDue, Awaits
  <2>1. p # InitProc /\ \E q \in Procs : proc[q].tid = proc'[p].arg /\ proc[q].parent = p
    BY DEF Calm, KInv, JoinDue, Awaits
  <2>2. proc'[p].arg # 0  BY DEF IInv, JoinArgs
  <2>3. PICK q \in Procs : proc[q].tid = proc'[p].arg /\ proc[q].parent = p  BY <2>1
  <2>4. proc'[q].tid = proc[q].tid /\ proc'[q].parent = proc[q].parent
    BY <2>2, <2>3 DEF Calm
  <2> QED  BY <2>1, <2>3, <2>4
<1>3. SleepDue'
  <2> SUFFICES ASSUME NEW p \in Procs, NEW q \in Procs, proc'[p].state = "SLEEPING",
                      proc'[p].at = "join", proc'[q].tid = proc'[p].arg, proc'[q].parent = p,
                      proc'[q].state = "ZOMBIE"
               PROVE  proc'[q].at = "dying"
    BY DEF SleepDue, Awaits
  <2>1. proc'[p].arg # 0  BY DEF IInv, JoinArgs
  <2>2. proc[q].tid = proc'[p].arg /\ proc[q].parent = p  BY <2>1 DEF Calm
  <2>3. CASE proc[q].state = "ZOMBIE" /\ proc'[q].at = proc[q].at
    <3>1. proc[p].state = "SLEEPING" /\ proc[p].at = "join" /\ proc'[p].arg = proc[p].arg
      BY <2>2, <2>3 DEF Calm
    <3> QED  BY <2>2, <2>3, <3>1 DEF KInv, SleepDue, Awaits
  <2> QED  BY <2>3 DEF Calm
<1>4. KilledAlike'
  <2> SUFFICES ASSUME NEW p \in Procs, NEW q \in Procs, proc'[p].killed,
                      ~Quiet(proc'[p].at), proc'[q].pid = proc'[p].pid
               PROVE  proc'[q].killed
    BY DEF KilledAlike, Quiet
  <2>1. InUse(p)'
    <3>1. proc'[p].at # "none"  BY DEF Quiet
    <3> SUFFICES ASSUME ~InUse(p)' PROVE FALSE  OBVIOUS
    <3>2. proc'[p] = [Blank EXCEPT !.killed = proc'[p].killed]  BY DEF IInv, Blanks
    <3> QED  BY <3>1, <3>2 DEF Blank
  <2>2. proc[p].killed /\ ~Quiet(proc[p].at)  BY <2>1 DEF Calm, InUse
  <2>3. proc[q].pid = proc[p].pid  BY DEF Calm
  <2>4. proc[q].killed  BY <2>2, <2>3 DEF KInv, KilledAlike, Quiet
  <2>5. proc'[q].state # "UNUSED"
    <3> SUFFICES ASSUME proc'[q].state = "UNUSED" PROVE FALSE  OBVIOUS
    <3>1. proc'[q] = [Blank EXCEPT !.killed = proc'[q].killed]
      BY DEF IInv, Blanks, InUse
    <3>2. proc[q].pid = 0  BY <3>1 DEF Blank, Calm
    <3>3. InUse(p)  BY <2>2, InUseOf DEF Quiet
    <3> QED  BY <2>3, <3>2, <3>3, PidInUse
  <2> QED  BY <2>4, <2>5 DEF Calm
<1>5. KilledJoins'  BY DEF KilledJoins, Calm
<1> QED  BY <1>1, <1>2, <1>3, <1>4, <1>5 DEF KInv

(* A slot that stays as it is, or is woken, or gets another size, is calm.  *)
LEMMA StillCalm ==
    ASSUME IInv, KInv, NEW q \in Procs, Mild(q), proc'[q].parent = proc[q].parent,
           proc'[q].killed = proc[q].killed \/ proc'[q].state = "UNUSED"
    PROVE  Calm(q)
<1>1. proc'[q].state \in {"SLEEPING", "ZOMBIE"} => proc'[q].state = proc[q].state
  BY DEF Mild
<1>2. proc[q].state = "SLEEPING" /\ proc[q].killed => proc[q].at = "join"
  BY DEF KInv, KilledJoins
<1> QED  BY <1>1, <1>2 DEF Mild, CoreSame, Calm

LEMMA FieldsCalm ==
    ASSUME KInv, NEW q \in Procs,
           proc'[q].pid = proc[q].pid, proc'[q].tid = proc[q].tid,
           proc'[q].parent = proc[q].parent, proc'[q].killed = proc[q].killed,
           proc'[q].state = proc[q].state, proc'[q].at = proc[q].at, proc'[q].arg = proc[q].arg
    PROVE  Calm(q)
  BY DEF Calm, KInv, KilledJoins

(* A slot that is awake after the step.                                     *)
LEMMA AwakeCalm ==
    ASSUME NEW q \in Procs,
           proc'[q].pid = proc[q].pid, proc'[q].tid = proc[q].tid,
           proc[q].tid # 0 => proc'[q].parent = proc[q].parent,
           proc'[q].killed = proc[q].killed, proc'[q].state \in {"RUNNING", "RUNNABLE"},
           proc'[q].at = "join" => proc[q].at = "join" /\ proc'[q].arg = proc[q].arg,
           Quiet(proc'[q].at) \/ ~proc[q].killed \/ ~Quiet(proc[q].at)
    PROVE  Calm(q)
  BY DEF Calm

LEMMA OneCalm ==
    ASSUME IInv, KInv, IInv', NEW p \in Procs, Calm(p),
           \A q \in Procs \ {p} : proc'[q] = proc[q]
    PROVE  KInv'
<1>1. \A q \in Procs \ {p} : Calm(q)  BY FieldsCalm
<1> QED  BY <1>1, CalmKeeps

LEMMA StillJoins ==
    ASSUME KInv, UNCHANGED proc
    PROVE  KInv'
  BY DEF KInv, Kinship, JoinDue, SleepDue, Awaits, KilledAlike, KilledJoins

LEMMA ScheduleJoins ==
    ASSUME IInv, KInv, IInv', NEW p \in Procs, NEW c \in CPUs, Schedule(c, p)
    PROVE  KInv'
<1>1. CASE UNCHANGED proc  BY <1>1, StillJoins
<1>2. CASE proc' = [proc EXCEPT ![p].state = "RUNNING"]
  <2>1. proc \in [Procs -> Slot]  BY Types DEF IInv
  <2>2. proc'[p] = [proc[p] EXCEPT !.state = "RUNNING"] /\ proc[p] \in Slot
        /\ \A q \in Procs \ {p} : proc'[q] = proc[q]
    BY <1>2, <2>1
  <2>3. Calm(p)  BY <2>2, AwakeCalm DEF Slot
  <2> QED  BY <2>2, <2>3, OneCalm
<1> QED  BY <1>1, <1>2 DEF Schedule, Panic

LEMMA YieldJoins ==
    ASSUME IInv, KInv, IInv', NEW p \in Procs, Yield(p)
    PROVE  KInv'
<1>1. proc \in [Procs -> Slot]  BY Types DEF IInv
<1>2. proc'[p] = [proc[p] EXCEPT !.state = "RUNNABLE"] /\ proc[p] \in Slot
      /\ \A q \in Procs \ {p} : proc'[q] = proc[q]
  BY <1>1 DEF Yield
<1>3. Calm(p)  BY <1>2, AwakeCalm DEF Slot
<1> QED  BY <1>2, <1>3, OneCalm

LEMMA SleepJoins ==
    ASSUME IInv, KInv, IInv', NEW p \in Procs, Sleep(p)
    PROVE  KInv'
<1>1. proc \in [Procs -> Slot]  BY Types DEF IInv
<1>2. proc[p].at = "user" /\ ~proc[p].killed  BY DEF Sleep, Enters, Runs
<1>3. proc'[p] = [proc[p] EXCEPT !.state = "SLEEPING", !.sleeps = "io"] /\ proc[p] \in Slot
      /\ \A q \in Procs \ {p} : proc'[q] = proc[q]
  BY <1>1 DEF Sleep
<1>4. Calm(p)  BY <1>2, <1>3 DEF Slot, Calm, Quiet
<1> QED  BY <1>3, <1>4, OneCalm

LEMMA InterruptJoins ==
    ASSUME IInv, KInv, IInv', Interrupt
    PROVE  KInv'
<1>1. proc \in [Procs -> Slot]  BY Types DEF IInv
<1>2. ASSUME NEW q \in Procs PROVE Calm(q)
  <2>1. CASE proc'[q] = proc[q]  BY <2>1, FieldsCalm
  <2>2. CASE proc'[q] = [proc[q] EXCEPT !.state = "RUNNABLE", !.sleeps = "no"]
    <3>1. proc[q] \in Slot  BY <1>1
    <3> QED  BY <2>2, <3>1, AwakeCalm DEF Slot
  <2> QED  BY <2>1, <2>2 DEF Interrupt
<1> QED  BY <1>2, CalmKeeps

LEMMA ThreadExitMarkJoins ==
    ASSUME IInv, KInv, IInv', NEW p \in Procs, ThreadExitMark(p)
    PROVE  KInv'
<1>1. CASE UNCHANGED proc  BY <1>1, StillJoins
<1>2. CASE proc' = [proc EXCEPT ![p].state = "ZOMBIE", ![p].at = "dying"]
  <2>1. proc \in [Procs -> Slot]  BY Types DEF IInv
  <2>2. ~proc[p].killed  BY DEF ThreadExitMark, Enters
  <2>3. proc'[p] = [proc[p] EXCEPT !.state = "ZOMBIE", !.at = "dying"] /\ proc[p] \in Slot
        /\ \A q \in Procs \ {p} : proc'[q] = proc[q]
    BY <1>2, <2>1
  <2>4. Calm(p)  BY <2>2, <2>3 DEF Slot, Calm
  <2> QED  BY <2>3, <2>4, OneCalm
<1> QED  BY <1>1, <1>2 DEF ThreadExitMark, Panic

LEMMA CreateDoneJoins ==
    ASSUME IInv, KInv, IInv', NEW p \in Procs, CreateDone(p)
    PROVE  KInv'
<1>1. proc \in [Procs -> Slot]  BY Types DEF IInv
<1>2. proc[p].state = "RUNNING" /\ proc[p].at = "create"  BY DEF CreateDone, Runs
<1>3. PICK l \in Procs : l = proc[p].np /\ l # p
  <2>1. Filling(p)  BY DEF IInv, Fillings
  <2> QED  BY <1>2, <2>1 DEF Filling, Builds
<1>4. proc' = [proc EXCEPT ![l].state = "RUNNABLE", ![l].at = "user",
                           ![p].at = "user", ![p].np = NoProc]
  BY <1>3 DEF CreateDone
<1>5. /\ proc'[l] = [proc[l] EXCEPT !.state = "RUNNABLE", !.at = "user"]
      /\ proc'[p] = [proc[p] EXCEPT !.at = "user", !.np = NoProc]
      /\ \A q \in Procs \ {p, l} : proc'[q] = proc[q]
      /\ proc[p] \in Slot /\ proc[l] \in Slot
  BY <1>1, <1>3, <1>4
<1>6. Calm(l)
  <2>1. proc'[l] = [proc[l] EXCEPT !.state = "RUNNABLE", !.at = "user"] /\ proc[l] \in Slot
    BY <1>5
  <2> QED  BY <2>1, AwakeCalm DEF Slot, Quiet
<1>7. Calm(p)
  <2>1. proc'[p] = [proc[p] EXCEPT !.at = "user", !.np = NoProc] /\ proc[p] \in Slot
    BY <1>5
  <2> QED  BY <1>2, <2>1, AwakeCalm DEF Slot, Quiet
<1>8. \A q \in Procs \ {p, l} : Calm(q)  BY <1>5, FieldsCalm
<1> QED  BY <1>6, <1>7, <1>8, CalmKeeps

LEMMA ForkDoneJoins ==
    ASSUME IInv, KInv, IInv', NEW p \in Procs, ForkDone(p)
    PROVE  KInv'
<1>1. proc \in [Procs -> Slot]  BY Types DEF IInv
<1>2. proc[p].state = "RUNNING" /\ proc[p].at = "copied"  BY DEF ForkDone, Runs
<1>3. PICK l \in Procs : l = proc[p].np /\ l # p /\ proc[l].tid = 0
  <2>1. Filling(p)  BY DEF IInv, Fillings
  <2> QED  BY <1>2, <2>1 DEF Filling, Builds
<1>4. proc' = [proc EXCEPT ![l] = [proc[l] EXCEPT !.state = "RUNNABLE", !.tid = 0, !.parent = p,
                                                  !.sz = proc[p].sz, !.at = "user"],
                           ![p].at = "user", ![p].np = NoProc]
  BY <1>3 DEF ForkDone
<1>5. /\ proc'[l] = [proc[l] EXCEPT !.state = "RUNNABLE", !.tid = 0, !.parent = p,
                                    !.sz = proc[p].sz, !.at = "user"]
      /\ proc'[p] = [proc[p] EXCEPT !.at = "user", !.np = NoProc]
      /\ \A q \in Procs \ {p, l} : proc'[q] = proc[q]
      /\ proc[p] \in Slot /\ proc[l] \in Slot
  BY <1>1, <1>3, <1>4
<1>6. Calm(l)
  <2>1. proc'[l] = [proc[l] EXCEPT !.state = "RUNNABLE", !.tid = 0, !.parent = p,
                                   !.sz = proc[p].sz, !.at = "user"]
        /\ proc[l] \in Slot
    BY <1>5
  <2>2. /\ proc'[l].pid = proc[l].pid /\ proc'[l].tid = 0 /\ proc'[l].killed = proc[l].killed
        /\ proc'[l].state = "RUNNABLE" /\ proc'[l].at = "user"
    BY <2>1 DEF Slot
  <2> QED  BY <1>3, <2>2, AwakeCalm DEF Quiet
<1>7. Calm(p)
  <2>1. proc'[p] = [proc[p] EXCEPT !.at = "user", !.np = NoProc] /\ proc[p] \in Slot
    BY <1>5
  <2> QED  BY <1>2, <2>1, AwakeCalm DEF Slot, Quiet
<1>8. \A q \in Procs \ {p, l} : Calm(q)  BY <1>5, FieldsCalm
<1> QED  BY <1>6, <1>7, <1>8, CalmKeeps

LEMMA SbrkJoins ==
    ASSUME IInv, KInv, IInv', NEW p \in Procs, Sbrk(p)
    PROVE  KInv'
<1>1. proc \in [Procs -> Slot]  BY Types DEF IInv
<1>2. proc[p].state = "RUNNING" /\ ~proc[p].killed  BY DEF Sbrk, Enters, Runs
<1>3. proc'[p] = [proc[p] EXCEPT !.at = "sbrk", !.arg = proc[p].sz] /\ proc[p] \in Slot
      /\ \A q \in Procs \ {p} : proc'[q] = proc[q]
  BY <1>1 DEF Sbrk
<1>4. Calm(p)  BY <1>2, <1>3, AwakeCalm DEF Slot
<1> QED  BY <1>3, <1>4, OneCalm

LEMMA SbrkFailsJoins ==
    ASSUME IInv, KInv, IInv', NEW p \in Procs, proc[p].state = "RUNNING", SbrkFails(p)
    PROVE  KInv'
<1>1. proc \in [Procs -> Slot]  BY Types DEF IInv
<1>2. proc'[p] = [proc[p] EXCEPT !.at = "user", !.arg = 0] /\ proc[p] \in Slot
      /\ \A q \in Procs \ {p} : proc'[q] = proc[q]
  BY <1>1 DEF SbrkFails
<1>3. Calm(p)  BY <1>2, AwakeCalm DEF Slot, Quiet
<1> QED  BY <1>2, <1>3, OneCalm

LEMMA ResizedJoins ==
    ASSUME IInv, KInv, IInv', NEW p \in Procs, proc[p].state = "RUNNING",
           NEW sz, proc' = Resized(p, sz)
    PROVE  KInv'
<1>1. proc \in [Procs -> Slot]  BY Types DEF IInv
<1>2. \A q \in Procs : proc'[q] =
          IF q = p THEN [proc[p] EXCEPT !.sz = sz, !.at = "user", !.arg = 0]
          ELSE IF q \in Family(p) THEN [proc[q] EXCEPT !.sz = sz] ELSE proc[q]
  BY DEF Resized
<1>3. Calm(p)
  <2>1. proc'[p] = [proc[p] EXCEPT !.sz = sz, !.at = "user", !.arg = 0] /\ proc[p] \in Slot
    BY <1>1, <1>2
  <2> QED  BY <2>1, AwakeCalm DEF Slot, Quiet
<1>4. ASSUME NEW q \in Procs \ {p} PROVE Calm(q)
  <2>1. CASE proc'[q] = proc[q]  BY <2>1, FieldsCalm
  <2>2. CASE proc'[q] = [proc[q] EXCEPT !.sz = sz]
    <3>1. proc[q] \in Slot  BY <1>1
    <3> QED  BY <2>2, <3>1, FieldsCalm DEF Slot
  <2> QED  BY <1>2, <2>1, <2>2
<1> QED  BY <1>3, <1>4, CalmKeeps

LEMMA GrowJoins ==
    ASSUME IInv, KInv, IInv', NEW p \in Procs, Grow(p)
    PROVE  KInv'
<1>1. /\ proc[p].state = "RUNNING"
      /\ SbrkFails(p) \/ (proc' = Resized(p, Size(p) + 1)) \/ UNCHANGED proc
  BY DEF Grow, Runs
<1> QED  BY <1>1, SbrkFailsJoins, ResizedJoins, StillJoins

LEMMA ShrinkJoins ==
    ASSUME IInv, KInv, IInv', NEW p \in Procs, Shrink(p)
    PROVE  KInv'
<1>1. /\ proc[p].state = "RUNNING"
      /\ SbrkFails(p) \/ (proc' = Resized(p, Size(p) - 1))
  BY DEF Shrink, Runs
<1> QED  BY <1>1, SbrkFailsJoins, ResizedJoins

LEMMA ForkCopyJoins ==
    ASSUME IInv, KInv, IInv', NEW p \in Procs, ForkCopy(p)
    PROVE  KInv'
<1>1. proc \in [Procs -> Slot]  BY Types DEF IInv
<1>2. proc[p].state = "RUNNING" /\ proc[p].at = "fork"  BY DEF ForkCopy, Runs
<1>3. PICK l \in Procs : l = proc[p].np /\ l # p
  <2>1. Filling(p)  BY DEF IInv, Fillings
  <2> QED  BY <1>2, <2>1 DEF Filling, Builds
<1>4. CASE UNCHANGED proc  BY <1>4, StillJoins
<1>5. ASSUME NEW d, proc' = [proc EXCEPT ![l].pgdir = d, ![p].at = "copied", ![p].arg = 0]
      PROVE  KInv'
  <2>1. /\ proc'[l] = [proc[l] EXCEPT !.pgdir = d]
        /\ proc'[p] = [proc[p] EXCEPT !.at = "copied", !.arg = 0]
        /\ \A q \in Procs \ {p, l} : proc'[q] = proc[q]
        /\ proc[p] \in Slot /\ proc[l] \in Slot
    BY <1>1, <1>3, <1>5
  <2>2. Calm(l)
    <3>1. proc'[l] = [proc[l] EXCEPT !.pgdir = d] /\ proc[l] \in Slot  BY <2>1
    <3> QED  BY <3>1, FieldsCalm DEF Slot
  <2>3. Calm(p)
    <3>1. proc'[p] = [proc[p] EXCEPT !.at = "copied", !.arg = 0] /\ proc[p] \in Slot
      BY <2>1
    <3> QED  BY <1>2, <3>1, AwakeCalm DEF Slot, Quiet
  <2>4. \A q \in Procs \ {p, l} : Calm(q)  BY <2>1, FieldsCalm
  <2> QED  BY <2>2, <2>3, <2>4, CalmKeeps
<1>6. UNCHANGED proc \/ \E d \in Dirs :
          proc' = [proc EXCEPT ![l].pgdir = d, ![p].at = "copied", ![p].arg = 0]
  BY <1>3 DEF ForkCopy, Panic
<1> QED  BY <1>4, <1>5, <1>6

LEMMA ExecCommitJoins ==
    ASSUME IInv, KInv, IInv', NEW p \in Procs, ExecCommit(p)
    PROVE  KInv'
<1>1. proc \in [Procs -> Slot]  BY Types DEF IInv
<1>2. proc[p].state = "RUNNING"  BY DEF ExecCommit, Runs
<1>3. PICK d \in Dirs : proc' = [proc EXCEPT ![p].pgdir = d, ![p].sz = ImageSz, ![p].at = "user"]
  BY DEF ExecCommit
<1>4. proc'[p] = [proc[p] EXCEPT !.pgdir = d, !.sz = ImageSz, !.at = "user"]
      /\ proc[p] \in Slot /\ \A q \in Procs \ {p} : proc'[q] = proc[q]
  BY <1>1, <1>3
<1>5. Calm(p)  BY <1>2, <1>4, AwakeCalm DEF Slot, Quiet
<1> QED  BY <1>4, <1>5, OneCalm

LEMMA ExecBadJoins ==
    ASSUME IInv, KInv, IInv', NEW p \in Procs, ExecBad(p)
    PROVE  KInv'
<1>1. proc \in [Procs -> Slot]  BY Types DEF IInv
<1>2. proc[p].state = "RUNNING"  BY DEF ExecBad, Runs
<1>3. proc'[p] = [proc[p] EXCEPT !.at = "user"] /\ proc[p] \in Slot
      /\ \A q \in Procs \ {p} : proc'[q] = proc[q]
  BY <1>1 DEF ExecBad
<1>4. Calm(p)  BY <1>2, <1>3, AwakeCalm DEF Slot, Quiet
<1> QED  BY <1>3, <1>4, OneCalm

(* kill sets the flag of all the slots of a pid.                            *)
LEMMA KillJoins ==
    ASSUME IInv, KInv, IInv', NEW p \in Procs, NEW n \in TargetPids, Kill(p, n)
    PROVE  KInv'
<1>1. proc \in [Procs -> Slot]  BY Types DEF IInv
<1>2. \A q \in Procs : proc'[q] =
          IF proc[q].pid # n THEN proc[q]
          ELSE IF proc[q].state = "SLEEPING"
          THEN [proc[q] EXCEPT !.killed = TRUE, !.state = "RUNNABLE", !.sleeps = "no"]
          ELSE [proc[q] EXCEPT !.killed = TRUE]
  BY DEF Kill, Victims
<1>3. ASSUME NEW q \in Procs
      PROVE  /\ proc'[q].pid = proc[q].pid /\ proc'[q].tid = proc[q].tid
             /\ proc'[q].parent = proc[q].parent /\ proc'[q].at = proc[q].at
             /\ proc'[q].arg = proc[q].arg
             /\ proc'[q].killed = (proc[q].killed \/ proc[q].pid = n)
             /\ proc'[q].state = IF proc[q].pid = n /\ proc[q].state = "SLEEPING"
                                 THEN "RUNNABLE" ELSE proc[q].state
  <2>1. proc[q] \in Slot  BY <1>1
  <2>2. CASE proc[q].pid # n
    <3>1. proc'[q] = proc[q]  BY <1>2, <2>2
    <3> QED  BY <2>1, <2>2, <3>1 DEF Slot
  <2>3. CASE proc[q].pid = n /\ proc[q].state = "SLEEPING"
    <3>1. proc'[q] = [proc[q] EXCEPT !.killed = TRUE, !.state = "RUNNABLE", !.sleeps = "no"]
      BY <1>2, <2>3
    <3> QED  BY <2>1, <2>3, <3>1 DEF Slot
  <2>4. CASE proc[q].pid = n /\ proc[q].state # "SLEEPING"
    <3>1. proc'[q] = [proc[q] EXCEPT !.killed = TRUE]  BY <1>2, <2>4
    <3> QED  BY <2>1, <2>4, <3>1 DEF Slot
  <2> QED  BY <2>2, <2>3, <2>4
<1>4. \A q \in Procs : proc'[q].state \in {"ZOMBIE", "SLEEPING"} => proc'[q].state = proc[q].state
  BY <1>3
<1>5. \A q \in Procs : proc[q].state = "ZOMBIE" <=> proc'[q].state = "ZOMBIE"
  BY <1>3
<1>6. Kinship'  BY <1>3, <1>5 DEF KInv, Kinship
<1>7. JoinDue'  BY <1>3 DEF KInv, JoinDue, Awaits
<1>8. SleepDue'  BY <1>3, <1>4 DEF KInv, SleepDue, Awaits
<1>9. KilledAlike'
  <2> SUFFICES ASSUME NEW q \in Procs, NEW r \in Procs, proc'[q].killed,
                      proc'[q].at \notin {"none", "user", "exit"}, proc'[r].pid = proc'[q].pid
               PROVE  proc'[r].killed
    BY DEF KilledAlike
  <2>1. /\ proc[q].killed \/ proc[q].pid = n
        /\ proc[q].at \notin {"none", "user", "exit"} /\ proc[r].pid = proc[q].pid
    BY <1>3
  <2>2. proc[r].killed \/ proc[r].pid = n  BY <2>1 DEF KInv, KilledAlike
  <2> QED  BY <1>3, <2>2
<1>10. KilledJoins'
  <2> SUFFICES ASSUME NEW q \in Procs, proc'[q].killed, proc'[q].state = "SLEEPING"
               PROVE  proc'[q].at = "join"
    BY DEF KilledJoins
  <2>1. proc[q].pid # n /\ proc[q].state = "SLEEPING"  BY <1>3
  <2>2. proc[q].killed /\ proc'[q].at = proc[q].at  BY <1>3, <2>1
  <2> QED  BY <2>1, <2>2 DEF KInv, KilledJoins
<1> QED  BY <1>6, <1>7, <1>8, <1>9, <1>10 DEF KInv

(* exit and thread_exit give the children away and wake the parent.         *)
LEMMA AbandonJoins ==
    ASSUME IInv, KInv, IInv', NEW p \in Procs,
           \A q \in Procs \ {p} : proc'[q] = Abandon(p)[q],
           proc'[p].pid = proc[p].pid, proc'[p].tid = proc[p].tid,
           proc'[p].parent = Abandon(p)[p].parent,
           proc'[p].killed = proc[p].killed, proc'[p].arg = proc[p].arg,
           proc'[p].state = "ZOMBIE", proc'[p].at = "none"
    PROVE  KInv'
<1> DEFINE A == Abandon(p)
<1>1. \A q \in Procs :
          /\ A[q].pid = proc[q].pid /\ A[q].tid = proc[q].tid /\ A[q].at = proc[q].at
          /\ A[q].arg = proc[q].arg /\ A[q].killed = proc[q].killed
          /\ A[q].parent = IF proc[q].parent = p THEN InitProc ELSE proc[q].parent
          /\ A[q].state = proc[q].state \/ (proc[q].state = "SLEEPING" /\ A[q].state = "RUNNABLE")
          /\ q = proc[p].parent /\ proc[q].sleeps = "self" => A[q].state # "SLEEPING"
  BY AbandonSlot DEF IInv
<1>2. \A q \in Procs \ {p} : proc'[q] = A[q]  OBVIOUS
<1>3. proc'[p].parent = A[p].parent  OBVIOUS
<1> HIDE DEF A
<1>4. \A q \in Procs :
          /\ proc'[q].pid = proc[q].pid /\ proc'[q].tid = proc[q].tid
          /\ proc'[q].arg = proc[q].arg /\ proc'[q].killed = proc[q].killed
          /\ proc'[q].parent = IF proc[q].parent = p THEN InitProc ELSE proc[q].parent
  BY <1>1, <1>2, <1>3
<1>5. \A q \in Procs : q # p =>
          /\ proc'[q].at = proc[q].at
          /\ \/ proc'[q].state = proc[q].state
             \/ proc[q].state = "SLEEPING" /\ proc'[q].state = "RUNNABLE"
          /\ q = proc[p].parent /\ proc[q].sleeps = "self" => proc'[q].state # "SLEEPING"
  BY <1>1, <1>2
<1>6. Kinship'
  <2> SUFFICES ASSUME NEW q \in Procs, proc'[q].tid # 0, proc'[q].parent # InitProc
               PROVE  /\ proc'[q].parent \in Procs
                      /\ proc'[proc'[q].parent].pid = proc'[q].pid
                      /\ proc'[proc'[q].parent].tid < proc'[q].tid
                      /\ proc'[proc'[q].parent].state = "ZOMBIE" =>
                           proc'[proc'[q].parent].at = "dying"
    BY DEF Kinship
  <2>1. proc[q].tid # 0 /\ proc[q].parent # InitProc /\ proc[q].parent # p
        /\ proc'[q].parent = proc[q].parent
    BY <1>4
  <2>2. PICK u \in Procs : /\ u = proc[q].parent /\ proc[u].pid = proc[q].pid
                           /\ proc[u].tid < proc[q].tid
                           /\ proc[u].state = "ZOMBIE" => proc[u].at = "dying"
    BY <2>1 DEF KInv, Kinship
  <2>3. proc'[u].state = "ZOMBIE" => proc'[u].at = "dying"
    BY <1>5, <2>1, <2>2
  <2>4. proc'[u].pid = proc'[q].pid /\ proc'[u].tid < proc'[q].tid
    BY <1>4, <2>2
  <2> QED  BY <2>1, <2>2, <2>3, <2>4
<1>7. JoinDue'
  <2> SUFFICES ASSUME NEW q \in Procs, proc'[q].at = "join"
               PROVE  q # InitProc /\ \E r \in Procs : proc'[r].tid = proc'[q].arg
                                                       /\ proc'[r].parent = q
    BY DEF JoinDue, Awaits
  <2>1. q # p /\ proc[q].at = "join"  BY <1>5
  <2>2. PICK r \in Procs : proc[r].tid = proc[q].arg /\ proc[r].parent = q
    BY <2>1 DEF KInv, JoinDue, Awaits
  <2> QED  BY <1>4, <2>1, <2>2 DEF KInv, JoinDue
<1>8. SleepDue'
  <2> SUFFICES ASSUME NEW q \in Procs, NEW r \in Procs, proc'[q].state = "SLEEPING",
                      proc'[q].at = "join", proc'[r].tid = proc'[q].arg, proc'[r].parent = q,
                      proc'[r].state = "ZOMBIE"
               PROVE  proc'[r].at = "dying"
    BY DEF SleepDue, Awaits
  <2>1. q # p /\ proc[q].at = "join" /\ proc[q].state = "SLEEPING"  BY <1>5
  <2>2. q # InitProc  BY <2>1 DEF KInv, JoinDue
  <2>3. proc[r].parent = q /\ proc[r].tid = proc[q].arg  BY <1>4, <2>2
  <2>4. proc[q].sleeps = "self"
    <3>1. Placed(q)  BY DEF IInv, Places
    <3> QED  BY <2>1, <3>1 DEF Placed
  <2>5. r # p  BY <1>5, <2>1, <2>3, <2>4
  <2>6. proc[r].state = "ZOMBIE" /\ proc'[r].at = proc[r].at  BY <1>5, <2>5
  <2> QED  BY <2>1, <2>3, <2>6 DEF KInv, SleepDue, Awaits
<1>9. KilledAlike'  BY <1>4, <1>5 DEF KInv, KilledAlike
<1>10. KilledJoins'  BY <1>4, <1>5 DEF KInv, KilledJoins
<1> QED  BY <1>6, <1>7, <1>8, <1>9, <1>10 DEF KInv

LEMMA ThreadExitJoins ==
    ASSUME IInv, KInv, IInv', NEW p \in Procs, ThreadExit(p)
    PROVE  KInv'
<1>1. proc[p].at = "dying" /\ proc' = [Abandon(p) EXCEPT ![p].at = "none"]
  BY DEF ThreadExit
<1>2. proc[p].state = "ZOMBIE"
  <2>1. Placed(p)  BY DEF IInv, Places
  <2> QED  BY <1>1, <2>1 DEF Placed
<1> DEFINE A == Abandon(p)
<1>3. A \in [Procs -> Slot] /\ A[p].state = "ZOMBIE"
      /\ A[p].pid = proc[p].pid /\ A[p].tid = proc[p].tid /\ A[p].killed = proc[p].killed
      /\ A[p].arg = proc[p].arg
  BY <1>2, AbandonSlot DEF IInv
<1>4. proc' = [A EXCEPT ![p].at = "none"]  BY <1>1
<1> HIDE DEF A
<1>5. proc'[p] = [A[p] EXCEPT !.at = "none"] /\ A[p] \in Slot
      /\ \A q \in Procs \ {p} : proc'[q] = A[q]
  BY <1>3, <1>4
<1>6. /\ proc'[p].pid = proc[p].pid /\ proc'[p].tid = proc[p].tid
      /\ proc'[p].parent = A[p].parent /\ proc'[p].killed = proc[p].killed
      /\ proc'[p].arg = proc[p].arg /\ proc'[p].state = "ZOMBIE" /\ proc'[p].at = "none"
  BY <1>3, <1>5 DEF Slot
<1> QED  BY <1>5, <1>6, AbandonJoins DEF A

LEMMA ExitDoneJoins ==
    ASSUME IInv, KInv, IInv', NEW p \in Procs, ExitDone(p)
    PROVE  KInv'
<1> DEFINE A == Abandon(p)
<1>1. A \in [Procs -> Slot]
      /\ A[p].pid = proc[p].pid /\ A[p].tid = proc[p].tid /\ A[p].killed = proc[p].killed
      /\ A[p].arg = proc[p].arg
  BY AbandonSlot DEF IInv
<1>2. proc' = [A EXCEPT ![p].state = "ZOMBIE", ![p].at = "none"]  BY DEF ExitDone
<1> HIDE DEF A
<1>3. proc'[p] = [A[p] EXCEPT !.state = "ZOMBIE", !.at = "none"] /\ A[p] \in Slot
      /\ \A q \in Procs \ {p} : proc'[q] = A[q]
  BY <1>1, <1>2
<1>4. /\ proc'[p].pid = proc[p].pid /\ proc'[p].tid = proc[p].tid
      /\ proc'[p].parent = A[p].parent /\ proc'[p].killed = proc[p].killed
      /\ proc'[p].arg = proc[p].arg /\ proc'[p].state = "ZOMBIE" /\ proc'[p].at = "none"
  BY <1>1, <1>3 DEF Slot
<1> QED  BY <1>3, <1>4, AbandonJoins DEF A

(* A parent reaps a child, which has no thread of its own left.             *)
LEMMA ReapJoins ==
    ASSUME IInv, KInv, OneCpu, IInv', NEW p \in Procs, On(p), proc[p].state = "RUNNING",
           NEW q \in Procs, proc[q].state = "ZOMBIE", proc[q].parent = p,
           \A r \in Procs \ {p, q} : proc'[r] = proc[r],
           proc'[q] = [Blank EXCEPT !.at = proc[q].at],
           proc'[p].pid = proc[p].pid, proc'[p].tid = proc[p].tid,
           proc'[p].parent = proc[p].parent, proc'[p].killed = proc[p].killed,
           proc'[p].state = "RUNNING", proc'[p].at = "user"
    PROVE  KInv'
<1>1. q # p /\ proc[q].at = "none"
  <2>1. Alone(p)  BY Running
  <2>2. Placed(q)  BY DEF IInv, Places
  <2>3. q # p  OBVIOUS
  <2> QED  BY <2>1, <2>2, <2>3 DEF Alone, Placed, InUse
<1>2. /\ proc'[q].state = "UNUSED" /\ proc'[q].pid = 0 /\ proc'[q].tid = 0
      /\ proc'[q].at = "none"
  BY <1>1 DEF Blank
<1>3. \A r \in Procs : r # q =>
          /\ proc'[r].pid = proc[r].pid /\ proc'[r].tid = proc[r].tid
          /\ proc'[r].parent = proc[r].parent /\ proc'[r].killed = proc[r].killed
  OBVIOUS
<1>4. \A r \in Procs : r # p /\ r # q => proc'[r] = proc[r]  OBVIOUS
<1>5. Kinship'
  <2> SUFFICES ASSUME NEW r \in Procs, proc'[r].tid # 0, proc'[r].parent # InitProc
               PROVE  /\ proc'[r].parent \in Procs
                      /\ proc'[proc'[r].parent].pid = proc'[r].pid
                      /\ proc'[proc'[r].parent].tid < proc'[r].tid
                      /\ proc'[proc'[r].parent].state = "ZOMBIE" =>
                           proc'[proc'[r].parent].at = "dying"
    BY DEF Kinship
  <2>1. r # q /\ proc[r].tid # 0 /\ proc[r].parent # InitProc
        /\ proc'[r].parent = proc[r].parent
    BY <1>2, <1>3
  <2>2. PICK u \in Procs : /\ u = proc[r].parent /\ proc[u].pid = proc[r].pid
                           /\ proc[u].tid < proc[r].tid
                           /\ proc[u].state = "ZOMBIE" => proc[u].at = "dying"
    BY <2>1 DEF KInv, Kinship
  <2>3. u # q  BY <1>1, <2>2
  <2>4. proc'[u].pid = proc'[r].pid /\ proc'[u].tid < proc'[r].tid
    BY <1>3, <2>1, <2>2, <2>3
  <2>5. proc'[u].state = "ZOMBIE" => proc'[u].at = "dying"
    BY <1>4, <2>2, <2>3
  <2> QED  BY <2>1, <2>2, <2>4, <2>5
<1>6. JoinDue'
  <2> SUFFICES ASSUME NEW r \in Procs, proc'[r].at = "join"
               PROVE  r # InitProc /\ \E s \in Procs : proc'[s].tid = proc'[r].arg
                                                       /\ proc'[s].parent = r
    BY DEF JoinDue, Awaits
  <2>1. r # p /\ r # q /\ proc'[r] = proc[r]  BY <1>2, <1>4
  <2>2. PICK s \in Procs : proc[s].tid = proc[r].arg /\ proc[s].parent = r
    BY <2>1 DEF KInv, JoinDue, Awaits
  <2>3. s # q  BY <2>1, <2>2
  <2> QED  BY <1>3, <2>1, <2>2, <2>3 DEF KInv, JoinDue
<1>7. SleepDue'
  <2> SUFFICES ASSUME NEW r \in Procs, NEW s \in Procs, proc'[r].state = "SLEEPING",
                      proc'[r].at = "join", proc'[s].tid = proc'[r].arg, proc'[s].parent = r,
                      proc'[s].state = "ZOMBIE"
               PROVE  proc'[s].at = "dying"
    BY DEF SleepDue, Awaits
  <2>1. proc'[r] = proc[r] /\ proc'[s] = proc[s]  BY <1>2, <1>4
  <2> QED  BY <2>1 DEF KInv, SleepDue, Awaits
<1>8. KilledAlike'
  <2> SUFFICES ASSUME NEW r \in Procs, NEW s \in Procs, proc'[r].killed,
                      proc'[r].at \notin {"none", "user", "exit"}, proc'[s].pid = proc'[r].pid
               PROVE  proc'[s].killed
    BY DEF KilledAlike
  <2>1. r # p /\ r # q /\ proc'[r] = proc[r]  BY <1>2, <1>4
  <2>2. proc[r].pid # 0
    <3>1. proc[r].at # "none"  BY <2>1
    <3> QED  BY <3>1, PidOf
  <2>3. s # q
    <3>1. proc'[q].pid = 0  BY <1>2
    <3>2. proc'[s].pid = proc[r].pid  BY <2>1
    <3> QED  BY <2>2, <3>1, <3>2
  <2>4. proc[s].pid = proc[r].pid /\ proc'[s].killed = proc[s].killed  BY <1>3, <2>1, <2>3
  <2> QED  BY <2>1, <2>4 DEF KInv, KilledAlike
<1>9. KilledJoins'
  <2> SUFFICES ASSUME NEW r \in Procs, proc'[r].killed, proc'[r].state = "SLEEPING"
               PROVE  proc'[r].at = "join"
    BY DEF KilledJoins
  <2>1. proc'[r] = proc[r]  BY <1>2, <1>4
  <2> QED  BY <2>1 DEF KInv, KilledJoins
<1> QED  BY <1>5, <1>6, <1>7, <1>8, <1>9 DEF KInv

(* The thread that a join waits for is a child of the thread that joins.    *)
LEMMA JoinOwn ==
    ASSUME IInv, KInv, ~AnyJoin, "thread_join" \notin Calls(InitProc), NEW p \in Procs,
           NEW thread \in 0 .. MaxTid, ThreadJoin(p, thread)
    PROVE  /\ On(p) /\ proc[p].state = "RUNNING" /\ p # InitProc
           /\ ~proc[p].killed \/ proc[p].at = "join"
           /\ \E q \in Procs : proc[q].tid = thread /\ proc[q].parent = p /\ thread # 0
<1>1. CASE Enters(p, "thread_join") /\ thread \in Joins(p)
  <2>1. PICK q \in Procs : proc[q].tid = thread /\ proc[q].parent = p /\ thread # 0
    BY <1>1 DEF Joins
  <2> QED  BY <1>1, <2>1 DEF Enters, Runs
<1>2. CASE Loops(p, "join") /\ thread = proc[p].arg
  <2>1. proc[p].at = "join" /\ On(p) /\ proc[p].state = "RUNNING"  BY <1>2 DEF Loops
  <2>2. thread # 0  BY <1>2, <2>1 DEF IInv, JoinArgs
  <2> QED  BY <1>2, <2>1, <2>2 DEF KInv, JoinDue, Awaits
<1> QED  BY <1>1, <1>2 DEF ThreadJoin

LEMMA ThreadJoinJoins ==
    ASSUME IInv, KInv, OneCpu, IInv', ~AnyJoin, "thread_join" \notin Calls(InitProc),
           NEW p \in Procs, NEW thread \in 0 .. MaxTid, ThreadJoin(p, thread)
    PROVE  KInv'
<1>1. /\ On(p) /\ proc[p].state = "RUNNING" /\ p # InitProc
      /\ ~proc[p].killed \/ proc[p].at = "join"
  BY JoinOwn
<1>2. PICK k \in Procs : proc[k].tid = thread /\ proc[k].parent = p /\ thread # 0
  BY JoinOwn
<1>3. proc \in [Procs -> Slot]  BY Types DEF IInv
<1>4. CASE \E q \in Procs :
             /\ proc[q].tid = thread /\ proc[q].state = "ZOMBIE"
             /\ proc' = [proc EXCEPT ![q] = [Blank EXCEPT !.at = proc[q].at],
                                     ![p].at = "user", ![p].arg = 0]
  <2>1. PICK q \in Procs :
             /\ proc[q].tid = thread /\ proc[q].state = "ZOMBIE"
             /\ proc' = [proc EXCEPT ![q] = [Blank EXCEPT !.at = proc[q].at],
                                     ![p].at = "user", ![p].arg = 0]
    BY <1>4
  <2>2. q # p  BY <1>1, <2>1
  <2>3. /\ proc'[q] = [Blank EXCEPT !.at = proc[q].at]
        /\ proc'[p] = [proc[p] EXCEPT !.at = "user", !.arg = 0]
        /\ \A r \in Procs \ {p, q} : proc'[r] = proc[r]
        /\ proc[p] \in Slot
    BY <1>3, <2>1, <2>2
  <2>4. /\ proc'[p].pid = proc[p].pid /\ proc'[p].tid = proc[p].tid
        /\ proc'[p].parent = proc[p].parent /\ proc'[p].killed = proc[p].killed
        /\ proc'[p].state = "RUNNING" /\ proc'[p].at = "user"
    <3>1. proc'[p] = [proc[p] EXCEPT !.at = "user", !.arg = 0] /\ proc[p] \in Slot
      BY <2>3
    <3> QED  BY <1>1, <3>1 DEF Slot
  <2>5. proc[q].parent = p  BY <1>2, <2>1 DEF IInv, TidsOnce
  <2> QED  BY <1>1, <2>1, <2>3, <2>4, <2>5, ReapJoins
<1>5. CASE /\ \A q \in Procs : proc[q].tid = thread => proc[q].state # "ZOMBIE"
           /\ proc' = [proc EXCEPT ![p].state = "SLEEPING", ![p].sleeps = "self",
                                   ![p].at = "join", ![p].arg = thread]
  <2>1. proc'[p] = [proc[p] EXCEPT !.state = "SLEEPING", !.sleeps = "self",
                                   !.at = "join", !.arg = thread]
        /\ proc[p] \in Slot /\ \A q \in Procs \ {p} : proc'[q] = proc[q]
    BY <1>3, <1>5
  <2>2. /\ proc'[p].pid = proc[p].pid /\ proc'[p].tid = proc[p].tid
        /\ proc'[p].parent = proc[p].parent /\ proc'[p].killed = proc[p].killed
        /\ proc'[p].state = "SLEEPING" /\ proc'[p].at = "join" /\ proc'[p].arg = thread
    BY <2>1 DEF Slot
  <2>3. Calm(p)  BY <1>1, <1>2, <1>5, <2>2 DEF Calm, Quiet
  <2> QED  BY <2>1, <2>3, OneCalm
<1> QED  BY <1>4, <1>5 DEF ThreadJoin

LEMMA WaitJoins ==
    ASSUME IInv, KInv, OneCpu, IInv', NEW p \in Procs, Wait(p)
    PROVE  KInv'
<1>1. On(p) /\ proc[p].state = "RUNNING"  BY DEF Wait, Enters, Runs, Loops
<1>2. proc \in [Procs -> Slot]  BY Types DEF IInv
<1>3. CASE \E q \in Procs :
             /\ proc[q].state = "ZOMBIE" /\ proc[q].parent = p
             /\ proc' = [proc EXCEPT ![q] = [Blank EXCEPT !.at = proc[q].at],
                                     ![p].at = "user"]
  <2>1. PICK q \in Procs :
             /\ proc[q].state = "ZOMBIE" /\ proc[q].parent = p
             /\ proc' = [proc EXCEPT ![q] = [Blank EXCEPT !.at = proc[q].at],
                                     ![p].at = "user"]
    BY <1>3
  <2>2. q # p  BY <1>1, <2>1
  <2>3. /\ proc'[q] = [Blank EXCEPT !.at = proc[q].at]
        /\ proc'[p] = [proc[p] EXCEPT !.at = "user"]
        /\ \A r \in Procs \ {p, q} : proc'[r] = proc[r]
        /\ proc[p] \in Slot
    BY <1>2, <2>1, <2>2
  <2>4. /\ proc'[p].pid = proc[p].pid /\ proc'[p].tid = proc[p].tid
        /\ proc'[p].parent = proc[p].parent /\ proc'[p].killed = proc[p].killed
        /\ proc'[p].state = "RUNNING" /\ proc'[p].at = "user"
    <3>1. proc'[p] = [proc[p] EXCEPT !.at = "user"] /\ proc[p] \in Slot
      BY <2>3
    <3> QED  BY <1>1, <3>1 DEF Slot
  <2> QED  BY <1>1, <2>1, <2>3, <2>4, ReapJoins
<1>4. CASE proc' = [proc EXCEPT ![p].at = "user"]
  <2>1. proc'[p] = [proc[p] EXCEPT !.at = "user"] /\ proc[p] \in Slot
        /\ \A q \in Procs \ {p} : proc'[q] = proc[q]
    BY <1>2, <1>4
  <2>2. Calm(p)  BY <1>1, <2>1, AwakeCalm DEF Slot, Quiet
  <2> QED  BY <2>1, <2>2, OneCalm
<1>5. CASE ~proc[p].killed /\ proc' = [proc EXCEPT ![p].state = "SLEEPING",
                                         ![p].sleeps = "self", ![p].at = "wait"]
  <2>1. proc'[p] = [proc[p] EXCEPT !.state = "SLEEPING", !.sleeps = "self", !.at = "wait"]
        /\ proc[p] \in Slot /\ \A q \in Procs \ {p} : proc'[q] = proc[q]
    BY <1>2, <1>5
  <2>2. /\ proc'[p].pid = proc[p].pid /\ proc'[p].tid = proc[p].tid
        /\ proc'[p].parent = proc[p].parent /\ proc'[p].killed = proc[p].killed
        /\ proc'[p].state = "SLEEPING" /\ proc'[p].at = "wait"
    BY <2>1 DEF Slot
  <2>3. Calm(p)  BY <1>5, <2>2 DEF Calm
  <2> QED  BY <2>1, <2>3, OneCalm
<1> QED  BY <1>3, <1>4, <1>5 DEF Wait

(* A slot that was not in use becomes a thread of p, or a new process.      *)
LEMMA AddJoins ==
    ASSUME IInv, KInv, IInv', NEW p \in Procs, InUse(p), proc[p].state = "RUNNING",
           ~proc[p].killed, NEW l \in Procs, ~InUse(l),
           proc'[l].state = "EMBRYO", proc'[l].at = "none",
           proc'[p].at \in {"create", "fork"},
           \A r \in Procs \ {l} :
               /\ proc'[r].pid = proc[r].pid /\ proc'[r].tid = proc[r].tid
               /\ proc'[r].parent = proc[r].parent /\ proc'[r].killed = proc[r].killed
               /\ proc'[r].state = proc[r].state,
           \A r \in Procs \ {p, l} : proc'[r].at = proc[r].at /\ proc'[r].arg = proc[r].arg,
           \/ proc'[l].pid = proc[p].pid /\ proc'[l].tid = nexttid /\ proc'[l].parent = p
           \/ proc'[l].pid = nextpid /\ proc'[l].tid = 0
    PROVE  KInv'
<1>1. l # p /\ proc[l].pid = 0 /\ proc[l].tid = 0
  <2>1. proc[l] = [Blank EXCEPT !.killed = proc[l].killed]  BY DEF IInv, Blanks
  <2> QED  BY <2>1 DEF Blank
<1>2. \A r \in Procs : r # l =>
          /\ proc'[r].pid = proc[r].pid /\ proc'[r].tid = proc[r].tid
          /\ proc'[r].parent = proc[r].parent /\ proc'[r].killed = proc[r].killed
          /\ proc'[r].state = proc[r].state
  OBVIOUS
<1>3. \A r \in Procs : r # p /\ r # l => proc'[r].at = proc[r].at /\ proc'[r].arg = proc[r].arg
  OBVIOUS
<1>4. Kinship'
  <2> SUFFICES ASSUME NEW q \in Procs, proc'[q].tid # 0, proc'[q].parent # InitProc
               PROVE  /\ proc'[q].parent \in Procs
                      /\ proc'[proc'[q].parent].pid = proc'[q].pid
                      /\ proc'[proc'[q].parent].tid < proc'[q].tid
                      /\ proc'[proc'[q].parent].state = "ZOMBIE" =>
                           proc'[proc'[q].parent].at = "dying"
    BY DEF Kinship
  <2>1. CASE q = l
    <3>1. proc'[q].pid = proc[p].pid /\ proc'[q].tid = nexttid /\ proc'[q].parent = p
      BY <2>1
    <3>2. proc'[p].pid = proc[p].pid /\ proc'[p].tid = proc[p].tid /\ proc'[p].state = "RUNNING"
      BY <1>1, <1>2
    <3>3. proc[p].tid < nexttid  BY DEF IInv, Ids
    <3> QED  BY <3>1, <3>2, <3>3
  <2>2. CASE q # l
    <3>1. proc[q].tid # 0 /\ proc[q].parent # InitProc /\ proc'[q].parent = proc[q].parent
      BY <1>2, <2>2
    <3>2. PICK u \in Procs : /\ u = proc[q].parent /\ proc[u].pid = proc[q].pid
                             /\ proc[u].tid < proc[q].tid
                             /\ proc[u].state = "ZOMBIE" => proc[u].at = "dying"
      BY <3>1 DEF KInv, Kinship
    <3>3. u # l
      <4>1. proc[q].pid # 0  BY <3>1, InUseOf, PidInUse
      <4> QED  BY <1>1, <3>2, <4>1
    <3>4. proc'[u].pid = proc'[q].pid /\ proc'[u].tid < proc'[q].tid
      BY <1>2, <2>2, <3>2, <3>3
    <3>5. proc'[u].state = "ZOMBIE" => proc'[u].at = "dying"
      <4> SUFFICES ASSUME proc'[u].state = "ZOMBIE" PROVE proc'[u].at = "dying"  OBVIOUS
      <4>1. proc[u].state = "ZOMBIE" /\ u # p  BY <1>2, <3>3
      <4> QED  BY <1>3, <3>2, <3>3, <4>1
    <3> QED  BY <3>1, <3>2, <3>4, <3>5
  <2> QED  BY <2>1, <2>2
<1>5. JoinDue'
  <2> SUFFICES ASSUME NEW r \in Procs, proc'[r].at = "join"
               PROVE  r # InitProc /\ \E s \in Procs : proc'[s].tid = proc'[r].arg
                                                       /\ proc'[s].parent = r
    BY DEF JoinDue, Awaits
  <2>1. proc[r].at = "join" /\ proc'[r].arg = proc[r].arg  BY <1>3
  <2>2. PICK s \in Procs : proc[s].tid = proc[r].arg /\ proc[s].parent = r
    BY <2>1 DEF KInv, JoinDue, Awaits
  <2>3. proc[r].arg # 0  BY <2>1 DEF IInv, JoinArgs
  <2>4. s # l  BY <1>1, <2>2, <2>3
  <2> QED  BY <1>2, <2>1, <2>2, <2>4 DEF KInv, JoinDue
<1>6. SleepDue'
  <2> SUFFICES ASSUME NEW r \in Procs, NEW s \in Procs, proc'[r].state = "SLEEPING",
                      proc'[r].at = "join", proc'[s].tid = proc'[r].arg, proc'[s].parent = r,
                      proc'[s].state = "ZOMBIE"
               PROVE  proc'[s].at = "dying"
    BY DEF SleepDue, Awaits
  <2>1. r # l /\ r # p /\ s # l  OBVIOUS
  <2>2. s # p  BY <1>2, <2>1
  <2> QED  BY <1>2, <1>3, <2>1, <2>2 DEF KInv, SleepDue, Awaits
<1>7. KilledAlike'
  <2> SUFFICES ASSUME NEW r \in Procs, NEW s \in Procs, proc'[r].killed,
                      proc'[r].at \notin {"none", "user", "exit"}, proc'[s].pid = proc'[r].pid
               PROVE  proc'[s].killed
    BY DEF KilledAlike
  <2>1. r # l /\ proc[r].killed /\ proc'[r].pid = proc[r].pid  BY <1>2
  <2>2. r # p  BY <2>1
  <2>3. proc[r].at \notin {"none", "user", "exit"}  BY <1>3, <2>1, <2>2
  <2>4. \A q \in Procs : proc[q].pid = proc[r].pid => proc[q].killed
    BY <2>1, <2>3 DEF KInv, KilledAlike
  <2>5. proc'[s].pid = proc[r].pid  BY <2>1
  <2>6. CASE s = l
    <3>1. proc[r].pid # proc[p].pid  BY <2>4
    <3>2. proc[r].pid = nextpid  BY <2>5, <2>6, <3>1
    <3>3. InUse(r)  BY <2>3, InUseOf
    <3>4. proc[r].pid < nextpid /\ proc[r].pid \in Nat  BY <3>3, SlotFields DEF IInv, Ids
    <3> QED  BY <3>2, <3>4
  <2>7. CASE s # l  BY <1>2, <2>4, <2>5, <2>7
  <2> QED  BY <2>6, <2>7
<1>8. KilledJoins'
  <2> SUFFICES ASSUME NEW r \in Procs, proc'[r].killed, proc'[r].state = "SLEEPING"
               PROVE  proc'[r].at = "join"
    BY DEF KilledJoins
  <2>1. r # l /\ proc[r].killed /\ proc[r].state = "SLEEPING"  BY <1>2
  <2>2. r # p  BY <2>1
  <2> QED  BY <1>3, <2>1, <2>2 DEF KInv, KilledJoins
<1> QED  BY <1>4, <1>5, <1>6, <1>7, <1>8 DEF KInv

LEMMA ForkJoins ==
    ASSUME IInv, KInv, IInv', NEW p \in Procs, Fork(p)
    PROVE  KInv'
<1>1. proc[p].state = "RUNNING" /\ ~proc[p].killed /\ InUse(p)  BY DEF Fork, Enters, Runs, InUse
<1>2. proc \in [Procs -> Slot]  BY Types DEF IInv
<1>3. PICK l \in Procs :
          /\ ~InUse(l)
          /\ proc' = [proc EXCEPT ![l].state = "EMBRYO", ![l].pid = nextpid,
                                  ![p].at = "fork", ![p].np = l, ![p].arg = proc[p].sz]
  BY DEF Fork, Free
<1>4. l # p  BY <1>1, <1>3
<1>5. /\ proc'[l] = [proc[l] EXCEPT !.state = "EMBRYO", !.pid = nextpid]
      /\ proc'[p] = [proc[p] EXCEPT !.at = "fork", !.np = l, !.arg = proc[p].sz]
      /\ \A r \in Procs \ {p, l} : proc'[r] = proc[r]
      /\ proc[p] \in Slot /\ proc[l] \in Slot
  BY <1>2, <1>3, <1>4
<1>6. proc'[l].state = "EMBRYO" /\ proc'[l].at = "none" /\ proc'[l].pid = nextpid
      /\ proc'[l].tid = 0
  <2>1. proc[l] = [Blank EXCEPT !.killed = proc[l].killed]  BY <1>3 DEF IInv, Blanks
  <2>2. proc[l].at = "none" /\ proc[l].tid = 0  BY <2>1 DEF Blank
  <2>3. proc'[l] = [proc[l] EXCEPT !.state = "EMBRYO", !.pid = nextpid] /\ proc[l] \in Slot
    BY <1>5
  <2> QED  BY <2>2, <2>3 DEF Slot
<1>7. /\ proc'[p].pid = proc[p].pid /\ proc'[p].tid = proc[p].tid
      /\ proc'[p].parent = proc[p].parent /\ proc'[p].killed = proc[p].killed
      /\ proc'[p].state = proc[p].state /\ proc'[p].at = "fork"
  <2>1. proc'[p] = [proc[p] EXCEPT !.at = "fork", !.np = l, !.arg = proc[p].sz]
        /\ proc[p] \in Slot
    BY <1>5
  <2> QED  BY <2>1 DEF Slot
<1>8. \A r \in Procs \ {l} :
          /\ proc'[r].pid = proc[r].pid /\ proc'[r].tid = proc[r].tid
          /\ proc'[r].parent = proc[r].parent /\ proc'[r].killed = proc[r].killed
          /\ proc'[r].state = proc[r].state
  BY <1>5, <1>7
<1>9. \A r \in Procs \ {p, l} : proc'[r].at = proc[r].at /\ proc'[r].arg = proc[r].arg
  BY <1>5
<1>10. ~InUse(l) /\ proc'[p].at \in {"create", "fork"}  BY <1>3, <1>7
<1> QED  BY <1>1, <1>6, <1>8, <1>9, <1>10, AddJoins

LEMMA ThreadCreateJoins ==
    ASSUME IInv, KInv, IInv', NEW p \in Procs, ThreadCreate(p)
    PROVE  KInv'
<1> DEFINE ori == Origin(p)
           old == proc[ori].sz
           new == old + StackSz
<1>1. /\ proc[p].state = "RUNNING" /\ ~proc[p].killed
      /\ \/ UNCHANGED proc
         \/ \E l \in Procs :
             /\ ~InUse(l)
             /\ \/ proc' = [proc EXCEPT ![ori].sz = 0, ![l] = Blank]
                \/ UNCHANGED proc
                \/ proc' = [q \in Procs |->
                         CASE q = l -> [proc[l] EXCEPT !.state = "EMBRYO", !.tid = nexttid,
                                           !.pid = proc[p].pid, !.parent = p, !.origin = ori,
                                           !.pgdir = proc[p].pgdir, !.sz = new]
                           [] q = p -> [proc[p] EXCEPT !.sz = new, !.at = "create", !.np = l]
                           [] q \in Family(p) \ {l, p} -> [proc[q] EXCEPT !.sz = new]
                           [] OTHER -> proc[q]]
  BY DEF ThreadCreate, Enters, Runs, Origin, Panic, Free
<1>2. proc \in [Procs -> Slot]  BY Types DEF IInv
<1>3. InUse(p)  BY <1>1 DEF InUse
<1>4. ori \in Procs /\ InUse(ori)  BY <1>3, OriginIn
<1>5. \A r \in Procs : ~InUse(r) => proc[r] = [Blank EXCEPT !.killed = proc[r].killed]
  BY DEF IInv, Blanks
<1> HIDE DEF ori, old, new
<1>6. CASE UNCHANGED proc  BY <1>6, StillJoins
<1>7. ASSUME NEW l \in Procs, ~InUse(l), proc' = [proc EXCEPT ![ori].sz = 0, ![l] = Blank]
      PROVE  KInv'
  <2>1. l # ori  BY <1>4, <1>7
  <2>2. /\ proc'[l] = Blank /\ proc'[ori] = [proc[ori] EXCEPT !.sz = 0]
        /\ \A r \in Procs \ {ori, l} : proc'[r] = proc[r]
        /\ proc[ori] \in Slot
    BY <1>2, <1>4, <1>7, <2>1
  <2>3. Calm(ori)
    <3>1. proc'[ori] = [proc[ori] EXCEPT !.sz = 0] /\ proc[ori] \in Slot  BY <2>2
    <3> QED  BY <1>4, <3>1, FieldsCalm DEF Slot
  <2>4. Calm(l)
    <3>1. proc[l] = [Blank EXCEPT !.killed = proc[l].killed]  BY <1>5, <1>7
    <3> QED  BY <2>2, <3>1 DEF Blank, Calm, Quiet
  <2>5. \A r \in Procs \ {ori, l} : Calm(r)  BY <2>2, FieldsCalm
  <2> QED  BY <2>3, <2>4, <2>5, CalmKeeps
<1>8. ASSUME NEW l \in Procs, ~InUse(l),
             proc' = [q \in Procs |->
                CASE q = l -> [proc[l] EXCEPT !.state = "EMBRYO", !.tid = nexttid,
                                  !.pid = proc[p].pid, !.parent = p, !.origin = ori,
                                  !.pgdir = proc[p].pgdir, !.sz = new]
                  [] q = p -> [proc[p] EXCEPT !.sz = new, !.at = "create", !.np = l]
                  [] q \in Family(p) \ {l, p} -> [proc[q] EXCEPT !.sz = new]
                  [] OTHER -> proc[q]]
      PROVE  KInv'
  <2>1. l # p  BY <1>3, <1>8
  <2>2. \A q \in Procs : proc'[q] =
                CASE q = l -> [proc[l] EXCEPT !.state = "EMBRYO", !.tid = nexttid,
                                  !.pid = proc[p].pid, !.parent = p, !.origin = ori,
                                  !.pgdir = proc[p].pgdir, !.sz = new]
                  [] q = p -> [proc[p] EXCEPT !.sz = new, !.at = "create", !.np = l]
                  [] q \in Family(p) \ {l, p} -> [proc[q] EXCEPT !.sz = new]
                  [] OTHER -> proc[q]
    BY <1>8
  <2>3. /\ proc'[l].state = "EMBRYO" /\ proc'[l].at = "none"
        /\ proc'[l].tid = nexttid /\ proc'[l].pid = proc[p].pid /\ proc'[l].parent = p
    <3>1. /\ proc'[l] = [proc[l] EXCEPT !.state = "EMBRYO", !.tid = nexttid,
                                  !.pid = proc[p].pid, !.parent = p, !.origin = ori,
                                  !.pgdir = proc[p].pgdir, !.sz = new]
          /\ proc[l] \in Slot
      <4> DEFINE e == [proc[l] EXCEPT !.state = "EMBRYO", !.tid = nexttid,
                                      !.pid = proc[p].pid, !.parent = p, !.origin = ori,
                                      !.pgdir = proc[p].pgdir, !.sz = new]
      <4>1. proc'[l] = CASE l = l -> e
                  [] l = p -> [proc[p] EXCEPT !.sz = new, !.at = "create", !.np = l]
                  [] l \in Family(p) \ {l, p} -> [proc[l] EXCEPT !.sz = new]
                  [] OTHER -> proc[l]
        BY <2>2
      <4> HIDE DEF e
      <4>2. proc'[l] = e  BY <2>1, <4>1
      <4> QED  BY <1>2, <4>2 DEF e
    <3>2. proc[l].at = "none"
      <4>1. proc[l] = [Blank EXCEPT !.killed = proc[l].killed]  BY <1>5, <1>8
      <4> QED  BY <4>1 DEF Blank
    <3> QED  BY <3>1, <3>2 DEF Slot
  <2>4. /\ proc'[p].pid = proc[p].pid /\ proc'[p].tid = proc[p].tid
        /\ proc'[p].parent = proc[p].parent /\ proc'[p].killed = proc[p].killed
        /\ proc'[p].state = proc[p].state /\ proc'[p].at = "create"
    <3>1. proc'[p] = [proc[p] EXCEPT !.sz = new, !.at = "create", !.np = l] /\ proc[p] \in Slot
      BY <1>2, <2>1, <2>2
    <3> QED  BY <3>1 DEF Slot
  <2>5. ASSUME NEW r \in Procs \ {p, l}
        PROVE  /\ proc'[r].pid = proc[r].pid /\ proc'[r].tid = proc[r].tid
               /\ proc'[r].parent = proc[r].parent /\ proc'[r].killed = proc[r].killed
               /\ proc'[r].state = proc[r].state
               /\ proc'[r].at = proc[r].at /\ proc'[r].arg = proc[r].arg
    <3>1. proc[r] \in Slot  BY <1>2
    <3>2. CASE r \in Family(p)
      <4>1. proc'[r] = [proc[r] EXCEPT !.sz = new]  BY <2>2, <3>2
      <4> QED  BY <3>1, <4>1 DEF Slot
    <3>3. CASE r \notin Family(p)
      <4>1. proc'[r] = proc[r]  BY <2>2, <3>3
      <4> QED  BY <4>1
    <3> QED  BY <3>2, <3>3
  <2>6. \A r \in Procs \ {l} :
            /\ proc'[r].pid = proc[r].pid /\ proc'[r].tid = proc[r].tid
            /\ proc'[r].parent = proc[r].parent /\ proc'[r].killed = proc[r].killed
            /\ proc'[r].state = proc[r].state
    BY <2>4, <2>5
  <2>7. \A r \in Procs \ {p, l} : proc'[r].at = proc[r].at /\ proc'[r].arg = proc[r].arg
    BY <2>5
  <2>8. ~InUse(l) /\ proc'[p].at \in {"create", "fork"}  BY <1>8, <2>4
  <2>9. proc[p].state = "RUNNING" /\ ~proc[p].killed  BY <1>1
  <2> QED  BY <1>3, <2>3, <2>6, <2>7, <2>8, <2>9, AddJoins
<1> QED  BY <1>1, <1>6, <1>7, <1>8

(* exec and exit remove the other threads: whoever waits in join, or was    *)
(* killed, in another process sees nothing of it.                           *)
LEMMA RemoveAllJoins ==
    ASSUME IInv, KInv, OneCpu, IInv', NEW p \in Procs, On(p), proc[p].state = "RUNNING",
           NEW at \in {"exec", "exit"}, RemoveAll(p, at), at = "exit" \/ ~proc[p].killed
    PROVE  KInv'
<1>1. \A q \in Procs : proc[q].pid # proc[p].pid => proc'[q] = proc[q]
  BY RemoveAllSlots
<1>2. \A q \in Procs : q # p /\ proc[q].pid = proc[p].pid =>
          /\ proc'[q].state = "UNUSED" /\ proc'[q].pid = 0 /\ proc'[q].tid = 0
          /\ proc'[q].at = "none"
  <2>1. \A q \in Procs : q # p /\ proc[q].pid = proc[p].pid => proc'[q] = Blank
    BY RemoveAllSlots
  <2> QED  BY <2>1 DEF Blank
<1>3. /\ proc'[p].state = "RUNNING" /\ proc'[p].at = at /\ proc'[p].tid = 0
      /\ proc'[p].pid = proc[p].pid /\ proc'[p].killed = proc[p].killed
  BY RemoveAllSlots
<1>4. \A q \in Procs : proc'[q].tid # 0 \/ proc'[q].at = "join" \/ proc'[q].state = "SLEEPING"
                       => proc[q].pid # proc[p].pid /\ proc'[q] = proc[q]
  BY <1>1, <1>2, <1>3
<1>5. Kinship'
  <2> SUFFICES ASSUME NEW q \in Procs, proc'[q].tid # 0, proc'[q].parent # InitProc
               PROVE  /\ proc'[q].parent \in Procs
                      /\ proc'[proc'[q].parent].pid = proc'[q].pid
                      /\ proc'[proc'[q].parent].tid < proc'[q].tid
                      /\ proc'[proc'[q].parent].state = "ZOMBIE" =>
                           proc'[proc'[q].parent].at = "dying"
    BY DEF Kinship
  <2>1. proc[q].pid # proc[p].pid /\ proc'[q] = proc[q]  BY <1>4
  <2>2. PICK u \in Procs : /\ u = proc[q].parent /\ proc[u].pid = proc[q].pid
                           /\ proc[u].tid < proc[q].tid
                           /\ proc[u].state = "ZOMBIE" => proc[u].at = "dying"
    BY <2>1 DEF KInv, Kinship
  <2>3. proc'[u] = proc[u]  BY <1>1, <2>1, <2>2
  <2> QED  BY <2>1, <2>2, <2>3
<1>6. JoinDue'
  <2> SUFFICES ASSUME NEW q \in Procs, proc'[q].at = "join"
               PROVE  q # InitProc /\ \E r \in Procs : proc'[r].tid = proc'[q].arg
                                                       /\ proc'[r].parent = q
    BY DEF JoinDue, Awaits
  <2>1. proc[q].pid # proc[p].pid /\ proc'[q] = proc[q]  BY <1>4
  <2>2. q # InitProc /\ proc[q].arg # 0  BY <2>1 DEF KInv, JoinDue, IInv, JoinArgs
  <2>3. PICK r \in Procs : proc[r].tid = proc[q].arg /\ proc[r].parent = q
    BY <2>1 DEF KInv, JoinDue, Awaits
  <2>4. proc[r].pid = proc[q].pid  BY <2>2, <2>3 DEF KInv, Kinship
  <2>5. proc'[r] = proc[r]  BY <1>1, <2>1, <2>4
  <2> QED  BY <2>1, <2>2, <2>3, <2>5
<1>7. SleepDue'
  <2> SUFFICES ASSUME NEW q \in Procs, NEW r \in Procs, proc'[q].state = "SLEEPING",
                      proc'[q].at = "join", proc'[r].tid = proc'[q].arg, proc'[r].parent = q,
                      proc'[r].state = "ZOMBIE"
               PROVE  proc'[r].at = "dying"
    BY DEF SleepDue, Awaits
  <2>1. proc'[q] = proc[q]  BY <1>4
  <2>2. proc'[r] = proc[r]  BY <1>1, <1>2, <1>3
  <2> QED  BY <2>1, <2>2 DEF KInv, SleepDue, Awaits
<1>8. KilledAlike'
  <2> SUFFICES ASSUME NEW q \in Procs, NEW r \in Procs, proc'[q].killed,
                      proc'[q].at \notin {"none", "user", "exit"}, proc'[r].pid = proc'[q].pid
               PROVE  proc'[r].killed
    BY DEF KilledAlike
  <2>1. q # p  BY <1>3
  <2>2. proc[q].pid # proc[p].pid /\ proc'[q] = proc[q]  BY <1>1, <1>2, <2>1
  <2>3. proc[q].pid # 0  BY <2>2, InUseOf, PidInUse
  <2>4. proc[r].pid # proc[p].pid  BY <1>2, <1>3, <2>2, <2>3
  <2>5. proc'[r] = proc[r]  BY <1>1, <2>4
  <2> QED  BY <2>2, <2>5 DEF KInv, KilledAlike
<1>9. KilledJoins'
  <2> SUFFICES ASSUME NEW q \in Procs, proc'[q].killed, proc'[q].state = "SLEEPING"
               PROVE  proc'[q].at = "join"
    BY DEF KilledJoins
  <2>1. proc'[q] = proc[q]  BY <1>4
  <2> QED  BY <2>1 DEF KInv, KilledJoins
<1> QED  BY <1>5, <1>6, <1>7, <1>8, <1>9 DEF KInv

LEMMA ExecJoins ==
    ASSUME IInv, KInv, OneCpu, IInv', NEW p \in Procs, Exec(p)
    PROVE  KInv'
  BY RemoveAllJoins DEF Exec, Enters, Runs

LEMMA ExitJoins ==
    ASSUME IInv, KInv, OneCpu, IInv', NEW p \in Procs, Exit(p)
    PROVE  KInv'
  BY RemoveAllJoins DEF Exit, Enters, Runs

-----------------------------------------------------------------------------
(* No join loses its wakeup, and a killed process can end.                  *)

LEMMA JoinsInit ==
    ASSUME Init
    PROVE  KInv
<1>1. \A p \in Procs : /\ proc[p].at \in {"none", "user"} /\ proc[p].tid = 0
                       /\ ~proc[p].killed
  BY DEF Init, Blank
<1> QED
  BY <1>1 DEF KInv, Kinship, JoinDue, SleepDue, KilledAlike, KilledJoins

LEMMA JoinsStep ==
    ASSUME IInv, KInv, OneCpu, ~AnyJoin, "thread_join" \notin Calls(InitProc), [Next]_vars
    PROVE  KInv'
<1>1. IInv'  BY StepHolds
<1>2. CASE UNCHANGED vars  BY <1>2, StillJoins DEF vars
<1>3. CASE Interrupt  BY <1>1, <1>3, InterruptJoins
<1>4. ASSUME NEW p \in Procs,
             \/ \E c \in CPUs : Schedule(c, p)
             \/ Yield(p) \/ Sleep(p) \/ ThreadCreate(p) \/ CreateDone(p)
             \/ ThreadExitMark(p) \/ ThreadExit(p)
             \/ \E thread \in 0 .. MaxTid : ThreadJoin(p, thread)
             \/ Fork(p) \/ ForkCopy(p) \/ ForkDone(p) \/ Sbrk(p) \/ Grow(p) \/ Shrink(p)
             \/ Exec(p) \/ ExecCommit(p) \/ ExecBad(p) \/ Exit(p) \/ ExitDone(p) \/ Wait(p)
             \/ \E n \in TargetPids : Kill(p, n)
      PROVE  KInv'
  BY <1>1, <1>4, ScheduleJoins, YieldJoins, SleepJoins, ThreadCreateJoins, CreateDoneJoins,
     ThreadExitMarkJoins, ThreadExitJoins, ThreadJoinJoins, ForkJoins, ForkCopyJoins,
     ForkDoneJoins, SbrkJoins, GrowJoins, ShrinkJoins, ExecJoins, ExecCommitJoins,
     ExecBadJoins, ExitJoins, ExitDoneJoins, WaitJoins, KillJoins
<1> QED  BY <1>2, <1>3, <1>4 DEF Next

(* And so does what joins and kills need, if init, which adopts the threads *)
(* whose parents are gone, joins none.                                      *)
THEOREM JoinInvariance ==
    ASSUME OneCpu, ~AnyJoin, "thread_join" \notin Calls(InitProc)
    PROVE  Spec => [](IInv /\ KInv)
<1>1. Init => IInv /\ KInv  BY InitHolds, JoinsInit
<1>2. IInv /\ KInv /\ [Next]_vars => (IInv /\ KInv)'  BY StepHolds, JoinsStep
<1> QED  BY <1>1, <1>2, PTL DEF Spec

(* While a thread sleeps in thread_join, the thread it waits for has not    *)
(* ended or has yet to wake it: thread_exit marks itself ZOMBIE before it   *)
(* takes ptable.lock, and wakes its parent under it.                        *)
THEOREM JoinsWoken ==
    ASSUME OneCpu, ~AnyJoin, "thread_join" \notin Calls(InitProc)
    PROVE  Spec => []NoLostJoin
<1>1. IInv /\ KInv => NoLostJoin
  <2> SUFFICES ASSUME IInv, KInv, NEW p \in Procs, proc[p].state = "SLEEPING",
                      proc[p].at = "join"
               PROVE  \E q \in Procs : /\ proc[q].tid = proc[p].arg /\ proc[q].parent = p
                                       /\ proc[q].state = "ZOMBIE" => proc[q].at = "dying"
    BY DEF NoLostJoin
  <2>1. PICK q \in Procs : Awaits(p, q)  BY DEF KInv, JoinDue
  <2> QED  BY <2>1 DEF KInv, SleepDue, Awaits
<1> QED  BY <1>1, JoinInvariance, PTL

(* A set of numbers has a least one.                                        *)
LEMMA Least ==
    ASSUME NEW T, T \subseteq Nat, T # {}
    PROVE  \E x \in T : \A y \in T : x <= y
<1> DEFINE R == {ss \in Nat \X Nat : ss[1] < ss[2]}
<1>1. R = OpToRel(<, Nat)  BY DEF OpToRel
<1>2. \A x, y \in Nat : y < x => <<y, x>> \in R  OBVIOUS
<1> HIDE DEF R
<1>3. IsWellFoundedOn(R, Nat)  BY <1>1, NatLessThanWellFounded
<1>4. PICK x \in T : \A y \in T : ~(<<y, x>> \in R)
  BY <1>3, WFMin
<1>5. \A y \in T : ~(y < x)  BY <1>2, <1>4
<1> QED  BY <1>5

(* A slot whose thread has yet to leave its processor for the last time.    *)
Lasts(p) == proc[p].state = "ZOMBIE" => proc[p].at = "dying"

(* A killed thread that sleeps waits for a younger thread of its process,   *)
(* which is killed too and not over.                                        *)
LEMMA KilledAwaits ==
    ASSUME IInv, KInv, NEW p \in Procs, proc[p].killed, proc[p].state = "SLEEPING"
    PROVE  \E q \in Procs : /\ proc[q].pid = proc[p].pid /\ proc[q].killed /\ Lasts(q)
                            /\ proc[p].tid < proc[q].tid
<1>1. proc[p].at = "join"  BY DEF KInv, KilledJoins
<1>2. PICK q \in Procs : proc[q].tid = proc[p].arg /\ proc[q].parent = p /\ p # InitProc
  BY <1>1 DEF KInv, JoinDue, Awaits
<1>3. proc[q].tid # 0  BY <1>1, <1>2 DEF IInv, JoinArgs
<1>4. proc[q].pid = proc[p].pid /\ proc[p].tid < proc[q].tid
  BY <1>2, <1>3 DEF KInv, Kinship
<1>5. proc[q].killed  BY <1>1, <1>4 DEF KInv, KilledAlike
<1>6. Lasts(q)  BY <1>1, <1>2 DEF KInv, SleepDue, Awaits, Lasts
<1> QED  BY <1>4, <1>5, <1>6

(* The youngest of them is not asleep.                                      *)
LEMMA KilledGoesOn ==
    ASSUME IInv, KInv, NEW p \in Procs, proc[p].killed, Lasts(p)
    PROVE  \E q \in Procs : /\ proc[q].pid = proc[p].pid /\ proc[q].killed /\ Lasts(q)
                            /\ proc[q].state # "SLEEPING"
<1> DEFINE S == {q \in Procs : proc[q].pid = proc[p].pid /\ proc[q].killed /\ Lasts(q)}
           T == {MaxTid - proc[q].tid : q \in S}
<1>1. MaxTid \in Nat  BY Bounds
<1>2. \A q \in S : proc[q].tid \in 0 .. MaxTid  BY SlotFields DEF IInv
<1>3. T \subseteq Nat /\ T # {}
  <2>1. \A q \in S : MaxTid - proc[q].tid \in Nat  BY <1>1, <1>2
  <2>2. p \in S  OBVIOUS
  <2> HIDE DEF S
  <2> QED  BY <2>1, <2>2
<1>4. PICK x \in T : \A y \in T : x <= y  BY <1>3, Least
<1>5. PICK q \in S : x = MaxTid - proc[q].tid  BY <1>4
<1>6. proc[q].state # "SLEEPING"
  <2> SUFFICES ASSUME proc[q].state = "SLEEPING" PROVE FALSE  OBVIOUS
  <2>1. PICK r \in Procs : /\ proc[r].pid = proc[q].pid /\ proc[r].killed /\ Lasts(r)
                           /\ proc[q].tid < proc[r].tid
    BY <1>5, KilledAwaits
  <2>2. r \in S  BY <1>5, <2>1
  <2>3. x <= MaxTid - proc[r].tid  BY <1>4, <2>2
  <2> QED  BY <1>1, <1>2, <1>5, <2>1, <2>2, <2>3
<1> QED  BY <1>5, <1>6

(* A killed process is not stuck: one of its threads is neither asleep nor  *)
(* over, though thread_join ignores that it was killed.  The killed threads that sleep   *)
(* wait for younger ones, so the youngest goes on.                          *)
THEOREM KilledEnds ==
    ASSUME OneCpu, ~AnyJoin, "thread_join" \notin Calls(InitProc)
    PROVE  Spec => []KilledCanEnd
<1>1. IInv /\ KInv => KilledCanEnd
  BY KilledGoesOn DEF KilledCanEnd, Family, Lasts
<1> QED  BY <1>1, JoinInvariance, PTL
=============================================================================
