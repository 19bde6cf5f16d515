-------------------------------- MODULE Mlfq --------------------------------
(***************************************************************************)
(* The multi-level feedback queue scheduler of Project02/xv6-public:       *)
(* scheduler(), the level queues L0 .. L3 and the monopoly queue MQ        *)
(* (queue.c, monopoly.c), the timer interrupt (trap.c) and the system      *)
(* calls that make a process runnable or stop it (proc.c).                 *)
(*                                                                         *)
(* One step is one critical section of ptable.lock.  The scheduler hands   *)
(* its section over to the process it runs, and gets one back when the     *)
(* process gives the CPU up; so the code of scheduler() that follows       *)
(* run_proc() belongs to the step of the process that calls sched().       *)
(* README.md is Project02/README.md.                                       *)
(***************************************************************************)
EXTENDS Integers, Sequences, SequencesExt, FiniteSets

CONSTANTS
    NPROC,         \* slots of ptable.proc
    CPUs,          \* processors; 0 counts the ticks
    NoProc,        \* the null process pointer
    MaxPid,        \* bound: pids handed out
    MaxTicks,      \* bound: ticks charged to a process, saturating
    MaxPriority,   \* largest priority (10 in the code)
    QuantumStep,   \* the time quantum of level l is l * QuantumStep + QuantumBase
    QuantumBase,   \* (both 2 in the code)
    BoostPeriod,   \* ticks between boosts (100 in the code)
    TargetPids,    \* pids given to kill, setpriority and setmonopoly
    Chans,         \* what sleep() is called on, besides a process's own slot
    Calls(_)       \* the system calls the program of a slot makes

MoQ    == 99
Levels == 0 .. 3
Procs  == 1 .. NPROC
InitProc == 1

ASSUME MlfqAssumption ==
    /\ NPROC \in Nat \ {0} /\ NoProc \notin Procs
    /\ 0 \in CPUs
    /\ MaxPid \in Nat \ {0} /\ MaxPriority \in Nat
    /\ QuantumStep \in Nat /\ QuantumBase \in Nat \ {0}
    /\ MaxTicks \in Nat /\ MaxTicks >= 3 * QuantumStep + QuantumBase
    /\ BoostPeriod \in Nat \ {0}
    /\ TargetPids \subseteq 0 .. MaxPid
    /\ Chans \subseteq {"ticks", "io"}

VARIABLES
    proc,            \* ptable.proc, with where each process is in the kernel
    queue,           \* the five queues, front first
    cpu,             \* the process each CPU runs and the queue it was taken from
    nextpid,
    is_monopolized,
    ticks,           \* the global tick count modulo BoostPeriod
    panic            \* why the kernel stopped, or "none"

vars == <<proc, queue, cpu, nextpid, is_monopolized, ticks, panic>>

Quantum(l) == l * QuantumStep + QuantumBase
Idle == [p |-> NoProc, from |-> MoQ]
Live == {"RUNNABLE", "RUNNING", "SLEEPING"}

-----------------------------------------------------------------------------
(* queue.c.  Definitions named ..Bug are slips of the code that the         *)
(* properties below are confirmed to catch; no specification uses them.     *)

q_remove(q, p) == RemoveFirst(q, p)

(* q_push without q_exist.                                                  *)
q_pushBug(q, p) == Append(q, p)
q_push(q, p) == Append(q_remove(q, p), p)

q_runnable(q) == \E i \in DOMAIN q : proc[q[i]].state = "RUNNABLE"

(* The first process of L3, as in the round-robin levels.                   *)
q_topBug(q) == Head(q)

(* The processes of ps that are in S, pushed one after the other.           *)
PushAll(q, ps, S) ==
    LET pushed[n \in 0 .. Len(ps)] ==
            IF n = 0 THEN q
            ELSE IF ps[n] \in S THEN q_push(pushed[n - 1], ps[n])
            ELSE pushed[n - 1]
    IN pushed[Len(ps)]

(* The first of the processes with the highest priority, whatever its state.*)
q_top(q) ==
    q[CHOOSE i \in DOMAIN q : \A j \in DOMAIN q :
          \/ proc[q[j]].priority < proc[q[i]].priority
          \/ proc[q[j]].priority = proc[q[i]].priority /\ i <= j]

-----------------------------------------------------------------------------
(* proc.c: what ptable.lock protects.  A process table pr and queues qs are *)
(* arguments where one step makes several changes.                          *)

(* wakeup1, from the first slot to the last: each process of W becomes      *)
(* RUNNABLE and goes back to the queue of its level; one of level 99 is     *)
(* left where it is.                                                        *)
Asleep(p, chan) == proc[p].state = "SLEEPING" /\ proc[p].chan = chan
Sleepers(chan)  == {p \in Procs : Asleep(p, chan)}

Awake(W) ==
    [p \in Procs |-> IF p \in W THEN [proc[p] EXCEPT !.state = "RUNNABLE"] ELSE proc[p]]

Table == [p \in Procs |-> p]
AtLevel(W, l) == {p \in W : proc[p].queue_level = l}

(* wakeup1 and kill without their last line, for L3.                        *)
EnqueueBug(qs, W) ==
    [l \in DOMAIN qs |->
        IF l \in 0 .. 2 THEN PushAll(qs[l], Table, AtLevel(W, l)) ELSE qs[l]]

Enqueue(qs, W) ==
    [l \in DOMAIN qs |->
        IF l \in Levels THEN PushAll(qs[l], Table, AtLevel(W, l)) ELSE qs[l]]

(* The level after a time quantum spent at level from, by process n.        *)
NextLevelBug(from, n) == IF from > 0 THEN 3 ELSE IF n % 2 = 1 THEN 2 ELSE 1
NextLevel(from, n) == IF from > 0 THEN 3 ELSE IF n % 2 = 1 THEN 1 ELSE 2

(* The rest of scheduler()'s turn on c once its process is back, pr and qs  *)
(* being what the process left.                                             *)
BackIn(c, pr, qs) ==
    LET p       == cpu[c].p
        from    == cpu[c].from
        spent   == from \in Levels /\ Quantum(from) <= pr[p].ticks
        next    == IF spent THEN NextLevel(from, pr[p].pid) ELSE from
        pushed  == from \in 0 .. 2 /\ pr[p].state = "RUNNABLE"
        demoted == spent /\ from = 3 /\ pr[p].priority > 0
    IN /\ cpu' = [cpu EXCEPT ![c] = Idle]
       /\ queue' = IF pushed THEN [qs EXCEPT ![next] = q_push(@, p)] ELSE qs
       /\ proc' = [pr EXCEPT ![p].ticks = IF spent THEN 0 ELSE @,
                             ![p].queue_level = IF pushed THEN next ELSE @,
                             ![p].priority = IF demoted THEN @ - 1 ELSE @]

-----------------------------------------------------------------------------
(* A process that has just come back from the sleep() of wait() still holds *)
(* ptable.lock; one that is back from the yield() of the timer interrupt    *)
(* runs priority_boosting() before it can be interrupted again.             *)
Current == {p \in Procs : \E c \in CPUs : cpu[c].p = p}
Locked  == \E p \in Current : proc[p].at = "wait"
Up      == panic = "none"

Runs(c, p) == Up /\ ~Locked /\ cpu[c].p = p

InUser(c, p) == Runs(c, p) /\ proc[p].at = "user" /\ ~proc[p].boosts

(* p makes a system call; a killed process exits instead (trap.c:41).       *)
Enters(c, p, call) == InUser(c, p) /\ ~proc[p].killed /\ call \in Calls(p)

Interruptible(c) ==
    /\ Up /\ ~Locked
    /\ cpu[c] # Idle => ~proc[cpu[c].p].boosts

-----------------------------------------------------------------------------
(* The scheduler: one action for each way its loop body can go.             *)

Scheduling(c) == Up /\ ~Locked /\ cpu[c] = Idle

(* run_proc() switches to p without looking at its state: what happens with *)
(* one that is half built, or already runs, is undefined.                   *)
Run(c, p, pr, from) ==
    IF pr[p].state \in {"EMBRYO", "RUNNING"}
    THEN /\ panic' = pr[p].state
         /\ proc' = pr /\ UNCHANGED cpu
    ELSE /\ cpu' = [cpu EXCEPT ![c] = [p |-> p, from |-> from]]
         /\ proc' = [pr EXCEPT ![p].state = "RUNNING", ![p].chan = "none"]
         /\ UNCHANGED panic

MoqOver(c) ==
    /\ Scheduling(c) /\ is_monopolized /\ queue[MoQ] = <<>>
    /\ is_monopolized' = FALSE
    /\ ticks' = 0
    /\ UNCHANGED <<proc, queue, cpu, nextpid, panic>>

MoqFront(c) ==
    /\ Scheduling(c) /\ is_monopolized /\ queue[MoQ] # <<>>
    /\ LET p  == Head(queue[MoQ])
           pr == [proc EXCEPT ![p].queue_level = MoQ]
       IN IF proc[p].state \in {"ZOMBIE", "UNUSED"}
          THEN /\ queue' = [queue EXCEPT ![MoQ] = q_remove(@, p)]
               /\ proc' = pr
               /\ UNCHANGED <<cpu, panic>>
          ELSE Run(c, p, pr, MoQ) /\ UNCHANGED queue
    /\ UNCHANGED <<nextpid, is_monopolized, ticks>>

(* The level the scheduler serves: the first with a RUNNABLE process.       *)
Serves(c, l) ==
    /\ Scheduling(c) /\ ~is_monopolized
    /\ q_runnable(queue[l])
    /\ \A k \in 0 .. l - 1 : ~q_runnable(queue[k])

RoundRobin(c, l) ==
    /\ l \in 0 .. 2 /\ Serves(c, l)
    /\ LET p == Head(queue[l])
       IN /\ queue' = [queue EXCEPT ![l] = Tail(@)]
          /\ IF proc[p].state = "RUNNABLE" THEN Run(c, p, proc, l)
                                           ELSE UNCHANGED <<proc, cpu, panic>>
    /\ UNCHANGED <<nextpid, is_monopolized, ticks>>

(* A process of L3 keeps its place in the queue while it runs.              *)
ByPriority(c) ==
    /\ Serves(c, 3)
    /\ LET p == q_top(queue[3])
       IN IF proc[p].state = "RUNNABLE"
          THEN Run(c, p, proc, 3) /\ UNCHANGED queue
          ELSE /\ queue' = [queue EXCEPT ![3] = q_remove(@, p)]
               /\ UNCHANGED <<proc, cpu, panic>>
    /\ UNCHANGED <<nextpid, is_monopolized, ticks>>

-----------------------------------------------------------------------------
(* trap.c: the timer interrupt on c.  CPU 0 counts the tick and wakes the   *)
(* sleepers; a running process is charged and may have to yield.  One that  *)
(* was killed exits instead, in a step of its own.                          *)
Timer(c) ==
    /\ Interruptible(c)
    /\ ticks' = IF c = 0 THEN (ticks + 1) % BoostPeriod ELSE ticks
    /\ LET p      == cpu[c].p
           woken  == IF c = 0 THEN Sleepers("ticks") ELSE {}
           pr     == Awake(woken)
           qs     == Enqueue(queue, woken)
           dying  == proc[p].killed /\ proc[p].at = "user"
           used   == IF pr[p].ticks < MaxTicks THEN pr[p].ticks + 1 ELSE MaxTicks
           charge == [pr EXCEPT ![p].ticks = used]
           yield(t, boosts) ==
               BackIn(c, [t EXCEPT ![p].state = "RUNNABLE", ![p].boosts = boosts], qs)
       IN IF cpu[c] = Idle \/ is_monopolized \/ dying
          THEN proc' = pr /\ queue' = qs /\ UNCHANGED cpu
          ELSE IF ticks' = BoostPeriod - 1 THEN yield(pr, TRUE)
          ELSE IF Quantum(pr[p].queue_level) <= used THEN yield(charge, FALSE)
          ELSE proc' = charge /\ queue' = qs /\ UNCHANGED cpu
    /\ UNCHANGED <<nextpid, is_monopolized, panic>>

(* priority_boosting without its last loop, for L3.                         *)
LowerLevelsBug == 1 .. 2
LowerLevels == 1 .. 3

(* priority_boosting(): L0 is rotated once, which leaves it as it was, and  *)
(* the other levels are pushed behind it, one after the other.              *)
Boost(c, p) ==
    /\ Runs(c, p) /\ proc[p].boosts
    /\ LET rest == FlattenSeq([l \in LowerLevels |-> queue[l]])
           all  == queue[0] \o rest
       IN /\ queue' = [l \in DOMAIN queue |->
                          CASE l = 0             -> PushAll(queue[0], rest, Procs)
                            [] l \in LowerLevels -> <<>>
                            [] OTHER              -> queue[l]]
          /\ proc' = [r \in Procs |->
                 [proc[r] EXCEPT
                     !.ticks = IF Contains(all, r) THEN 0 ELSE @,
                     !.queue_level = IF Contains(all, r) THEN 0 ELSE @,
                     !.boosts = IF r = p THEN FALSE ELSE @]]
    /\ UNCHANGED <<cpu, nextpid, is_monopolized, ticks, panic>>

(* A device interrupt wakes the sleepers on its channel.                    *)
Interrupt(c) ==
    /\ Interruptible(c)
    /\ proc' = Awake(Sleepers("io"))
    /\ queue' = Enqueue(queue, Sleepers("io"))
    /\ UNCHANGED <<cpu, nextpid, is_monopolized, ticks, panic>>

-----------------------------------------------------------------------------
(* System calls.                                                            *)

Yield(c, p) ==
    /\ Enters(c, p, "yield")
    /\ BackIn(c, [proc EXCEPT ![p].state = "RUNNABLE"], queue)
    /\ UNCHANGED <<nextpid, is_monopolized, ticks, panic>>

Sleep(c, p, chan) ==
    /\ Enters(c, p, "sleep")
    /\ BackIn(c, [proc EXCEPT ![p].state = "SLEEPING", ![p].chan = chan], queue)
    /\ UNCHANGED <<nextpid, is_monopolized, ticks, panic>>

(* fork: allocproc takes the first UNUSED slot; priority, ticks and         *)
(* queue_level keep the values its last process left.                       *)
Fork(c, p) ==
    /\ Enters(c, p, "fork") /\ nextpid <= MaxPid
    /\ \E np \in Procs :
          /\ proc[np].state = "UNUSED"
          /\ \A r \in Procs : r < np => proc[r].state # "UNUSED"
          /\ proc' = [proc EXCEPT ![np].state = "EMBRYO", ![np].pid = nextpid,
                                  ![p].at = "fork", ![p].np = np]
    /\ nextpid' = nextpid + 1
    /\ UNCHANGED <<queue, cpu, is_monopolized, ticks, panic>>

Forking(c, p) == Runs(c, p) /\ proc[p].at = "fork" /\ ~proc[p].boosts

(* No memory for the stack or the address space: the slot keeps its pid.    *)
ForkFails(c, p) ==
    /\ Forking(c, p)
    /\ proc' = [proc EXCEPT ![proc[p].np].state = "UNUSED",
                            ![p].at = "user", ![p].np = NoProc]
    /\ UNCHANGED <<queue, cpu, nextpid, is_monopolized, ticks, panic>>

ForkDone(c, p) ==
    /\ Forking(c, p)
    /\ LET np == proc[p].np
       IN /\ proc' = [proc EXCEPT ![np].state = "RUNNABLE", ![np].parent = p,
                                  ![np].queue_level = 0,
                                  ![p].at = "user", ![p].np = NoProc]
          /\ queue' = [queue EXCEPT ![0] = q_push(@, np)]
    /\ UNCHANGED <<cpu, nextpid, is_monopolized, ticks, panic>>

(* A program exits by itself or because it was killed; initproc must not.   *)
Exit(c, p) ==
    /\ InUser(c, p)
    /\ "exit" \in Calls(p) \/ proc[p].killed
    /\ IF p = InitProc
       THEN /\ panic' = "init exiting"
            /\ UNCHANGED <<proc, queue, cpu>>
       ELSE LET orphans == {r \in Procs : proc[r].parent = p}
                adopts  == \E r \in orphans : proc[r].state = "ZOMBIE"
                parent  == Sleepers("self") \cap {proc[p].parent}
                init    == IF adopts THEN Sleepers("self") \cap ({InitProc} \ parent) ELSE {}
                pr      == [r \in Procs |->
                               [Awake(parent \union init)[r] EXCEPT
                                   !.parent = IF r \in orphans THEN InitProc ELSE @,
                                   !.state = IF r = p THEN "ZOMBIE" ELSE @]]
            IN /\ BackIn(c, pr, Enqueue(Enqueue(queue, parent), init))
               /\ UNCHANGED panic
    /\ UNCHANGED <<nextpid, is_monopolized, ticks>>

(* wait: the loop body, on entry and again after each sleep.                *)
Wait(c, p) ==
    /\ Up /\ cpu[c].p = p
    /\ proc[p].at = "wait" \/ Enters(c, p, "wait")
    /\ LET kids    == {r \in Procs : proc[r].parent = p}
           zombies == {r \in kids : proc[r].state = "ZOMBIE"}
           back    == [proc EXCEPT ![p].at = "user"]
       IN \/ \E r \in zombies :
                /\ \A s \in zombies : r <= s
                /\ proc' = [back EXCEPT ![r].state = "UNUSED", ![r].pid = 0,
                                        ![r].parent = NoProc, ![r].killed = FALSE]
                /\ UNCHANGED <<queue, cpu>>
          \/ /\ zombies = {} /\ (kids = {} \/ proc[p].killed)
             /\ proc' = back
             /\ UNCHANGED <<queue, cpu>>
          \/ /\ kids # {} /\ zombies = {} /\ ~proc[p].killed
             /\ BackIn(c, [proc EXCEPT ![p].at = "wait", ![p].chan = "self",
                                       ![p].state = "SLEEPING"], queue)
    /\ UNCHANGED <<nextpid, is_monopolized, ticks, panic>>

(* The slot a system call finds for a pid: the first that carries it.       *)
ByPid(n, p) == proc[p].pid = n /\ \A r \in Procs : r < p => proc[r].pid # n

Kill(c, p, n) ==
    /\ Enters(c, p, "kill")
    /\ \E r \in Procs :
          /\ ByPid(n, r)
          /\ LET woken == {s \in {r} : proc[s].state = "SLEEPING"}
             IN /\ proc' = [Awake(woken) EXCEPT ![r].killed = TRUE]
                /\ queue' = Enqueue(queue, woken)
    /\ UNCHANGED <<cpu, nextpid, is_monopolized, ticks, panic>>

(* The upper end of the range check off by one.                             *)
setpriorityBug(c, p, n, priority) ==
    /\ Enters(c, p, "setpriority")
    /\ \E r \in Procs : ByPid(n, r) /\ proc' = [proc EXCEPT ![r].priority = priority + 1]
    /\ UNCHANGED <<queue, cpu, nextpid, is_monopolized, ticks, panic>>

setpriority(c, p, n, priority) ==
    /\ Enters(c, p, "setpriority")
    /\ \E r \in Procs : ByPid(n, r) /\ proc' = [proc EXCEPT ![r].priority = priority]
    /\ UNCHANGED <<queue, cpu, nextpid, is_monopolized, ticks, panic>>

setmonopoly(c, p, n) ==
    /\ Enters(c, p, "setmonopoly")
    /\ \E r \in Procs \ {p} :
          /\ ByPid(n, r) /\ proc[r].queue_level # MoQ
          /\ queue' = [queue EXCEPT ![proc[r].queue_level] = q_remove(@, r),
                                    ![MoQ] = q_push(@, r)]
          /\ proc' = [proc EXCEPT ![r].queue_level = MoQ]
    /\ UNCHANGED <<cpu, nextpid, is_monopolized, ticks, panic>>

monopolize(c, p) ==
    /\ Enters(c, p, "monopolize")
    /\ is_monopolized' = TRUE
    /\ UNCHANGED <<proc, queue, cpu, nextpid, ticks, panic>>

unmonopolize(c, p) ==
    /\ Enters(c, p, "unmonopolize")
    /\ is_monopolized' = FALSE
    /\ ticks' = 0
    /\ UNCHANGED <<proc, queue, cpu, nextpid, panic>>

-----------------------------------------------------------------------------
Blank == [state |-> "UNUSED", pid |-> 0, parent |-> NoProc, chan |-> "none",
          killed |-> FALSE, priority |-> 0, queue_level |-> 0, ticks |-> 0,
          at |-> "user", np |-> NoProc, boosts |-> FALSE]

(* pinit and userinit.                                                      *)
Init ==
    /\ proc = [p \in Procs |-> IF p = InitProc
                               THEN [Blank EXCEPT !.state = "RUNNABLE", !.pid = 1]
                               ELSE Blank]
    /\ queue = [l \in Levels \union {MoQ} |-> IF l = 0 THEN <<InitProc>> ELSE <<>>]
    /\ cpu = [c \in CPUs |-> Idle]
    /\ nextpid = 2
    /\ is_monopolized = FALSE
    /\ ticks = 0
    /\ panic = "none"

Scheduler(c) ==
    MoqOver(c) \/ MoqFront(c) \/ ByPriority(c) \/ \E l \in 0 .. 2 : RoundRobin(c, l)

Next ==
    \E c \in CPUs :
        \/ MoqOver(c)
        \/ MoqFront(c)
        \/ \E l \in 0 .. 2 : RoundRobin(c, l)
        \/ ByPriority(c)
        \/ Timer(c)
        \/ Interrupt(c)
        \/ \E p \in Current :
              \/ Boost(c, p)
              \/ Yield(c, p)
              \/ \E chan \in Chans : Sleep(c, p, chan)
              \/ Fork(c, p)
              \/ ForkFails(c, p)
              \/ ForkDone(c, p)
              \/ Exit(c, p)
              \/ Wait(c, p)
              \/ monopolize(c, p)
              \/ unmonopolize(c, p)
              \/ \E n \in TargetPids :
                    \/ Kill(c, p, n)
                    \/ setmonopoly(c, p, n)
                    \/ \E priority \in 0 .. MaxPriority : setpriority(c, p, n, priority)

Spec == Init /\ [][Next]_vars

(* Every CPU keeps going round the scheduler's loop, and a process that came*)
(* back to boost does it: kernel code with the CPU to itself does not stop. *)
FairSpec ==
    /\ Spec
    /\ \A c \in CPUs : WF_vars(Scheduler(c)) /\ WF_vars(\E p \in Current : Boost(c, p))

-----------------------------------------------------------------------------
(* Every variable has its type.                                             *)
TypeOK ==
    /\ proc \in [Procs ->
          [state : {"UNUSED", "EMBRYO", "SLEEPING", "RUNNABLE", "RUNNING", "ZOMBIE"},
           pid : 0 .. MaxPid, parent : Procs \union {NoProc},
           chan : {"none", "self"} \union Chans, killed : BOOLEAN,
           priority : 0 .. MaxPriority, queue_level : Levels \union {MoQ},
           ticks : 0 .. MaxTicks, at : {"user", "fork", "wait"},
           np : Procs \union {NoProc}, boosts : BOOLEAN]]
    /\ DOMAIN queue = Levels \union {MoQ}
    /\ \A l \in DOMAIN queue : ToSet(queue[l]) \subseteq Procs /\ Len(queue[l]) <= NPROC
    /\ cpu \in [CPUs -> [p : Procs \union {NoProc}, from : Levels \union {MoQ}]]
    /\ nextpid \in 1 .. MaxPid + 1
    /\ is_monopolized \in BOOLEAN
    /\ ticks \in 0 .. BoostPeriod - 1
    /\ panic \in {"none", "init exiting", "EMBRYO", "RUNNING"}

In(p, l) == Contains(queue[l], p)

(* No runnable process is lost: it waits in the queue of its level, where   *)
(* scheduler() will find it; and a live process of the monopoly queue is    *)
(* in it until it ends, whether it sleeps or runs (README.md:118, :992).    *)
RunnableIsQueued ==
    \A p \in Procs :
        /\ proc[p].state = "RUNNABLE" => In(p, proc[p].queue_level)
        /\ proc[p].state \in Live /\ proc[p].queue_level = MoQ => In(p, MoQ)

(* A queue holds a process at most once (a ring of NPROC + 1 cells cannot   *)
(* overflow then, queue.c:16), whatever stale entries a reused slot finds.  *)
NoDuplicates ==
    \A l \in DOMAIN queue : \A i, j \in DOMAIN queue[l] :
        queue[l][i] = queue[l][j] => i = j

(* The CPU goes to the highest level that has a runnable process, and in L3 *)
(* to a highest priority (README.md:9-12, :18): seen from the processes'    *)
(* own levels, not from the queues the scheduler looks at.  InPlace leaves  *)
(* out a process that a reused slot put in two queues (see MoqWaits).       *)
InPlace(p) ==
    /\ \A l \in DOMAIN queue : In(p, l) => l = proc[p].queue_level
    /\ \A c \in CPUs : cpu[c].p = p => cpu[c].from = proc[p].queue_level
Starts(p) == proc[p].state # "RUNNING" /\ proc'[p].state = "RUNNING"
HighestFirst ==
    [][\A p, o \in Procs :
          /\ Starts(p) /\ ~is_monopolized /\ proc[p].queue_level \in Levels /\ InPlace(p)
          /\ proc[o].state = "RUNNABLE" /\ proc[o].queue_level \in Levels
          => \/ proc[p].queue_level < proc[o].queue_level
             \/ /\ proc[p].queue_level = proc[o].queue_level
                /\ proc[p].queue_level = 3 => proc[p].priority >= proc[o].priority]_vars

(* A process moves between levels only along the arrows of README.md:59-62: *)
(* to L1 with an odd pid, to L2 with an even one, then to L3; back to L0 by *)
(* a boost or as a new process.                                             *)
Boosts == \E p \in Procs : proc[p].boosts /\ ~proc'[p].boosts
LevelMoves ==
    [][\A p \in Procs :
          LET old == proc[p].queue_level
              new == proc'[p].queue_level
          IN old \in Levels /\ new \in Levels /\ new # old /\ InPlace(p) =>
                \/ new = 3 /\ old \in {1, 2}
                \/ old = 0 /\ new = (IF proc[p].pid % 2 = 1 THEN 1 ELSE 2)
                \/ new = 0 /\ (proc[p].state = "EMBRYO" \/ Boosts)]_vars

(* After a boost every process that waits for the CPU waits in L0 with a    *)
(* fresh quantum, except those of the monopoly queue (README.md:23-25).     *)
BoostReachesAll ==
    [][Boosts =>
          \A p \in Procs :
              proc[p].state = "RUNNABLE" /\ proc[p].queue_level \in Levels
              => proc'[p].queue_level = 0 /\ proc'[p].ticks = 0]_vars

(* No starvation (README.md:24): if boosts keep coming and the monopoly     *)
(* stays off, a runnable process of any level gets the CPU, or is moved to  *)
(* the monopoly queue.                                                      *)
Boosting == \E c \in CPUs, p \in Procs : cpu[c].p = p /\ proc[p].boosts
NoStarvation ==
    []<>Boosting /\ <>[](~is_monopolized)
    => \A p \in Procs :
          (proc[p].state = "RUNNABLE" /\ proc[p].queue_level \in Levels)
          ~> (proc[p].state = "RUNNING" \/ proc[p].queue_level = MoQ)

(* A process of the monopoly queue, one for which getlev() returns 99, gets *)
(* the CPU only during a monopoly (README.md:28, :29, :37).                 *)
MoqWaits ==
    [][\A p \in Procs :
          Starts(p) /\ proc[p].queue_level = MoQ => is_monopolized]_vars
=============================================================================
