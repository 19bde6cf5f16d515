-------------------------------- MODULE Pipe --------------------------------
(***************************************************************************)
(* A pipe of Project04/xv6-public (pipe.c) and what it is built on: sleep,  *)
(* wakeup and kill of proc.c with their hand-over of spin locks, and the    *)
(* counting of descriptors in file.c.                                       *)
(*                                                                         *)
(* A step is what a process does between two points where another one may   *)
(* come in: it takes a spin lock, gives one back, or copies a byte.  Every  *)
(* process has a processor, which allows at least what fewer allow.         *)
(***************************************************************************)
EXTENDS Integers, FiniteSets, Sequences

CONSTANTS
    Procs, NoProc,
    PIPESIZE,
    Wrap,          \* 2^32: nread and nwrite are unsigned ints
    Bytes,
    Addr,          \* bound: the bytes of every buffer that is written, the longest call's
    Lengths,       \* bound: how many bytes a call asks for
    Fds0           \* the ends each process has descriptors of at first

ASSUME PipeAssumption ==
    /\ PIPESIZE \in Nat \ {0} /\ Wrap \in Nat /\ Wrap > PIPESIZE /\ Wrap % PIPESIZE = 0
    /\ Addr \in Seq(Bytes) /\ Lengths \subseteq DOMAIN Addr /\ NoProc \notin Procs
    /\ Fds0 \in [Procs -> SUBSET {"r", "w"}] /\ \A e \in {"r", "w"} : \E p \in Procs : e \in Fds0[p]

VARIABLES
    pipe,     \* struct pipe: data, nread, nwrite, and the ends still open
    lk,       \* who holds pipe->lock
    ptable,   \* who holds ptable.lock
    fds,      \* the ends each process has a descriptor of
    killed,
    pc, loc,  \* where each process is: its call, how many bytes it wants and has
              \* moved, the channel it sleeps on
    got,      \* what each process last got
    freed     \* pipe went back to kfree

locks == <<lk, ptable>>
vars  == <<pipe, locks, fds, killed, pc, loc, got, freed>>

Ends == {"r", "w"}
Junk == "junk"     \* what kalloc leaves in a page
NoLoc == [call |-> "none", n |-> 0, i |-> 0, chan |-> "none"]

In(p, where) == pc[p] = where
Goes(p, where) == pc' = [pc EXCEPT ![p] = where]
Gets(p, x) == got' = [got EXCEPT ![p] = x]

(* acquire and release of a spin lock.                                      *)
Acquire(lock, p) == lock = NoProc /\ lock' = p
Release(lock)    == lock' = NoProc
Free(lock)       == lock = NoProc /\ UNCHANGED lock

Empty == pipe.nread = pipe.nwrite
Full  == pipe.nwrite = (pipe.nread + PIPESIZE) % Wrap

-----------------------------------------------------------------------------
(* proc.c                                                                   *)

(* wakeup(chan), in the table of places w: takes ptable.lock for itself.    *)
Wakeup(w, chan) ==
    [q \in Procs |-> IF pc[q] = "asleep" /\ loc[q].chan = chan THEN "woken" ELSE w[q]]

(* The argument of the sleep that follows.                                  *)
Sleeps(p, chan) == loc' = [loc EXCEPT ![p].chan = chan]

(* Definitions named ..Bug are slips the properties below catch; they are   *)
(* not part of the model.  lk is given back before ptable.lock is taken:    *)
SleepBug(p) ==
    /\ In(p, "sleep")
    /\ IF lk = p
       THEN Release(lk) /\ UNCHANGED <<ptable, pc>>
       ELSE Acquire(ptable, p) /\ Goes(p, "sched") /\ UNCHANGED lk
    /\ UNCHANGED <<pipe, fds, killed, loc, got, freed>>
(* sleep: take ptable.lock ...                                              *)
Sleep(p) ==
    /\ In(p, "sleep")
    /\ Acquire(ptable, p)
    /\ Goes(p, "release") /\ UNCHANGED <<pipe, lk, fds, killed, loc, got, freed>>
(* ... give back lk ...                                                     *)
SleepRelease(p) ==
    /\ In(p, "release")
    /\ Release(lk)
    /\ Goes(p, "sched") /\ UNCHANGED <<pipe, ptable, fds, killed, loc, got, freed>>
(* ... and sleep; the scheduler gives back ptable.lock.                     *)
Sched(p) ==
    /\ In(p, "sched")
    /\ Release(ptable)
    /\ Goes(p, "asleep") /\ UNCHANGED <<pipe, lk, fds, killed, loc, got, freed>>

(* A read that was woken does not look again.                               *)
WokenBug(p) ==
    /\ In(p, "woken")
    /\ Acquire(lk, p)
    /\ Goes(p, IF loc[p].call = "r" THEN "copy" ELSE "write")
    /\ loc' = [loc EXCEPT ![p].chan = "none"]
    /\ UNCHANGED <<pipe, ptable, fds, killed, got, freed>>
(* The end of sleep: take lk again and return to the loop.                  *)
Woken(p) ==
    /\ In(p, "woken")
    /\ Acquire(lk, p)
    /\ Goes(p, IF loc[p].call = "r" THEN "read" ELSE "write")
    /\ loc' = [loc EXCEPT ![p].chan = "none"]
    /\ UNCHANGED <<pipe, ptable, fds, killed, got, freed>>

(* kill(p), under ptable.lock.                                              *)
Kill(p) ==
    /\ Free(ptable) /\ p \notin killed
    /\ killed' = killed \union {p}
    /\ IF In(p, "asleep") THEN Goes(p, "woken") ELSE UNCHANGED pc
    /\ UNCHANGED <<pipe, lk, fds, loc, got, freed>>

-----------------------------------------------------------------------------
(* pipe.c.  A process that was killed makes no call on its way to exit.     *)

Call(p, e, n) ==
    /\ In(p, "user") /\ p \notin killed /\ e \in fds[p]
    /\ Acquire(lk, p)
    /\ Goes(p, IF e = "r" THEN "read" ELSE "write")
    /\ loc' = [loc EXCEPT ![p].call = e, ![p].n = n]
    /\ UNCHANGED <<pipe, ptable, fds, killed, got, freed>>

Returns(p, x) ==
    /\ Release(lk)
    /\ loc' = [loc EXCEPT ![p] = NoLoc]
    /\ Gets(p, x)

(* The first loop of piperead.                                              *)
Read(p) ==
    /\ In(p, "read")
    /\ IF ~Empty \/ "w" \notin pipe.open
       THEN Goes(p, "copy") /\ UNCHANGED <<lk, loc, got>>
       ELSE IF p \in killed
       THEN Returns(p, "error") /\ Goes(p, "user")
       ELSE Sleeps(p, "nread") /\ Goes(p, "sleep") /\ UNCHANGED <<lk, got>>
    /\ UNCHANGED <<pipe, ptable, fds, killed, freed>>

(* The second loop: one byte.                                               *)
Copy(p) ==
    /\ In(p, "copy") /\ loc[p].i < loc[p].n /\ ~Empty
    /\ Gets(p, pipe.data[pipe.nread % PIPESIZE])
    /\ pipe' = [pipe EXCEPT !.nread = (@ + 1) % Wrap]
    /\ loc' = [loc EXCEPT ![p].i = @ + 1]
    /\ UNCHANGED <<locks, fds, killed, pc, freed>>

(* The end of piperead: wake the writers.                                   *)
ReadDone(p) ==
    /\ In(p, "copy") /\ (loc[p].i = loc[p].n \/ Empty)
    /\ Free(ptable)
    /\ pc' = Wakeup([pc EXCEPT ![p] = "user"], "nwrite")
    /\ Returns(p, IF loc[p].i = 0 THEN "end" ELSE got[p])
    /\ UNCHANGED <<pipe, fds, killed, freed>>

(* pipewrite: one byte ...                                                  *)
Write(p) ==
    /\ In(p, "write") /\ loc[p].i < loc[p].n /\ ~Full
    /\ pipe' = [pipe EXCEPT !.data[pipe.nwrite % PIPESIZE] = Addr[loc[p].i + 1], !.nwrite = (@ + 1) % Wrap]
    /\ loc' = [loc EXCEPT ![p].i = @ + 1]
    /\ UNCHANGED <<locks, fds, killed, pc, got, freed>>

(* ... or no room: give up, or wake the readers and sleep.                  *)
WriteFull(p) ==
    /\ In(p, "write") /\ loc[p].i < loc[p].n /\ Full
    /\ IF "r" \notin pipe.open \/ p \in killed
       THEN Returns(p, "error") /\ Goes(p, "user") /\ UNCHANGED ptable
       ELSE /\ Free(ptable)
            /\ pc' = Wakeup([pc EXCEPT ![p] = "sleep"], "nread")
            /\ Sleeps(p, "nwrite")
            /\ UNCHANGED <<lk, got>>
    /\ UNCHANGED <<pipe, fds, killed, freed>>

WriteDone(p) ==
    /\ In(p, "write") /\ loc[p].i = loc[p].n
    /\ Free(ptable)
    /\ pc' = Wakeup([pc EXCEPT ![p] = "user"], "nread")
    /\ Returns(p, "done")
    /\ UNCHANGED <<pipe, fds, killed, freed>>

(* fileclose: the last descriptor of an end closes it.                      *)
Close(p, e) ==
    /\ In(p, "user") /\ e \in fds[p]
    /\ fds' = [fds EXCEPT ![p] = @ \ {e}]
    /\ IF \E q \in Procs \ {p} : e \in fds[q]
       THEN UNCHANGED <<pc, loc>>
       ELSE Goes(p, "close") /\ loc' = [loc EXCEPT ![p].call = e]
    /\ UNCHANGED <<pipe, locks, killed, got, freed>>

(* pipeclose: take the lock and close the end ...                           *)
Pipeclose(p) ==
    /\ In(p, "close")
    /\ Acquire(lk, p)
    /\ pipe' = [pipe EXCEPT !.open = @ \ {loc[p].call}]
    /\ Goes(p, "closed") /\ UNCHANGED <<ptable, fds, killed, loc, got, freed>>

(* The page goes with the first end.                                        *)
PipecloseDoneBug(p) ==
    /\ In(p, "closed")
    /\ Free(ptable)
    /\ pc' = Wakeup([pc EXCEPT ![p] = "user"], IF loc[p].call = "w" THEN "nread" ELSE "nwrite")
    /\ Release(lk) /\ loc' = [loc EXCEPT ![p] = NoLoc]
    /\ freed' = TRUE
    /\ UNCHANGED <<pipe, fds, killed, got>>
(* ... wake the other end, and free the page after the last.                *)
PipecloseDone(p) ==
    /\ In(p, "closed")
    /\ Free(ptable)
    /\ pc' = Wakeup([pc EXCEPT ![p] = "user"], IF loc[p].call = "w" THEN "nread" ELSE "nwrite")
    /\ Release(lk) /\ loc' = [loc EXCEPT ![p] = NoLoc]
    /\ freed' = (pipe.open = {})
    /\ UNCHANGED <<pipe, fds, killed, got>>

-----------------------------------------------------------------------------
(* After pipealloc and the forks that hand the pipe on.                     *)
Init ==
    /\ pipe = [data |-> [i \in 0 .. PIPESIZE - 1 |-> Junk], nread |-> 0, nwrite |-> 0, open |-> Ends]
    /\ lk = NoProc /\ ptable = NoProc
    /\ fds = Fds0
    /\ killed = {}
    /\ pc  = [p \in Procs |-> "user"]
    /\ loc = [p \in Procs |-> NoLoc]
    /\ got = [p \in Procs |-> "start"]
    /\ freed = FALSE

(* What a process goes on to do inside a call.                              *)
Proceeds(p) ==
    \/ Sleep(p) \/ SleepRelease(p) \/ Sched(p) \/ Woken(p)
    \/ Read(p) \/ Copy(p) \/ ReadDone(p)
    \/ Write(p) \/ WriteFull(p) \/ WriteDone(p)
    \/ Pipeclose(p) \/ PipecloseDone(p)

Next == \E p \in Procs :
    \/ Proceeds(p)
    \/ \E e \in Ends : Close(p, e) \/ \E n \in Lengths : Call(p, e, n)
    \/ Kill(p)

Spec == Init /\ [][Next]_vars

(* Whoever asks for a spin lock again and again gets it.                    *)
FairSpec == Spec /\ \A p \in Procs : SF_vars(Proceeds(p))

-----------------------------------------------------------------------------
(* Properties.                                                              *)

Holding == {"read", "copy", "write", "sleep", "release", "closed"}
Places  == Holding \union {"user", "sched", "asleep", "woken", "close"}
TypeOK ==
    /\ pipe \in [data : [0 .. PIPESIZE - 1 -> Bytes \union {Junk}], nread : 0 .. Wrap - 1, nwrite : 0 .. Wrap - 1,
                 open : SUBSET Ends]
    /\ lk \in Procs \union {NoProc} /\ ptable \in Procs \union {NoProc}
    /\ fds \in [Procs -> SUBSET Ends] /\ killed \in SUBSET Procs
    /\ pc \in [Procs -> Places]
    /\ loc \in [Procs -> [call : Ends \union {"none"}, n : Nat, i : Nat,
                          chan : {"nread", "nwrite", "none"}]]
    /\ got \in [Procs -> Bytes \union {"start", "end", "error", "done"}]
    /\ freed \in BOOLEAN

(* The spin locks are held where the code assumes it, and by nobody else;   *)
(* nobody uses the pipe after its page went back.                           *)
LocksHeld ==
    /\ \A p \in Procs : /\ pc[p] \in Holding <=> lk = p
                        /\ pc[p] \in {"release", "sched"} <=> ptable = p
    /\ freed => \A p \in Procs : pc[p] = "user" /\ fds[p] = {}
Sound == TypeOK /\ LocksHeld

(* The bytes between the counters.                                          *)
Used == (pipe.nwrite - pipe.nread + Wrap) % Wrap
Contents == [i \in 1 .. Used |-> pipe.data[(pipe.nread + i - 1) % PIPESIZE]]

ToChannel == INSTANCE Channel WITH q <- Contents, open <- pipe.open, Size <- PIPESIZE
ImplementsChannel == ToChannel!Spec

(* No wakeup is lost: whoever sleeps while there is something for it to do  *)
(* is woken.  Kills are the exception: one that comes between the test of   *)
(* killed and sleep finds nobody asleep, and a killed write that gives up   *)
(* does not wake the readers of what it wrote.                              *)
CanGoOn(p) ==
    \/ loc[p].call = "r" /\ (~Empty \/ "w" \notin pipe.open)
    \/ loc[p].call = "w" /\ (~Full \/ "r" \notin pipe.open)
WaitersWake == \A p \in Procs : pc[p] = "asleep" /\ CanGoOn(p) 
    ~> pc[p] # "asleep" \/ \E q \in killed : got[q] = "error"
=============================================================================
