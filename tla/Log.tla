-------------------------------- MODULE Log ---------------------------------
(***************************************************************************)
(* The write-ahead log of Project04/xv6-public (log.c): system calls that   *)
(* change the file system run between begin_op and end_op, log_write keeps  *)
(* what they change in the buffer cache, the last end_op commits, and       *)
(* initlog recovers after a crash.                                          *)
(*                                                                         *)
(* A step is one section of log.lock or one block written to disk (bwrite   *)
(* returns when the disk has it); a crash may come after any step.  A block *)
(* is a sector, which the disk writes as a whole.                           *)
(***************************************************************************)
EXTENDS Integers, Sequences, FiniteSets

CONSTANTS
    Procs,         \* processes that make file system calls
    Blocks,        \* blocks outside the log
    FirstHome,     \* the block that follows the log on disk
    Values,        \* contents of a block
    MAXOPBLOCKS,   \* blocks begin_op reserves for a call
    LOGSIZE,       \* entries of struct logheader
    LogBlocks,     \* log.size: blocks of the log on disk, the header included
    MaxWrites,     \* blocks a call really writes
    NoBlock

ASSUME LogAssumption ==
    /\ IsFiniteSet(Procs) /\ FirstHome \in Blocks /\ NoBlock \notin Blocks /\ Values # {}
    /\ MAXOPBLOCKS \in Nat \ {0} /\ LOGSIZE \in Nat /\ MAXOPBLOCKS <= LOGSIZE
    /\ LogBlocks \in Nat \ {0} /\ MaxWrites \in Nat /\ MaxWrites <= MAXOPBLOCKS

(* What the callers owe the log: a call writes fewer blocks than it reserves, *)
(* so few that two of them fit in the log on disk, which has fewer blocks    *)
(* than struct logheader has entries (29 and 30, with 10 reserved).         *)
ASSUME CallsFit ==
    /\ MaxWrites < MAXOPBLOCKS /\ MaxWrites <= LogBlocks - 2
    /\ LOGSIZE - 2 * (MAXOPBLOCKS - MaxWrites) <= LogBlocks - 2

VARIABLES
    disk,     \* home: the blocks; slot: the data blocks of the log; head: its header
    cache,    \* what bread returns for a block: its buffer, or the disk
    dirty,    \* blocks whose buffer has B_DIRTY, which bget does not recycle
    log,      \* struct log: lh, outstanding, committing
    boot,     \* how far initlog is: at, tail
    pc, loc,  \* where each process is, with its block, tail, and the blocks it has written
    panic     \* why the kernel stopped, or "none"

vars == <<disk, cache, dirty, log, boot, pc, loc, panic>>

Slots == 0 .. LogBlocks - 2
NoLoc == [b |-> NoBlock, tail |-> 0, wrote |-> {}]
NoLog == [lh |-> <<>>, outstanding |-> 0, committing |-> FALSE]

Up == boot.at = "up" /\ panic = "none"
At(p, where) == Up /\ pc[p] = where
Goes(p, where) == pc' = [pc EXCEPT ![p] = where]

(* A wakeup on another channel.                                             *)
WokenBug(w) == w
(* wakeup(&log), in a table of places w.                                    *)
Woken(w) == [p \in Procs |-> IF w[p] = "asleep" THEN "begin" ELSE w[p]]

(* Block number tail of the log: log.start+tail+1, in the log or past it.   *)
ReadSlot(tail)     == IF tail \in Slots THEN disk.slot[tail] ELSE disk.home[FirstHome]
WriteSlot(tail, v) == disk' = IF tail \in Slots THEN [disk EXCEPT !.slot[tail] = v]
                                                ELSE [disk EXCEPT !.home[FirstHome] = v]

(* One round of install_trans: copy log block tail to its home.             *)
InstallBlock(tail) ==
    LET b == log.lh[tail + 1] IN
    /\ disk'  = [disk EXCEPT !.home[b] = ReadSlot(tail)]
    /\ cache' = [cache EXCEPT ![b] = ReadSlot(tail)]
    /\ dirty' = dirty \ {b}

Panic(msg) == panic' = msg /\ UNCHANGED <<disk, cache, dirty, log, boot, pc, loc>>

-----------------------------------------------------------------------------
(* System calls.                                                            *)

(* Definitions named ..Bug are slips the properties below catch; they are   *)
(* not part of the model.  The call that asks is not counted:               *)
FullBug == Len(log.lh) + log.outstanding * MAXOPBLOCKS > LOGSIZE
(* No room for one more call that writes MAXOPBLOCKS blocks.                *)
Full == Len(log.lh) + (log.outstanding + 1) * MAXOPBLOCKS > LOGSIZE

(* The call is let in without being counted.                                *)
BeginOpBug(p) ==
    /\ At(p, "idle") \/ At(p, "begin")
    /\ Goes(p, IF log.committing \/ Full THEN "asleep" ELSE "op")
    /\ UNCHANGED <<disk, cache, dirty, log, boot, loc, panic>>
(* begin_op, from the start or after a wakeup.                              *)
BeginOp(p) ==
    /\ At(p, "idle") \/ At(p, "begin")
    /\ IF log.committing \/ Full
       THEN Goes(p, "asleep") /\ UNCHANGED log
       ELSE Goes(p, "op") /\ log' = [log EXCEPT !.outstanding = @ + 1]
    /\ UNCHANGED <<disk, cache, dirty, boot, loc, panic>>

(* A call reads block b and changes it; nobody else may use the buffer until *)
(* brelse.  log_write then tests the log's size without log.lock.           *)
Modify(p, b, v) ==
    /\ At(p, "op")
    /\ \A q \in Procs : loc[q].b # b
    /\ b \in loc[p].wrote \/ Cardinality(loc[p].wrote) < MaxWrites
    /\ cache' = [cache EXCEPT ![b] = v]
    /\ IF Len(log.lh) >= LOGSIZE \/ Len(log.lh) >= LogBlocks - 1
       THEN panic' = "too big a transaction" /\ UNCHANGED <<pc, loc>>
       ELSE IF log.outstanding < 1
       THEN panic' = "log_write outside of trans" /\ UNCHANGED <<pc, loc>>
       ELSE /\ Goes(p, "logging")
            /\ loc' = [loc EXCEPT ![p].b = b]
            /\ UNCHANGED panic
    /\ UNCHANGED <<disk, dirty, log, boot>>

(* B_DIRTY is not set.                                                      *)
LogWriteBug(p) ==
    LET b == loc[p].b IN
    /\ At(p, "logging")
    /\ log' = IF \E i \in DOMAIN log.lh : log.lh[i] = b
              THEN log ELSE [log EXCEPT !.lh = Append(@, b)]
    /\ Goes(p, "op")
    /\ loc' = [loc EXCEPT ![p].b = NoBlock, ![p].wrote = @ \union {b}]
    /\ UNCHANGED <<disk, cache, dirty, boot, panic>>
(* The rest of log_write, and brelse: one entry per block.                  *)
LogWrite(p) ==
    LET b == loc[p].b IN
    /\ At(p, "logging")
    /\ log' = IF \E i \in DOMAIN log.lh : log.lh[i] = b
              THEN log ELSE [log EXCEPT !.lh = Append(@, b)]
    /\ dirty' = dirty \union {b}
    /\ Goes(p, "op")
    /\ loc' = [loc EXCEPT ![p].b = NoBlock, ![p].wrote = @ \union {b}]
    /\ UNCHANGED <<disk, cache, boot, panic>>

(* bget recycles the buffer of a block nobody holds and the log has not     *)
(* pinned: the next bread takes the block from disk.                        *)
Evict(b) ==
    /\ Up /\ b \notin dirty
    /\ \A q \in Procs : loc[q].b # b
    /\ cache' = [cache EXCEPT ![b] = disk.home[b]]
    /\ UNCHANGED <<disk, dirty, log, boot, pc, loc, panic>>

(* end_op up to the commit, which falls to the last call.                   *)
EndOp(p) ==
    /\ At(p, "op")
    /\ IF log.committing
       THEN Panic("log.committing")
       ELSE LET last == log.outstanding = 1 IN
            /\ log' = [log EXCEPT !.outstanding = @ - 1, !.committing = last]
            /\ pc' = IF ~last THEN Woken([pc EXCEPT ![p] = "idle"])
                     ELSE [pc EXCEPT ![p] = IF log.lh = <<>> THEN "done" ELSE "write_log"]
            /\ loc' = [loc EXCEPT ![p] = NoLoc]
            /\ UNCHANGED <<disk, cache, dirty, boot, panic>>

-----------------------------------------------------------------------------
(* commit(), by the last call, without log.lock.                            *)

WriteLog(p) ==
    /\ At(p, "write_log") /\ loc[p].tail < Len(log.lh)
    /\ WriteSlot(loc[p].tail, cache[log.lh[loc[p].tail + 1]])
    /\ loc' = [loc EXCEPT ![p].tail = @ + 1]
    /\ UNCHANGED <<cache, dirty, log, boot, pc, panic>>

(* The header may be written before the blocks it names.                    *)
WriteHeadBug(p) ==
    /\ At(p, "write_log")
    /\ disk' = [disk EXCEPT !.head = log.lh]
    /\ Goes(p, "install")
    /\ loc' = [loc EXCEPT ![p].tail = 0]
    /\ UNCHANGED <<cache, dirty, log, boot, panic>>
(* The first write_head: the true commit.                                   *)
WriteHead(p) ==
    /\ At(p, "write_log") /\ loc[p].tail = Len(log.lh)
    /\ disk' = [disk EXCEPT !.head = log.lh]
    /\ Goes(p, "install")
    /\ loc' = [loc EXCEPT ![p].tail = 0]
    /\ UNCHANGED <<cache, dirty, log, boot, panic>>

Install(p) ==
    /\ At(p, "install") /\ loc[p].tail < Len(log.lh)
    /\ InstallBlock(loc[p].tail)
    /\ loc' = [loc EXCEPT ![p].tail = @ + 1]
    /\ UNCHANGED <<log, boot, pc, panic>>

(* The second write_head erases the transaction.                            *)
ClearHead(p) ==
    /\ At(p, "install") /\ loc[p].tail = Len(log.lh)
    /\ log'  = [log EXCEPT !.lh = <<>>]
    /\ disk' = [disk EXCEPT !.head = <<>>]
    /\ Goes(p, "done")
    /\ loc' = [loc EXCEPT ![p] = NoLoc]
    /\ UNCHANGED <<cache, dirty, boot, panic>>

(* The end of end_op.                                                       *)
EndCommit(p) ==
    /\ At(p, "done")
    /\ log' = [log EXCEPT !.committing = FALSE]
    /\ pc'  = Woken([pc EXCEPT ![p] = "idle"])
    /\ UNCHANGED <<disk, cache, dirty, boot, loc, panic>>

-----------------------------------------------------------------------------
(* A crash loses memory; the first process then runs initlog alone.         *)

Crash ==
    /\ cache' = disk.home /\ dirty' = {}
    /\ log'   = NoLog
    /\ boot'  = [at |-> "read_head", tail |-> 0]
    /\ pc'    = [p \in Procs |-> "idle"]
    /\ loc'   = [p \in Procs |-> NoLoc]
    /\ panic' = "none"
    /\ UNCHANGED disk

ReadHead ==
    /\ boot.at = "read_head"
    /\ log'  = [log EXCEPT !.lh = disk.head]
    /\ boot' = [boot EXCEPT !.at = "install"]
    /\ UNCHANGED <<disk, cache, dirty, pc, loc, panic>>

RecoverInstall ==
    /\ boot.at = "install" /\ boot.tail < Len(log.lh)
    /\ InstallBlock(boot.tail)
    /\ boot' = [boot EXCEPT !.tail = @ + 1]
    /\ UNCHANGED <<log, pc, loc, panic>>

RecoverClear ==
    /\ boot.at = "install" /\ boot.tail = Len(log.lh)
    /\ log'  = [log EXCEPT !.lh = <<>>]
    /\ disk' = [disk EXCEPT !.head = <<>>]
    /\ boot' = [at |-> "up", tail |-> 0]
    /\ UNCHANGED <<cache, dirty, pc, loc, panic>>

-----------------------------------------------------------------------------
(* mkfs writes an empty log.                                                *)
Init ==
    /\ \E v \in Values, h \in [Blocks -> Values] :
          disk = [home |-> h, slot |-> [i \in Slots |-> v], head |-> <<>>]
    /\ cache = disk.home /\ dirty = {}
    /\ log = NoLog
    /\ boot = [at |-> "read_head", tail |-> 0]
    /\ pc = [p \in Procs |-> "idle"]
    /\ loc = [p \in Procs |-> NoLoc]
    /\ panic = "none"

Next ==
    \/ \E p \in Procs :
        \/ BeginOp(p) \/ LogWrite(p) \/ EndOp(p)
        \/ WriteLog(p) \/ WriteHead(p) \/ Install(p) \/ ClearHead(p) \/ EndCommit(p)
        \/ \E b \in Blocks, v \in Values : Modify(p, b, v)
    \/ \E b \in Blocks : Evict(b)
    \/ Crash \/ ReadHead \/ RecoverInstall \/ RecoverClear

Spec == Init /\ [][Next]_vars

(* What a call does next, once it runs.  A call makes finitely many writes, *)
(* so end_op comes (SF); the other steps wait for nobody.                   *)
Proceeds(p) ==
    \/ pc[p] = "begin" /\ BeginOp(p)
    \/ LogWrite(p) \/ WriteLog(p) \/ WriteHead(p) \/ Install(p) \/ ClearHead(p) \/ EndCommit(p)

FairSpec == Spec /\ \A p \in Procs : WF_vars(Proceeds(p)) /\ SF_vars(EndOp(p))

-----------------------------------------------------------------------------
(* Properties.                                                              *)

Places == {"idle", "begin", "asleep", "op", "logging", "write_log", "install", "done"}
InCall(p) == pc[p] \in {"op", "logging"}
Commits(p) == pc[p] \in {"write_log", "install", "done"}
Logged == {log.lh[i] : i \in DOMAIN log.lh}

TypeOK ==
    /\ disk \in [home : [Blocks -> Values], slot : [Slots -> Values], head : Seq(Blocks)]
    /\ cache \in [Blocks -> Values] /\ dirty \in SUBSET Blocks
    /\ log \in [lh : Seq(Blocks), outstanding : Nat, committing : BOOLEAN]
    /\ boot \in [at : {"read_head", "install", "up"}, tail : Nat]
    /\ pc \in [Procs -> Places]
    /\ loc \in [Procs -> [b : Blocks \union {NoBlock}, tail : Nat, wrote : SUBSET Blocks]]
    /\ panic \in {"none", "too big a transaction", "log_write outside of trans", "log.committing"}

(* The admission test of begin_op leaves room for every write of every call *)
(* it lets in: log_write does not panic, and commit never writes past the   *)
(* log into the inode blocks behind it.                                     *)
LogHasRoom == panic = "none" /\ Len(log.lh) < LogBlocks /\ Len(disk.head) < LogBlocks

(* A buffer is pinned in the cache from log_write until its block is        *)
(* installed, and no longer: bget would lose the change before, and run out *)
(* of buffers after.                                                        *)
PinnedWhileLogged ==
    Up => \A b \in Blocks :
        b \in dirty <=> \E i \in DOMAIN log.lh :
            log.lh[i] = b /\ \A p \in Procs : pc[p] = "install" => loc[p].tail < i

(* A call that sleeps in begin_op is one that somebody will wake: a commit  *)
(* is under way or a call is still in progress.                             *)
SleepersHaveWaker ==
    Up /\ (\E p \in Procs : pc[p] = "asleep") =>
        (\E p \in Procs : InCall(p)) \/ (\E p \in Procs : Commits(p))

(* The disk a crash at this moment would leave after recovery.              *)
Recovered ==
    [b \in Blocks |->
        LET at == {i \in DOMAIN disk.head : disk.head[i] = b} IN
        IF at = {} THEN disk.home[b] ELSE ReadSlot((CHOOSE i \in at : TRUE) - 1)]

(* The log makes overlapping calls atomic across crashes at any block       *)
(* write, also during recovery.                                             *)
Atomic == INSTANCE AtomicDisk WITH
    disk <- Recovered,
    mem  <- IF boot.at = "up" THEN cache ELSE Recovered,
    open <- {p \in Procs : InCall(p)}
ImplementsAtomicDisk == Atomic!Spec

(* Whoever sleeps in begin_op is woken.                                     *)
SleepersWake == \A p \in Procs : pc[p] = "asleep" ~> pc[p] # "asleep"
=============================================================================
