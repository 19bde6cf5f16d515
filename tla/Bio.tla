-------------------------------- MODULE Bio ---------------------------------
(***************************************************************************)
(* The buffer cache of Project04/xv6-public (bio.c) over the IDE driver     *)
(* (ide.c), with the sleep locks of the buffers (sleeplock.c): bget, bread, *)
(* bwrite, brelse, log_write's pin, iderw and the interrupt handler.        *)
(*                                                                         *)
(* A step is one section of bcache.lock, of a sleep lock's spin lock or of  *)
(* idelock.  A process uses one buffer at a time; the log pins at most      *)
(* MaxPinned blocks.  bget takes the least recently used of the unused      *)
(* buffers; here it takes any of them, so nothing depends on the order of   *)
(* the list.                                                                *)
(***************************************************************************)
EXTENDS Integers, FiniteSets, Sequences

CONSTANTS
    Procs, NoProc,
    NBUF,          \* buffers of bcache
    Blocks, NoBlock,
    Written,       \* bound: the blocks that are written
    Values,        \* contents of a block
    Disk0,         \* bound: what is on the disk at first
    Garbage,       \* what a buffer holds before it is read
    MaxPinned      \* blocks the log pins at a time

Bufs  == 1 .. NBUF
NoBuf == 0

ASSUME BioAssumption ==
    /\ NBUF \in Nat /\ MaxPinned \in Nat /\ IsFiniteSet(Procs)
    /\ NoProc \notin Procs /\ NoBlock \notin Blocks /\ Written \subseteq Blocks /\ Disk0 \in [Blocks -> Values] /\ Garbage \notin Values

VARIABLES
    buf,         \* the buffers: blockno, the flags valid and dirty, refcnt, data
    lock,        \* b->lock: who holds it
    idequeue,    \* buffers that wait for the disk, the first one being served
    ide,         \* the request idestart gave the controller
    disk,
    pc, at,      \* where each process is, and its buffer
    panic

cache == <<buf, lock>>
drive == <<idequeue, ide, disk>>
vars  == <<cache, drive, pc, at, panic>>

NoRequest == [block |-> NoBlock, write |-> FALSE, data |-> Garbage]

In(p, where) == panic = "none" /\ pc[p] = where
Goes(p, where) == pc' = [pc EXCEPT ![p] = where]
(* wakeup: sleepers at where on buffer b, in the table of places w.         *)
Wakeup(w, b, where, to) ==
    [q \in Procs |-> IF pc[q] = where /\ at[q] = b THEN to ELSE w[q]]

-----------------------------------------------------------------------------
(* bio.c                                                                    *)

Cached(k) == {b \in Bufs : buf[b].block = k}
(* Buffer b for block k, with one process that wants it.                    *)
Recycled(b, k) == [block |-> k, valid |-> FALSE, dirty |-> FALSE, refcnt |-> 1, data |-> buf[b].data]

(* Definitions named ..Bug are slips the properties below catch; they are   *)
(* not part of the model.  A pinned buffer is recycled:                     *)
UnusedBug == {b \in Bufs : buf[b].refcnt = 0}
(* Buffers bget may recycle: B_DIRTY says that the log has changed the block *)
(* and not yet written it.                                                  *)
Unused == {b \in Bufs : buf[b].refcnt = 0 /\ ~buf[b].dirty}

(* bget under bcache.lock: the buffer of block k, or a recycled one.        *)
Bget(p, k) ==
    /\ In(p, "out")
    /\ IF Cached(k) = {} /\ Unused = {}
       THEN panic' = "bget: no buffers" /\ UNCHANGED <<buf, pc, at>>
       ELSE \E b \in IF Cached(k) = {} THEN Unused ELSE Cached(k) :
              /\ buf' = [buf EXCEPT ![b] = IF Cached(k) = {} THEN Recycled(b, k)
                                           ELSE [buf[b] EXCEPT !.refcnt = buf[b].refcnt + 1]]
              /\ at'  = [at EXCEPT ![p] = b]
              /\ Goes(p, "lock") /\ UNCHANGED panic
    /\ UNCHANGED <<lock, drive>>

(* One round of acquiresleep's loop.                                        *)
Acquiresleep(p) ==
    LET b == at[p] IN
    /\ In(p, "lock")
    /\ IF lock[b] = NoProc
       THEN lock' = [lock EXCEPT ![b] = p] /\ Goes(p, "locked")
       ELSE Goes(p, "asleep") /\ UNCHANGED lock
    /\ UNCHANGED <<buf, drive, at, panic>>

-----------------------------------------------------------------------------
(* ide.c                                                                    *)

(* idestart: a write hands its data over here.                              *)
Idestart(c, b) == [block |-> c[b].block, write |-> c[b].dirty,
                   data  |-> IF c[b].dirty THEN c[b].data ELSE Garbage]

(* iderw, with the buffers c: queue b, start an idle disk, and sleep until  *)
(* b is in step with the disk.                                              *)
Iderw(p, c) ==
    LET b == at[p] IN
    /\ idequeue' = Append(idequeue, b)
    /\ ide' = IF idequeue = <<>> THEN Idestart(c, b) ELSE ide
    /\ Goes(p, "io")
    /\ UNCHANGED disk

(* The loop of iderw after a wakeup.                                        *)
Iowoken(p) ==
    /\ In(p, "iowoken")
    /\ Goes(p, IF buf[at[p]].valid /\ ~buf[at[p]].dirty THEN "held" ELSE "io")
    /\ UNCHANGED <<cache, drive, at, panic>>

(* The disk is not started on the next buffer.                              *)
IdeintrBug ==
    LET b == Head(idequeue) IN
    /\ panic = "none" /\ ide # NoRequest
    /\ disk' = IF ide.write THEN [disk EXCEPT ![ide.block] = ide.data] ELSE disk
    /\ buf' = [buf EXCEPT ![b].valid = TRUE, ![b].dirty = FALSE,
                          ![b].data = IF buf[b].dirty THEN @ ELSE disk'[ide.block]]
    /\ idequeue' = Tail(idequeue)
    /\ ide' = NoRequest
    /\ pc' = Wakeup(pc, b, "io", "iowoken")
    /\ UNCHANGED <<lock, at, panic>>
(* The disk has carried out the request; ideintr takes the first buffer off *)
(* the queue, reads the data if needed, and starts the next one.  The disk  *)
(* does not fail: after an error the code sets B_VALID on what it did not   *)
(* read, and that path is left out.                                         *)
Ideintr ==
    LET b == Head(idequeue) IN
    /\ panic = "none" /\ ide # NoRequest
    /\ disk' = IF ide.write THEN [disk EXCEPT ![ide.block] = ide.data] ELSE disk
    /\ buf' = [buf EXCEPT ![b].valid = TRUE, ![b].dirty = FALSE,
                          ![b].data = IF buf[b].dirty THEN @ ELSE disk'[ide.block]]
    /\ idequeue' = Tail(idequeue)
    /\ ide' = IF idequeue' = <<>> THEN NoRequest ELSE Idestart(buf', Head(idequeue'))
    /\ pc' = Wakeup(pc, b, "io", "iowoken")
    /\ UNCHANGED <<lock, at, panic>>

-----------------------------------------------------------------------------
(* The rest of bio.c, and log_write.                                        *)

(* bread: read a buffer that is not valid.                                  *)
Bread(p) ==
    /\ In(p, "locked")
    /\ IF buf[at[p]].valid
       THEN Goes(p, "held") /\ UNCHANGED drive
       ELSE Iderw(p, buf)
    /\ UNCHANGED <<cache, at, panic>>

(* A process changes its buffer and writes it through ...                   *)
Bwrite(p, v) ==
    LET c == [buf EXCEPT ![at[p]].data = v, ![at[p]].dirty = TRUE] IN
    /\ In(p, "held") /\ buf[at[p]].block \in Written
    /\ buf' = c /\ Iderw(p, c)
    /\ UNCHANGED <<lock, at, panic>>

(* ... or leaves it to the log, which keeps it from being recycled until    *)
(* somebody writes it.                                                      *)
LogWrite(p, v) ==
    LET b == at[p] IN
    /\ In(p, "held") /\ buf[b].block \in Written
    /\ buf[b].dirty \/ Cardinality({c \in Bufs : buf[c].dirty}) < MaxPinned
    /\ buf' = [buf EXCEPT ![b].data = v, ![b].dirty = TRUE]
    /\ UNCHANGED <<lock, drive, pc, at, panic>>

(* The count goes down here already.                                        *)
ReleasesleepBug(p) ==
    /\ In(p, "held")
    /\ lock' = [lock EXCEPT ![at[p]] = NoProc]
    /\ buf' = [buf EXCEPT ![at[p]].refcnt = @ - 1]
    /\ pc' = Wakeup([pc EXCEPT ![p] = "unlocked"], at[p], "asleep", "lock")
    /\ UNCHANGED <<drive, at, panic>>
(* brelse: releasesleep ...                                                 *)
Releasesleep(p) ==
    /\ In(p, "held")
    /\ lock' = [lock EXCEPT ![at[p]] = NoProc]
    /\ pc' = Wakeup([pc EXCEPT ![p] = "unlocked"], at[p], "asleep", "lock")
    /\ UNCHANGED <<buf, drive, at, panic>>

(* Whoever waits for the buffer is not counted any more.                    *)
BrelseBug(p) ==
    LET b == at[p] IN
    /\ In(p, "unlocked")
    /\ buf' = [buf EXCEPT ![b].refcnt = 0]
    /\ at'  = [at EXCEPT ![p] = NoBuf]
    /\ Goes(p, "out") /\ UNCHANGED <<lock, drive, panic>>
(* ... and the rest under bcache.lock.                                      *)
Brelse(p) ==
    LET b == at[p] IN
    /\ In(p, "unlocked")
    /\ buf' = [buf EXCEPT ![b].refcnt = @ - 1]
    /\ at'  = [at EXCEPT ![p] = NoBuf]
    /\ Goes(p, "out") /\ UNCHANGED <<lock, drive, panic>>

-----------------------------------------------------------------------------
(* binit.                                                                   *)
Init ==
    /\ buf = [b \in Bufs |-> [block |-> NoBlock, valid |-> FALSE, dirty |-> FALSE,
                              refcnt |-> 0, data |-> Garbage]]
    /\ lock = [b \in Bufs |-> NoProc]
    /\ idequeue = <<>> /\ ide = NoRequest
    /\ disk = Disk0
    /\ pc = [p \in Procs |-> "out"]
    /\ at = [p \in Procs |-> NoBuf]
    /\ panic = "none"

Step(p) ==
    \/ Acquiresleep(p) \/ Bread(p) \/ Iowoken(p) \/ Releasesleep(p) \/ Brelse(p)

Next ==
    \/ \E p \in Procs :
        \/ Step(p)
        \/ \E k \in Blocks : Bget(p, k)
        \/ \E v \in Values : Bwrite(p, v) \/ LogWrite(p, v)
    \/ Ideintr

Spec == Init /\ [][Next]_vars

(* The disk answers, and a process that was woken runs.                     *)
FairSpec == Spec /\ WF_vars(Ideintr) /\ \A p \in Procs : WF_vars(Iowoken(p))

-----------------------------------------------------------------------------
(* Properties.                                                              *)

Places == {"out", "lock", "asleep", "locked", "io", "iowoken", "held", "unlocked"}
TypeOK ==
    /\ buf \in [Bufs -> [block : Blocks \union {NoBlock}, valid : BOOLEAN, dirty : BOOLEAN,
                         refcnt : Nat, data : Values \union {Garbage}]]
    /\ lock \in [Bufs -> Procs \union {NoProc}]
    /\ idequeue \in Seq(Bufs)
    /\ ide \in [block : Blocks \union {NoBlock}, write : BOOLEAN, data : Values \union {Garbage}]
    /\ disk \in [Blocks -> Values]
    /\ pc \in [Procs -> Places] /\ at \in [Procs -> Bufs \union {NoBuf}]
    /\ panic \in {"none", "bget: no buffers"}

(* A block is in one buffer; counts are exact, so a buffer is recycled only *)
(* when nobody has it or waits for it; the disk serves the first of the     *)
(* buffers whose holders wait for it.  With few buffers bget may panic.     *)
CacheExact ==
    /\ \A b, c \in Bufs : b # c => buf[b].block # buf[c].block \/ buf[b].block = NoBlock
    /\ \A b \in Bufs : buf[b].refcnt = Cardinality({p \in Procs : at[p] = b})
    /\ \A i, j \in DOMAIN idequeue : i # j => idequeue[i] # idequeue[j]
    /\ {idequeue[i] : i \in DOMAIN idequeue} = {at[p] : p \in {q \in Procs : pc[q] = "io"}}
    /\ IF idequeue = <<>> THEN ide = NoRequest ELSE ide = Idestart(buf, Head(idequeue))

(* Every process finds in a block what the last one left there, although    *)
(* buffers are recycled and written later.                                  *)
InUse(p, b) == lock[b] = p /\ buf[b].valid
Mem == [k \in Blocks |->
    IF \E b \in Cached(k) : buf[b].valid
    THEN buf[CHOOSE b \in Cached(k) : TRUE].data ELSE disk[k]]
Holder == [k \in Blocks |->
    IF \E p \in Procs, b \in Cached(k) : InUse(p, b)
    THEN CHOOSE p \in Procs : \E b \in Cached(k) : InUse(p, b) ELSE NoProc]
Store == INSTANCE BlockStore WITH mem <- Mem, holder <- Holder
ImplementsBlockStore == Store!Spec

(* When bget cannot panic: a buffer for each process and each pinned block. *)
(* The code's constants do not give this (param.h: NBUF is 30, NPROC 64, and *)
(* the log pins up to 29 blocks), so only what names it rests on it.        *)
EnoughBuffers == NBUF >= Cardinality(Procs) + MaxPinned

(* Whoever waits for the disk gets its block, unless the kernel panics; the *)
(* instance has EnoughBuffers, so it does not.                              *)
IoCompletes == \A p \in Procs : pc[p] = "io" ~> pc[p] = "held"
=============================================================================
