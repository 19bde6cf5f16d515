---------------------------- MODULE AtomicDisk -----------------------------
(***************************************************************************)
(* What the log of xv6 promises to the file system: a disk whose blocks    *)
(* change in groups.  Calls that overlap form a group; a group is on disk  *)
(* as a whole before the next one starts, and a crash loses all of the     *)
(* group in progress and nothing of the earlier ones.  Log implements it.  *)
(***************************************************************************)
CONSTANTS Procs, Blocks, Values

VARIABLES
    disk,    \* the blocks that survive a crash
    mem,     \* the blocks as calls see them
    open     \* the calls in progress

vars == <<disk, mem, open>>

Init == disk \in [Blocks -> Values] /\ mem = disk /\ open = {}

(* A call joins the group in progress, or starts one when the last is safe.  *)
Begin(p) ==
    /\ p \notin open
    /\ open # {} \/ disk = mem
    /\ open' = open \union {p}
    /\ UNCHANGED <<disk, mem>>

Write(p) ==
    /\ p \in open
    /\ \E b \in Blocks, v \in Values : mem' = [mem EXCEPT ![b] = v]
    /\ UNCHANGED <<disk, open>>

End(p) == p \in open /\ open' = open \ {p} /\ UNCHANGED <<disk, mem>>

Commit == open = {} /\ disk' = mem /\ UNCHANGED <<mem, open>>

Crash == mem' = disk /\ open' = {} /\ UNCHANGED disk

Next ==
    \/ \E p \in Procs : Begin(p) \/ Write(p) \/ End(p)
    \/ Commit
    \/ Crash

Spec == Init /\ [][Next]_vars
=============================================================================
