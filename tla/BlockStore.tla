----------------------------- MODULE BlockStore -----------------------------
(***************************************************************************)
(* What the buffer cache promises: the blocks of the disk, each used by one *)
(* process at a time, which finds what was last put into it.  Bio           *)
(* implements it.                                                           *)
(***************************************************************************)
CONSTANTS Procs, NoProc, Blocks, Values

VARIABLES
    mem,      \* the contents of each block
    holder    \* who uses it

vars == <<mem, holder>>

Init == mem \in [Blocks -> Values] /\ holder = [k \in Blocks |-> NoProc]

Get(p, k) ==
    /\ holder[k] = NoProc
    /\ holder' = [holder EXCEPT ![k] = p]
    /\ UNCHANGED mem

Put(p, k, v) ==
    /\ holder[k] = p
    /\ mem' = [mem EXCEPT ![k] = v]
    /\ UNCHANGED holder

Release(p, k) ==
    /\ holder[k] = p
    /\ holder' = [holder EXCEPT ![k] = NoProc]
    /\ UNCHANGED mem

Next == \E p \in Procs, k \in Blocks :
    Get(p, k) \/ Release(p, k) \/ \E v \in Values : Put(p, k, v)

Spec == Init /\ [][Next]_vars
=============================================================================
