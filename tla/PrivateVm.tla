----------------------------- MODULE PrivateVm -----------------------------
(***************************************************************************)
(* What the virtual memory of Project04/xv6-public promises to programs:    *)
(* every process has an address space of its own.  fork gives the child a   *)
(* copy of all of it at once, a store changes one page of one process, and  *)
(* sbrk, exec and exit concern nobody else.  Neither sharing, reference     *)
(* counts nor faults exist here; Cow is shown to implement this module.     *)
(***************************************************************************)
EXTENDS Integers

CONSTANTS Procs, MaxSz, Vals, Zero

VARIABLE image    \* image[p][v]: the page at v and whether the user may touch it

Page   == [val : Vals, user : BOOLEAN]
None   == [v \in {} |-> Zero]
Images == UNION {[0 .. n - 1 -> Page] : n \in 1 .. MaxSz}
Alive(p) == image[p] # None
Fresh  == [val |-> Zero, user |-> TRUE]

Init == image = [p \in Procs |-> None]

(* The first process starts with one page of initcode.                       *)
Boot(p) ==
    /\ \A q \in Procs : ~Alive(q)
    /\ \E x \in Vals : image' = [image EXCEPT ![p] = [v \in {0} |-> [val |-> x, user |-> TRUE]]]

Store(p) ==
    \E v \in DOMAIN image[p], x \in Vals :
        image[p][v].user /\ image' = [image EXCEPT ![p][v].val = x]

Fork(p, c) == Alive(p) /\ ~Alive(c) /\ image' = [image EXCEPT ![c] = image[p]]

(* sbrk succeeds as a whole or changes nothing.                              *)
Resize(p) ==
    /\ Alive(p)
    /\ \E n \in 1 .. MaxSz :
        image' = [image EXCEPT ![p] =
                    [v \in 0 .. n - 1 |-> IF v \in DOMAIN @ THEN @[v] ELSE Fresh]]

Exec(p) == Alive(p) /\ \E new \in Images : image' = [image EXCEPT ![p] = new]
Exit(p) == Alive(p) /\ image' = [image EXCEPT ![p] = None]

Next == \E p \in Procs :
    \/ Boot(p) \/ Store(p) \/ Resize(p) \/ Exec(p) \/ Exit(p)
    \/ \E c \in Procs : Fork(p, c)

Spec == Init /\ [][Next]_image
=============================================================================
