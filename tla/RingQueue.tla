------------------------------ MODULE RingQueue ------------------------------
(***************************************************************************)
(* The process queues of Project02/xv6-public (queue.c): a ring of NPROC+1  *)
(* cells, of which the one at back is always free.  Mlfq has sequences in   *)
(* their place; RingMatches says that they are what the rings hold.  An     *)
(* operation is a function from a struct proc_queue to a struct proc_queue. *)
(***************************************************************************)
EXTENDS Integers, Sequences, SequencesExt

CONSTANTS NPROC, nullptr

SZ == NPROC + 1
Cells == 0 .. NPROC
nxt(i) == (i + 1) % SZ
prv(i) == (i + SZ - 1) % SZ

EmptyRing == [queue |-> [i \in Cells |-> nullptr], front |-> 0, back |-> 0]

ring_empty(q) == q.front = q.back
(* How far cell i is from cell f.                                           *)
Dist(f, i) == (i - f + SZ) % SZ
ring_size(q) == Dist(q.front, q.back)
(* The cells a loop from cell i to back visits.                             *)
Visited(q, i) == {j \in Cells : Dist(i, j) < Dist(i, q.back)}
ring_exist(q, p) == \E i \in Visited(q, q.front) : q.queue[i] = p

ring_pop(q) == [q EXCEPT !.queue[q.front] = nullptr, !.front = nxt(@)]

(* The second loop moves every cell from index on one down, and empties the *)
(* one after the last.                                                      *)
CloseGap(q, index) ==
    [q EXCEPT !.queue = [i \in Cells |->
                            IF i = q.back THEN nullptr
                            ELSE IF i \in Visited(q, index) THEN q.queue[nxt(i)]
                            ELSE q.queue[i]],
              !.back = prv(@)]
ring_remove(q, p) ==
    IF ~ring_exist(q, p) THEN q
    ELSE CloseGap(q, CHOOSE i \in Visited(q, q.front) : q.queue[i] = p)

ring_push(q, p) ==
    LET r == IF ring_exist(q, p) THEN ring_remove(q, p) ELSE q IN
    [r EXCEPT !.queue[r.back] = p, !.back = nxt(@)]

ring_front(q) == IF ring_empty(q) THEN nullptr ELSE q.queue[q.front]

-----------------------------------------------------------------------------
(* The sequence a ring holds, and the ring that holds s from cell f on.     *)
Contents(q) == [k \in 1 .. ring_size(q) |-> q.queue[(q.front + k - 1) % SZ]]
RingAt(f, s) ==
    [queue |-> [i \in Cells |-> IF Dist(f, i) < Len(s) THEN s[Dist(f, i) + 1] ELSE nullptr],
     front |-> f, back |-> (f + Len(s)) % SZ]

(* On every ring without duplicates, wherever it starts and however full it *)
(* is, the operations of queue.c do to the contents what Mlfq does to its   *)
(* sequences, and leave a ring that a program can build: free cells are     *)
(* null, and a full ring is not taken for an empty one.                     *)
RingMatches(Elems) ==
    \A n \in 0 .. NPROC : \A s \in {t \in [1 .. n -> Elems] : IsInjective(t)}, f \in Cells :
        LET q == RingAt(f, s)
            Holds(r, t) == \E g \in Cells : r = RingAt(g, t) /\ Contents(r) = t IN
        /\ Holds(q, s) /\ Contents(q) = s
        /\ ring_empty(q) <=> s = <<>>
        /\ s # <<>> => Holds(ring_pop(q), Tail(s)) /\ ring_front(q) = Head(s)
        /\ \A p \in Elems :
              /\ ring_exist(q, p) <=> Contains(s, p)
              /\ Holds(ring_remove(q, p), RemoveFirst(s, p))
              /\ Holds(ring_push(q, p), Append(RemoveFirst(s, p), p))
=============================================================================
