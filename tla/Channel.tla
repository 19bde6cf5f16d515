------------------------------ MODULE Channel -------------------------------
(***************************************************************************)
(* What a pipe of xv6 promises: bytes come out once and in the order they   *)
(* went in, a read finds the end only when nothing is left and nobody can   *)
(* write, and a call fails only when it was killed or nobody can read.      *)
(* Pipe implements it.                                                      *)
(***************************************************************************)
EXTENDS Naturals, Sequences

CONSTANTS Procs, Bytes, Size

VARIABLES
    q,        \* the bytes under way
    open,     \* the ends, "r" and "w", that somebody has open
    killed,
    got       \* what each process last got: a byte, or how its call ended

vars == <<q, open, killed, got>>

Init == q = <<>> /\ open = {"r", "w"} /\ killed = {} /\ got = [p \in Procs |-> "start"]

Gets(p, x) == got' = [got EXCEPT ![p] = x]

Send == Len(q) < Size /\ (\E b \in Bytes : q' = Append(q, b)) /\ UNCHANGED <<open, killed, got>>

Receive(p) ==
    /\ q # <<>>
    /\ Gets(p, Head(q)) /\ q' = Tail(q)
    /\ UNCHANGED <<open, killed>>

End(p)  == q = <<>> /\ "w" \notin open /\ Gets(p, "end") /\ UNCHANGED <<q, open, killed>>
Fail(p) == (p \in killed \/ "r" \notin open) /\ Gets(p, "error") /\ UNCHANGED <<q, open, killed>>
Done(p) == Gets(p, "done") /\ UNCHANGED <<q, open, killed>>

Close(e) == open' = open \ {e} /\ UNCHANGED <<q, killed, got>>
Kill(p)  == killed' = killed \union {p} /\ UNCHANGED <<q, open, got>>

Next ==
    \/ Send
    \/ \E p \in Procs : Receive(p) \/ End(p) \/ Fail(p) \/ Done(p) \/ Kill(p)
    \/ \E e \in {"r", "w"} : Close(e)

Spec == Init /\ [][Next]_vars
=============================================================================
