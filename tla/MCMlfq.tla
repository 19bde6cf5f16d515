------------------------------ MODULE MCMlfq -------------------------------
(* Instances of Mlfq for TLC: init.c forks and waits; its first child and   *)
(* the other processes run programs of their own.  A tick of the model is   *)
(* two of the code, whose quanta are 2, 4, 6 and 8.                         *)
EXTENDS Mlfq

CONSTANTS ParentCalls, ChildCalls
MCCalls(p) == CASE p = InitProc     -> {"fork", "wait"}
                [] p = InitProc + 1 -> ParentCalls
                [] OTHER            -> ChildCalls

(* The rings of queue.c hold the sequences of the model.                    *)
Rings == INSTANCE RingQueue WITH nullptr <- NoProc
ASSUME RingsMatch == Rings!RingMatches(Procs)
=============================================================================
