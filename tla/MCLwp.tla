------------------------------- MODULE MCLwp --------------------------------
(* Instances of Lwp for TLC: init forks and waits; the first child and the  *)
(* other slots run programs of their own.                                   *)
EXTENDS Lwp

CONSTANTS ChildCalls, OtherCalls
MCCalls(p) == CASE p = InitProc     -> {"fork", "wait"}
                [] p = InitProc + 1 -> ChildCalls
                [] OTHER            -> OtherCalls
=============================================================================
