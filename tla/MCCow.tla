------------------------------- MODULE MCCow -------------------------------
(* Instances of Cow for TLC: pages are numbers and kalloc takes the lowest   *)
(* free one, which is every order of the free list up to renaming of pages.  *)
EXTENDS Cow, TLC

CONSTANTS NPages, Others
MCPages == 1 .. NPages
MCNoPage == 0
MCTop(S) == {g \in S : \A h \in S : g <= h}
MCProcs == {InitProc} \union Others

(* The slots other than initproc's are interchangeable.                      *)
Slots == Permutations(Others)
=============================================================================
