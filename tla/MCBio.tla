------------------------------- MODULE MCBio --------------------------------
(* Instances of Bio for TLC.                                                *)
EXTENDS Bio
CONSTANTS k1, k2, k3, k4, v1, v2

MCDisk0 == [k \in Blocks |-> IF k = k4 THEN v2 ELSE v1]
=============================================================================
