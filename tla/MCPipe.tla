------------------------------- MODULE MCPipe -------------------------------
(* Instances of Pipe for TLC.                                               *)
EXTENDS Pipe
CONSTANTS p1, p2, p3

(* A writer and two readers.                                                *)
MCFds == [p \in Procs |-> IF p = p1 THEN {"w"} ELSE {"r"}]
(* Bytes that tell apart what comes out of order.                           *)
MCAddr == <<"x", "y", "z">>
=============================================================================
