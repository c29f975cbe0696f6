----------------------------- MODULE MCCpuThread -----------------------------
(* Constants of the CpuThread runs that a .cfg cannot express: every vector *)
(* of the table leads to the same handler, except that of an illegal         *)
(* instruction.                                                              *)
EXTENDS CpuThread

HandlerVector == [id \in 0 .. 127 |-> IF id = IllegalId THEN 4 ELSE 2]
=============================================================================
