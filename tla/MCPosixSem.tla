----------------------------- MODULE MCPosixSem -----------------------------
(* A small instance of PosixSem for TLC.                                   *)
EXTENDS PosixSem, TLC

CONSTANTS t1, t2, t3

Symmetry == Permutations(Threads)
=============================================================================
