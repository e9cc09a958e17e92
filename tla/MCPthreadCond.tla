--------------------------- MODULE MCPthreadCond ---------------------------
(* Small instances of PthreadCond for TLC.                                 *)
EXTENDS PthreadCond, TLC

CONSTANTS t1, t2, t3, m1, c1

AllRecursive == [m \in Mutexes |-> "Recursive"]
AllNormal == [m \in Mutexes |-> "Normal"]
Symmetry == Permutations(Threads)
=============================================================================
