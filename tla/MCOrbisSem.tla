----------------------------- MODULE MCOrbisSem -----------------------------
(* A small instance of OrbisSem for TLC: t1 and t2 share a priority.       *)
EXTENDS OrbisSem

CONSTANTS t1, t2, t3

TwoPriorities == [t \in Threads |-> IF t \in {t1, t2} THEN 1 ELSE 0]
=============================================================================
