------------------------------ MODULE MCMemory ------------------------------
(* Instance of Memory for TLC.                                             *)
EXTENDS Memory, TLC

CONSTANTS m1, m2

\* Nothing tells the mappers apart.
Symmetry == Permutations(Mappers)

\* Bounds: calls of MapMemory for flexible memory overlap only while all direct memory is
\* free, and direct memory mapped twice is not explored beside flexible memory.
Explored ==
    /\ Dma(mm, Direct, {"Free"}) = Direct \/ Cardinality({t \in Mappers : calls[t] # Idle}) <= 1
    /\ mm.aliased => /\ Typed(mm, Virtual, {"Flexible"}) = {}
                     /\ \A t \in Mappers : calls[t] = Idle
=============================================================================
