--------------------------- MODULE MCMemoryLimiter ---------------------------
(* Instances of MemoryLimiter, with the history of MemoryBudget, for TLC. *)
EXTENDS MemoryBudget, TLC

CONSTANTS alice, t1, t2

OneLimit == [k \in Keys |-> 2]
EitherWay == {1, -1}
ThreadSymmetry == Permutations(Threads)
=============================================================================
