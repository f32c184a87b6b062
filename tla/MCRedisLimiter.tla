--------------------------- MODULE MCRedisLimiter ---------------------------
(* Instances of RedisLimiter for TLC: two callers on two replicas.         *)
EXTENDS RedisLimiter

CONSTANTS c1, c2, alice

OneLimit == [k \in Keys |-> 2]
AheadByOne == [c \in Callers |-> IF c = c1 THEN 1 ELSE 0]
=============================================================================
