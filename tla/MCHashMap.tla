----------------------------- MODULE MCHashMap -----------------------------
EXTENDS HashMapProperties
CONSTANTS t1, t2, t3, a, b, c, v1, v2, v3
\* a and b collide at the last slot, so that a probe wraps round to slot 0.
HashLast == [k \in Keys |-> IF k = c THEN 0 ELSE Capacity - 1]
=============================================================================
