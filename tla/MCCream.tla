------------------------------ MODULE MCCream ------------------------------
EXTENDS CreamProperties, TLC
CONSTANTS w1, w2, n1, n2, n3, a, b, v1, v2, v3
\* Bound: once memory was overwritten, all but the last connection are followed.
FewAfterOverrun == overrun => made < MaxConns
\* Every key is looked for at slot 0 first.
HashZero == [k \in Keys |-> 0]
Symmetry == Permutations(Workers) \cup Permutations(Nodes) \cup Permutations(Keys)
            \cup Permutations(Values)
=============================================================================
