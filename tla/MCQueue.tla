------------------------------ MODULE MCQueue ------------------------------
EXTENDS QueueProperties
CONSTANTS p1, p2, w1, w2, x1, n1, n2, n3
=============================================================================
