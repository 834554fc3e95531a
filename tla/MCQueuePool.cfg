CONSTANTS
    p1 = p1
    p2 = p2
    w1 = w1
    w2 = w2
    x1 = x1
    n1 = n1
    n2 = n2
    n3 = n3
    Producers = {p1, p2}
    Consumers = {w1, w2}
    Closers = {}
    Nodes = {n1, n2, n3}
    MaxItems = 4
    Null = Null
SPECIFICATION Spec
CHECK_DEADLOCK FALSE
INVARIANT AtMostOnce
