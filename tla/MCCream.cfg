CONSTANTS
    Main = Main
    w1 = w1
    w2 = w2
    n1 = n1
    n2 = n2
    n3 = n3
    a = a
    b = b
    v1 = v1
    v2 = v2
    v3 = v3
    NoKey = NoKey
    NoVal = NoVal
    Null = Null
    Workers = {w1, w2}
    Nodes = {n1, n2}
    Keys = {a, b}
    Values = {v1, v2, v3}
    Capacity = 2
    Hash <- HashZero
    Fds = {3, 4}
    MaxConns = 4
SPECIFICATION Spec
SYMMETRY Symmetry
CONSTRAINTS
    EachHandedOutOnce
    FewAfterOverrun
CHECK_DEADLOCK FALSE
INVARIANTS
    TypeOK
    WorkersOwnTheirDescriptors
    OneAnswerEach
    GetSendsLastPut
PROPERTIES
    RefusedOnlyInRace
    RefinesHashMap
