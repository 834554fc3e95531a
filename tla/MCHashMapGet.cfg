CONSTANTS
    t1 = t1
    t2 = t2
    t3 = t3
    a = a
    b = b
    c = c
    v1 = v1
    v2 = v2
    v3 = v3
    NoKey = NoKey
    NoVal = NoVal
    Threads = {t1, t2}
    Keys = {a, b, c}
    Values = {v1, v2, v3}
    Capacity = 2
    Hash <- HashLast
SPECIFICATION Spec
CHECK_DEADLOCK FALSE
PROPERTIES
    GetAnswersItsKey
