CONSTANTS
    PageSize = 12
    MaxPages = 2
    ListMax <- Max3
    Sizes = {2, 9}
    Writes = {0, 4, 9}
    Bits = {TRUE}
    Clean <- MCClean
    Tolerated = {"dropped", "head", "links", "footer", "kept"}
SPECIFICATION Spec
CHECK_DEADLOCK FALSE
INVARIANTS
    NoClash
