CONSTANTS
    PageSize = 12
    MaxPages = 2
    ListMax <- Max3
    Sizes = {0, 2, 9}
    Writes = {0, 4, 9}
    Bits = {TRUE}
    Clean <- MCClean
    Tolerated = {"dropped"}
SPECIFICATION Spec
CHECK_DEADLOCK FALSE
INVARIANTS
    TypeOK
    BlocksTile
    ListsAreTheFreeBlocks
    HeldBlocksIntact
