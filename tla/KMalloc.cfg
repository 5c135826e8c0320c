CONSTANTS
    PAGE_UNITS = 5
    SUPPLY = 2
    Requests = {1, 2, 3, 6}
    MaxLive = 3
SPECIFICATION KSpec
INVARIANTS
    KTypeOK
    FreeListEnds
    BlocksInHeap
    OwnersApart
PROPERTIES
    HeaderStable
    KmallocReturns
CHECK_DEADLOCK FALSE
