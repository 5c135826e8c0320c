CONSTANTS
    Raised = {0, 14}
    MaxKeys = 3
SPECIFICATION Spec
INVARIANTS
    TakenIsPrepared
    ServiceEnds
PROPERTY
    KeysRead
CHECK_DEADLOCK FALSE
