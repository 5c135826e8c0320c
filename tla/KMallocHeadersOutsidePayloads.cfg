CONSTANTS
    PAGE_UNITS = 5
    SUPPLY = 2
    Requests = {1, 2, 3}
    MaxLive = 3
SPECIFICATION KSpec
INVARIANT HeadersOutsidePayloads
CHECK_DEADLOCK FALSE
