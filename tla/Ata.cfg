CONSTANTS
    WORDS = 2
    COUNT_VALUES = 3
    LBA_LIMIT = 8
    CAPACITY = 4
    Machines <- MCMachines
    Requests <- MCRequests
    MaxRequests = 2
SPECIFICATION Spec
INVARIANTS
    DrivesFound
    ReadExact
    OthersUntouched
    FirstSectorProvided
PROPERTY
    CallsEnd
CHECK_DEADLOCK FALSE
