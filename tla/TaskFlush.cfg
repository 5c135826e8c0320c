CONSTANTS
    ENTRIES = 4
    USER_SPACE_LIMIT = 1
    KERNEL_PGD_ENTRY_INDEX = 2
    Frames = {10, 11, 12, 13, 14, 15, 16, 17, 18, 19, 20, 21}
    BOOT = 1
    KERNEL_TABLES = 2
    PAGE_SIZE = 2
    STACK_SIZE = 2
    Programs <- MCPrograms
SPECIFICATION TSpec
INVARIANT FlushSuffices
CHECK_DEADLOCK FALSE
