CONSTANTS
    PAGE_SIZE = 4
    WORD = 24
    ENTRY_SIZE = 2
    Tables <- MCTables
    Behind <- MCBehind
    LOW_END = 2
    KERNEL_END = 3
    VGA <- MCVGA
    Ramdisks <- MCRamdisks
    KHEAP_BITMAP_SIZE = 4
    INIT_BYTES = 3
    PAGE_TABLE_SIZE = 16
    Frames = {1, 2, 3, 4, 5}
    Devices = {}
    RunSizes = {2}
    MaxRuns = 4
SPECIFICATION BSpec
INVARIANTS
    MarkedExactly
    PanicOnlyAtTop
    RamdiskKept
CHECK_DEADLOCK FALSE
