CONSTANTS
    KHEAP_BITMAP_SIZE = 6
    INIT_BYTES = 3
    PAGE_TABLE_SIZE = 16
    Frames = {16, 17, 18, 19}
    Devices <- MCDevices
    RunSizes = {1, 3, 8}
    MaxRuns = 3
SPECIFICATION HSpec
INVARIANTS
    NoFrameShared
    AvailableUnmapped
    OneStretchExact
PROPERTY FramesNeverReturn
CHECK_DEADLOCK FALSE
