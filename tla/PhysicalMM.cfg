CONSTANTS
    BITMAP_SIZE = 3
    LOW_END = 3
    KERNEL_START = 4
    KERNEL_END = 10
    RamMaps <- MCRamMaps
    RegionBounds <- MCRegionBounds
    LowBits = {0, 3}
SPECIFICATION Spec
INVARIANTS
    TypeOK
    Accounting
    HandedOut
    FlagSound
PROPERTY ImplementsAllocator
