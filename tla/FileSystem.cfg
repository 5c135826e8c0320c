CONSTANTS
    MaxNodes = 3
    Elements = {"mount_points", "child"}
    WORD = 6
    Inodes <- MCInodes
    Paths <- MCPaths
    Modes <- MCModes
    Handles = {1, 2}
SPECIFICATION Spec
INVARIANTS
    ModesHonoured
    ReadsExact
    ReadsInFile
    NoLeak
    ContentsRight
    NoDanglingNode
    IteratorInPlace
CHECK_DEADLOCK FALSE
