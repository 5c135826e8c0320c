CONSTANTS
    SCREEN_COLS = 6
    SCREEN_ROWS = 4
    MAPPED = 41
    Keys = {"backspace", "char", "newline", "tab"}
    Output = {"char", "newline", "tab"}
    MaxBurst = 1
SPECIFICATION CSpec
INVARIANTS
    CursorWithinLimits
    WritesInBuffer
CHECK_DEADLOCK FALSE
