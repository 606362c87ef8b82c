CONSTANTS
    FontHeight = 4
    Slack = 2
    Border = 1
    Margin = 4
    Xres = 40
    Yres = 59
    MaxLines = 2
    Widths <- MCWidths
    CursorXs <- MCCursorXs
    CursorYs <- MCCursorYs
SPECIFICATION Spec
INVARIANTS Disjoint CursorLineFree CommonColumn RoomyOnScreen
CHECK_DEADLOCK FALSE
