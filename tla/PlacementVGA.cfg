CONSTANTS
    FontHeight = 16
    Slack = 8
    Border = 3
    Margin = 16
    Xres = 640
    Yres = 480
    MaxLines = 10
    Widths <- VGAWidths
    CursorXs <- VGACursorXs
    CursorYs <- VGACursorYs
SPECIFICATION Spec
INVARIANT OnScreen
CHECK_DEADLOCK FALSE
