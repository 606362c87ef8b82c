CONSTANTS
    FontHeight = 1
    Slack = 2
    Border = 1
    Margin = 1
    Xres = 4
    Yres = 24
    MaxLines = 2
    Widths <- MCWidths
    CursorXs <- MCCursorXs
    CursorYs <- MCCursorYs
    Contents <- MCContents
    t1 = t1
    t2 = t2
    TermPixels = {t1, t2}
    Regions <- MCRegions
SPECIFICATION Spec
INVARIANTS TypeOK FocusVisible NoGhost SavedBackground ImageIntact
PROPERTIES FocusKept ImplementsPlacement
CHECK_DEADLOCK FALSE
