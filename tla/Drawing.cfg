CONSTANTS
    FontWidth = 2
    FontHeight = 2
    Border = 1
    Formats <- MCFormats
    Glyphs <- MCGlyphs
    Texts <- MCTexts
    Positions <- MCPositions
SPECIFICATION Spec
INVARIANTS TypeOK NoTrace ShownExactly
