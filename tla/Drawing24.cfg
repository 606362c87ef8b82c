CONSTANTS
    FontWidth = 2
    FontHeight = 2
    Border = 1
    Formats <- MCFormats24
    Glyphs <- MCGlyphs
    Texts <- MCTexts
    Positions <- MCPositions
SPECIFICATION Spec
INVARIANT NoTrace
