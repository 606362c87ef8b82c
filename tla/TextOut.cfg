CONSTANTS
    Chars <- McChars
    Files <- McFiles
    Family <- McFamily
    Charset <- McCharset
    Drawable <- McDrawable
    Sorted <- McSorted
    Fallback <- McFallback
    NULL = NULL
    Garbage = Garbage
    NoFile = NoFile
    NameBytes = 8
    TmpWords = 3
    Homes <- McHomes
    Systems <- McSystems
    Strings <- McStrings
    MaxText = 3
    MaxSetInfo = 1
SPECIFICATION Spec
INVARIANTS
    TypeOK
    CacheSound
    NoGlyphLost
    Configured
    DrawnAsMeasured
    CharactersKept
CHECK_DEADLOCK FALSE
