-------------------------------- MODULE Font --------------------------------
(***************************************************************************)
(* The fonts and the glyph cache (libucimf/font/font.cpp): getGlyph opens   *)
(* font files when a character first needs them and keeps every glyph it    *)
(* has rendered in pages of 256, which are not cleared before their use.    *)
(*                                                                         *)
(* Fontconfig and FreeType are external: the first sorts the font files for *)
(* a name, the second opens them, or fails to.                              *)
(***************************************************************************)
EXTENDS Integers, Sequences, FiniteSets

CONSTANTS
    Chars,          \* the characters that are looked up
    Files,          \* the font files
    Family,         \* [Files -> the families]
    Charset,        \* [Files -> SUBSET Chars]: what fontconfig knows of a file
    Drawable,       \* [Files -> SUBSET Chars]: what FreeType finds in it
    Sorted,         \* [the names that are known -> Seq(Files)]
    Fallback,       \* what fontconfig sorts for other names
    NameBytes,      \* the size of mFontNames: 64
    NULL,           \* no glyph
    Garbage         \* what memory held before

ASSUME FilesAssumption ==
    /\ Chars \subseteq Nat /\ IsFiniteSet(Chars)
    /\ Charset \in [Files -> SUBSET Chars]
    /\ Drawable \in [Files -> SUBSET Chars]
    /\ {NULL, Garbage} \cap [file : Files, size : Nat, shape : Chars \union {-1}] = {}
    /\ Sorted \in [DOMAIN Sorted -> Seq(Files)] /\ Fallback \in Seq(Files)

VARIABLES
    mFontNames, mFontSize,
    mpFont,             \* there is a font
    unicodeMap,         \* the characters the files have together
    fontList,           \* the files fontconfig has sorted
    fontFaces,          \* of each of them: "unopened", "open" or "failed" (-1)
    glyphCacheInited,   \* the pages in use
    glyphCache,         \* of each character a glyph, NULL, or what memory held
    heap                \* the number of glyphs allocated and not deleted

fonts == <<mpFont, unicodeMap, fontList, fontFaces>>
cache == <<glyphCacheInited, glyphCache, heap>>
settings == <<mFontNames, mFontSize>>
font == <<settings, fonts, cache>>

Page(ch) == ch \div 256
Codes == {ch \in Chars : ch < 256 * 256}

-----------------------------------------------------------------------------
FcFontSort(names) == IF names \in DOMAIN Sorted THEN Sorted[names] ELSE Fallback

\* createInstance keeps the first file of each family.
Kept == {i \in DOMAIN fontList : \A j \in 1..(i - 1) : Family[fontList[j]] # Family[fontList[i]]}

\* fontIndex: the first font that is said to have the character.
IsFontOf(i, ch) ==
    /\ ch \in unicodeMap
    /\ i \in Kept /\ ch \in Charset[fontList[i]]
    /\ \A j \in Kept : ch \in Charset[fontList[j]] => i <= j

\* Mutated form: a failure is not kept.
OpenedAgain(face) == IF face = "open" THEN {"open"} ELSE {"open", "unopened"}

\* openFont opens a file once; a failure is for good.
Opened(face) == IF face = "unopened" THEN {"open", "failed"} ELSE {face}

\* The glyph of a character in a file.  FT_Load_Glyph may fail, which leaves an
\* empty glyph behind and is not looked at.
GlyphOf(i, shape) == [file |-> fontList[i], size |-> mFontSize, shape |-> shape]
Blank == -1

\* The cache when the page of a character is in use.
PageOf(ch) ==
    [c \in Codes |-> IF Page(ch) \notin glyphCacheInited /\ Page(c) = Page(ch)
                     THEN NULL ELSE glyphCache[c]]

-----------------------------------------------------------------------------
(* getGlyph.  g is what it returns; page is the cache with the character's page *)
(* in use.                                                                     *)

Cached(ch, g, page) ==
    /\ g = page[ch] /\ g # NULL
    /\ glyphCache' = page
    /\ UNCHANGED <<fontFaces, heap>>

\* No font has the character.
NotFound(ch, g, page) ==
    /\ page[ch] = NULL /\ g = NULL
    /\ ~\E i \in Kept : IsFontOf(i, ch)
    /\ glyphCache' = page
    /\ UNCHANGED <<fontFaces, heap>>

\* The font does not open, or does not have the character after all.
Unreadable(ch, g, page) ==
    /\ page[ch] = NULL /\ g = NULL
    /\ \E i \in Kept :
        /\ IsFontOf(i, ch)
        /\ \E face \in Opened(fontFaces[i]) :
            /\ face = "open" => ch \notin Drawable[fontList[i]]
            /\ fontFaces' = [fontFaces EXCEPT ![i] = face]
    /\ glyphCache' = page
    /\ UNCHANGED heap

Rendered(ch, g, page) ==
    /\ page[ch] = NULL
    /\ \E i \in Kept :
        /\ IsFontOf(i, ch)
        /\ "open" \in Opened(fontFaces[i])
        /\ ch \in Drawable[fontList[i]]
        /\ fontFaces' = [fontFaces EXCEPT ![i] = "open"]
        /\ g \in {GlyphOf(i, ch), GlyphOf(i, Blank)}
    /\ glyphCache' = [page EXCEPT ![ch] = g]
    /\ heap' = heap + 1

\* Mutated form: the page is not marked as in use.
UsePageUnmarked(ch) == UNCHANGED glyphCacheInited

UsePage(ch) == glyphCacheInited' = glyphCacheInited \union {Page(ch)}

GetGlyph(ch, g) ==
    \/ /\ ch \notin Codes /\ g = NULL
       /\ UNCHANGED font
    \/ /\ ch \in Codes
       /\ \/ Cached(ch, g, PageOf(ch))
          \/ NotFound(ch, g, PageOf(ch))
          \/ Unreadable(ch, g, PageOf(ch))
          \/ Rendered(ch, g, PageOf(ch))
       /\ UsePage(ch)
       /\ UNCHANGED <<settings, mpFont, unicodeMap, fontList>>

\* What it may return.
Results == {NULL, Garbage} \union [file : Files, size : {mFontSize}, shape : Chars \union {Blank}]

-----------------------------------------------------------------------------
(* setInfo.                                                                  *)

\* Mutated form: the pages that are not in use are deleted as well.
DeletedAll == {ch \in Codes : glyphCache[ch] # NULL}

\* The glyphs the destructor deletes.
Deleted == {ch \in Codes : Page(ch) \in glyphCacheInited /\ glyphCache[ch] # NULL}

\* createInstance and the constructor, which opens the first font.  Without any
\* font there is no instance.
CreateInstance(sorted) ==
    /\ mpFont' = (sorted # <<>>)
    /\ fontList' = sorted
    /\ unicodeMap' = UNION {Charset[sorted[i]] : i \in DOMAIN sorted}
    /\ \E first \in {"open", "failed"} :
        fontFaces' = [i \in DOMAIN sorted |-> IF i = 1 THEN first ELSE "unopened"]
    /\ glyphCacheInited' = {}
    /\ glyphCache' = [ch \in Codes |-> Garbage]

\* Mutated form: the instance is kept.
SetInfoKeepsFont(names, size) ==
    /\ mFontNames' = IF Len(names) < NameBytes THEN names ELSE mFontNames
    /\ mFontSize' = IF size \in Nat \ {0} THEN size ELSE mFontSize
    /\ IF mpFont THEN UNCHANGED <<fonts, glyphCacheInited, glyphCache>>
       ELSE CreateInstance(FcFontSort(mFontNames'))
    /\ UNCHANGED heap

\* A name that is too long is ignored, a size of 0 as well.  (No host asks for a
\* negative one.)
SetInfo(names, size) ==
    /\ mFontNames' = IF Len(names) < NameBytes THEN names ELSE mFontNames
    /\ mFontSize' = IF size \in Nat \ {0} THEN size ELSE mFontSize
    /\ CreateInstance(FcFontSort(mFontNames'))
    /\ heap' = IF mpFont THEN heap - Cardinality(Deleted) ELSE heap

FontInit ==
    /\ mFontNames = <<"m", "o", "n", "o">>
    /\ mFontSize = 14
    /\ mpFont = FALSE
    /\ unicodeMap = {}
    /\ fontList = <<>>
    /\ fontFaces = <<>>
    /\ glyphCacheInited = {}
    /\ glyphCache = [ch \in Codes |-> Garbage]
    /\ heap = 0

-----------------------------------------------------------------------------
(* Properties.                                                               *)

\* In a page that is in use there is nothing but what the present fonts give: a
\* glyph of the first font said to have the character, at the present size.  No
\* glyph of a font that is gone is left, and nothing of what memory held before,
\* which getGlyph would return and the destructor delete.
CacheSound ==
    \A ch \in Codes : Page(ch) \in glyphCacheInited /\ glyphCache[ch] # NULL =>
        \E i \in Kept : IsFontOf(i, ch)
                        /\ glyphCache[ch] \in {GlyphOf(i, ch), GlyphOf(i, Blank)}

\* The glyphs in the pages in use are all there are: none is lost to the
\* destructor while the pages come into use in any order.
NoGlyphLost == heap = Cardinality(Deleted)
=============================================================================
