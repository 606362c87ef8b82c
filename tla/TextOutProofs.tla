--------------------------- MODULE TextOutProofs ---------------------------
(***************************************************************************)
(* Proofs about TextOut, for every set of font files, characters, texts and *)
(* configurations, however fonts fail to open.                              *)
(*                                                                          *)
(* The glyph cache is sound by itself.  That a text is drawn as it was      *)
(* measured needs to know that what getGlyph has answered once it answers   *)
(* again: the glyph is cached, or the only font that counts has failed, or  *)
(* there is none (Settled).                                                 *)
(*                                                                          *)
(* That characters and options are kept is a fact about the conversions,    *)
(* which are recursive functions of the length of their input.  Induction   *)
(* over that length is done with finite sets (Induction); from it follow    *)
(* that a function defined by recursion exists and what a step of it is, and *)
(* then, step by step, that the bytes of a character give it back and that  *)
(* a line is taken apart as it was put together.                            *)
(***************************************************************************)
EXTENDS TextOut, FiniteSetTheorems, SequenceTheorems, TLAPS

\* What a font file may be, and the glyphs, with what is no glyph.
Faces == {"unopened", "open", "failed"}
Glyphs == {NULL, Garbage} \union [file : Files, size : Nat, shape : Chars \union {Blank}]

\* The fonts and their faces keep their types.
FontTyped ==
    /\ mFontSize \in Nat
    /\ fontList \in Seq(Files)
    /\ fontFaces \in [DOMAIN fontList -> Faces]

-----------------------------------------------------------------------------
(* Fonts and glyphs.                                                         *)

\* At most one of the fonts counts for a character.
LEMMA OneFont ==
    ASSUME FontTyped, NEW ch, NEW i \in Kept, NEW j \in Kept, IsFontOf(i, ch), IsFontOf(j, ch)
    PROVE  i = j
<1>1. i \in Int /\ j \in Int
  BY DEF Kept, FontTyped
<1>2. i <= j /\ j <= i
  BY DEF IsFontOf
<1> QED BY <1>1, <1>2

\* A rendered glyph is a glyph, and there is one.
LEMMA GlyphType ==
    ASSUME FontTyped, NEW i \in Kept, NEW shape \in Chars \union {Blank}
    PROVE  GlyphOf(i, shape) \in Glyphs \ {NULL}
<1>1. fontList[i] \in Files
  BY DEF Kept, FontTyped
<1>2. GlyphOf(i, shape) \in [file : Files, size : Nat, shape : Chars \union {-1}]
  BY <1>1 DEF GlyphOf, FontTyped, Blank
<1> QED BY <1>2, FilesAssumption DEF Glyphs, Blank

\* getGlyph leaves the fonts alone but for the face it opens, and the cache but
\* for the page it takes into use and the glyph it renders.
LEMMA GetGlyphFrame ==
    ASSUME FontTyped, NEW ch, NEW g, GetGlyph(ch, g)
    PROVE  /\ FontTyped'
           /\ UNCHANGED <<mFontSize, mpFont, unicodeMap, fontList>>
           /\ \A i \in DOMAIN fontList :
                fontFaces[i] # "unopened" => fontFaces'[i] = fontFaces[i]
<1>1. CASE ch \notin Codes
  BY <1>1 DEF GetGlyph, font, settings, fonts, FontTyped
<1>2. CASE ch \in Codes
  <2>1. UNCHANGED <<mFontSize, mpFont, unicodeMap, fontList>>
    BY <1>2 DEF GetGlyph, settings
  <2>2. CASE UNCHANGED fontFaces
    BY <2>1, <2>2 DEF FontTyped
  <2>3. CASE \E i \in Kept : \E face \in Opened(fontFaces[i]) :
                fontFaces' = [fontFaces EXCEPT ![i] = face]
    <3>1. PICK i \in Kept : \E face \in Opened(fontFaces[i]) :
                fontFaces' = [fontFaces EXCEPT ![i] = face]
      BY <2>3
    <3>2. PICK face \in Opened(fontFaces[i]) : fontFaces' = [fontFaces EXCEPT ![i] = face]
      BY <3>1
    <3>3. i \in DOMAIN fontList
      BY DEF Kept
    <3>4. face \in Faces /\ (fontFaces[i] # "unopened" => face = fontFaces[i])
      BY <3>3 DEF Opened, Faces, FontTyped
    <3> QED BY <2>1, <3>2, <3>3, <3>4 DEF FontTyped
  <2>4. CASE Unreadable(ch, g, PageOf(ch))
    BY <2>3, <2>4 DEF Unreadable
  <2>5. CASE Rendered(ch, g, PageOf(ch))
    BY <2>3, <2>5 DEF Rendered
  <2> QED BY <1>2, <2>2, <2>4, <2>5 DEF GetGlyph, Cached, NotFound
<1> QED BY <1>1, <1>2

\* The fonts that count stay the same.
LEMMA SameFonts ==
    ASSUME UNCHANGED <<unicodeMap, fontList>>
    PROVE  Kept' = Kept /\ \A i, c : IsFontOf(i, c)' <=> IsFontOf(i, c)
BY DEF Kept, IsFontOf

\* Of a page that was in use nothing is changed.
LEMMA PageFrame ==
    ASSUME NEW ch, NEW c \in Codes, Page(c) \in glyphCacheInited
    PROVE  PageOf(ch)[c] = glyphCache[c]
BY DEF PageOf

\* A page that comes into use is empty.
LEMMA PageNew ==
    ASSUME NEW ch, NEW c \in Codes, Page(c) = Page(ch), Page(c) \notin glyphCacheInited
    PROVE  PageOf(ch)[c] = NULL
BY DEF PageOf

-----------------------------------------------------------------------------
(* The steps of TextOut.                                                     *)

\* A step leaves the fonts and the cache alone, calls getGlyph or calls setInfo.
LEMMA FontSteps ==
    ASSUME [Next]_vars
    PROVE  \/ UNCHANGED font
           \/ \E ch, g : GetGlyph(ch, g)
           \/ \E names, size : SetInfo(names, size)
<1>1. CASE Start
  BY <1>1 DEF Start
<1>2. CASE \E s \in Strings : AppendString(s)
  BY <1>2 DEF AppendString
<1>3. CASE Clear
  BY <1>3 DEF Clear
<1>4. CASE MeasureNext
  BY <1>4 DEF MeasureNext
<1>5. CASE PaintNext
  BY <1>5 DEF PaintNext
<1>6. CASE RenderEnds
  BY <1>6 DEF RenderEnds
<1>7. CASE \E size \in {0, 24} : Resize(size)
  BY <1>7 DEF Resize
<1>8. CASE UNCHANGED vars
  BY <1>8 DEF vars
<1> QED BY <1>1, <1>2, <1>3, <1>4, <1>5, <1>6, <1>7, <1>8 DEF Next

\* setInfo starts with an empty cache and fonts no file of which is unknown.
LEMMA SetInfoFrame ==
    ASSUME mFontSize \in Nat, NEW names, NEW size, SetInfo(names, size)
    PROVE  FontTyped' /\ glyphCacheInited' = {}
<1> DEFINE sorted == FcFontSort(mFontNames')
<1>1. sorted \in Seq(Files)
  BY FilesAssumption DEF FcFontSort
<1>2. mFontSize' \in Nat
  BY DEF SetInfo
<1>3. CreateInstance(sorted)
  BY DEF SetInfo
<1>4. PICK first \in {"open", "failed"} :
          fontFaces' = [i \in DOMAIN sorted |-> IF i = 1 THEN first ELSE "unopened"]
  BY <1>3 DEF CreateInstance
<1>5. fontList' = sorted /\ glyphCacheInited' = {}
  BY <1>3 DEF CreateInstance
<1> HIDE DEF sorted
<1> QED BY <1>1, <1>2, <1>4, <1>5 DEF FontTyped, Faces

\* The fonts and their faces keep their types.
LEMMA FontTypedInv == Spec => []FontTyped
<1>1. Init => FontTyped
  BY DEF Init, FontInit, FontTyped
<1>2. ASSUME FontTyped, [Next]_vars PROVE FontTyped'
  <2>1. CASE UNCHANGED font
    BY <1>2, <2>1 DEF font, fonts, settings, FontTyped
  <2>2. CASE \E ch, g : GetGlyph(ch, g)
    BY <1>2, <2>2, GetGlyphFrame
  <2>3. CASE \E names, size : SetInfo(names, size)
    BY <1>2, <2>3, SetInfoFrame DEF FontTyped
  <2> QED BY <1>2, <2>1, <2>2, <2>3, FontSteps
<1> QED BY <1>1, <1>2, PTL DEF Spec

-----------------------------------------------------------------------------
\* getGlyph keeps the cache sound: what it adds to a page is of the font that
\* counts, and a page that comes into use is empty.
LEMMA GetGlyphSound ==
    ASSUME FontTyped, CacheSound, NEW ch, NEW g, GetGlyph(ch, g)
    PROVE  CacheSound'
<1> USE DEF Codes
<1>1. CASE ch \notin Codes
  BY <1>1 DEF GetGlyph, font, fonts, cache, settings, CacheSound, Kept, IsFontOf, GlyphOf
<1>2. CASE ch \in Codes
  <2>1. UNCHANGED <<mFontSize, unicodeMap, fontList>>
    BY GetGlyphFrame
  <2>2. Kept' = Kept /\ \A i, c : IsFontOf(i, c)' <=> IsFontOf(i, c)
    BY <2>1, SameFonts
  <2>3. \A i, c : GlyphOf(i, c)' = GlyphOf(i, c)
    BY <2>1 DEF GlyphOf
  <2> SUFFICES ASSUME NEW c \in Codes, Page(c) \in glyphCacheInited', glyphCache'[c] # NULL
               PROVE  \E i \in Kept : IsFontOf(i, c)
                         /\ glyphCache'[c] \in {GlyphOf(i, c), GlyphOf(i, Blank)}
    BY <2>2, <2>3 DEF CacheSound
  <2>4. ASSUME PageOf(ch)[c] # NULL
        PROVE  \E i \in Kept : IsFontOf(i, c)
                  /\ PageOf(ch)[c] \in {GlyphOf(i, c), GlyphOf(i, Blank)}
    <3>1. Page(c) \in glyphCacheInited
      BY <1>2, <2>4, PageNew DEF GetGlyph, UsePage
    <3> QED BY <2>4, <3>1, PageFrame DEF CacheSound
  <2>5. CASE glyphCache' = PageOf(ch)
    BY <2>4, <2>5
  <2>6. CASE Rendered(ch, g, PageOf(ch))
    <3>1. CASE c # ch
      <4>1. glyphCache'[c] = PageOf(ch)[c]
        BY <2>6, <3>1 DEF Rendered, PageOf
      <4> QED BY <4>1, <2>4
    <3>2. CASE c = ch
      <4>1. glyphCache'[ch] = g
        BY <1>2, <2>6 DEF Rendered, PageOf
      <4> QED BY <4>1, <3>2, <2>6 DEF Rendered
    <3> QED BY <3>1, <3>2
  <2> QED BY <1>2, <2>5, <2>6 DEF GetGlyph, Cached, NotFound, Unreadable
<1> QED BY <1>1, <1>2

\* In the pages in use there is nothing but glyphs of the present fonts.
THEOREM CacheIsSound == Spec => []CacheSound
<1>1. Init => CacheSound
  BY DEF Init, FontInit, CacheSound
<1>2. ASSUME FontTyped, CacheSound, [Next]_vars PROVE CacheSound'
  <2>1. CASE UNCHANGED font
    BY <1>2, <2>1 DEF font, fonts, settings, cache, CacheSound, Kept, IsFontOf, GlyphOf
  <2>2. CASE \E ch, g : GetGlyph(ch, g)
    BY <1>2, <2>2, GetGlyphSound
  <2>3. CASE \E names, size : SetInfo(names, size)
    <3>1. glyphCacheInited' = {}
      BY <1>2, <2>3, SetInfoFrame DEF FontTyped
    <3> QED BY <3>1 DEF CacheSound
  <2> QED BY <1>2, <2>1, <2>2, <2>3, FontSteps
<1> QED BY <1>1, <1>2, FontTypedInv, PTL DEF Spec

-----------------------------------------------------------------------------
(* Drawn as measured.                                                        *)

\* getGlyph has answered g for ch, and will again.
Settled(ch, g) ==
    IF ch \notin Codes THEN g = NULL
    ELSE /\ Page(ch) \in glyphCacheInited
         /\ g = glyphCache[ch]
         /\ g = NULL => \A i \in Kept : IsFontOf(i, ch) =>
                \/ fontFaces[i] = "failed"
                \/ fontFaces[i] = "open" /\ ch \notin Drawable[fontList[i]]

\* What getGlyph answers is settled.
LEMMA AnswerSettled ==
    ASSUME FontTyped, NEW ch, NEW g, GetGlyph(ch, g)
    PROVE  Settled(ch, g)'
<1>1. CASE ch \notin Codes
  BY <1>1 DEF GetGlyph, Settled, Codes
<1>2. CASE ch \in Codes
  <2>1. UNCHANGED <<unicodeMap, fontList>> /\ FontTyped'
    BY GetGlyphFrame
  <2>2. Kept' = Kept /\ \A i, c : IsFontOf(i, c)' <=> IsFontOf(i, c)
    BY <2>1, SameFonts
  <2>3. Page(ch) \in glyphCacheInited'
    BY <1>2 DEF GetGlyph, UsePage
  <2>4. CASE Cached(ch, g, PageOf(ch))
    BY <1>2, <2>3, <2>4 DEF Cached, Settled, Codes
  <2>5. CASE NotFound(ch, g, PageOf(ch))
    BY <1>2, <2>2, <2>3, <2>5 DEF NotFound, Settled, Codes
  <2>6. CASE Unreadable(ch, g, PageOf(ch))
    <3>1. PICK i \in Kept :
            /\ IsFontOf(i, ch)
            /\ \E face \in Opened(fontFaces[i]) :
                /\ face = "open" => ch \notin Drawable[fontList[i]]
                /\ fontFaces' = [fontFaces EXCEPT ![i] = face]
      BY <2>6 DEF Unreadable
    <3>2. PICK face \in Opened(fontFaces[i]) :
            /\ face = "open" => ch \notin Drawable[fontList[i]]
            /\ fontFaces' = [fontFaces EXCEPT ![i] = face]
      BY <3>1
    <3>3. i \in DOMAIN fontFaces /\ fontFaces[i] \in Faces
      BY DEF Kept, FontTyped
    <3>4. fontFaces'[i] = face /\ face \in {"open", "failed"}
      BY <3>2, <3>3 DEF Opened, Faces
    <3>5. \A j \in Kept : IsFontOf(j, ch) => j = i
      BY <3>1, OneFont
    <3>6. g = NULL /\ glyphCache'[ch] = NULL
      BY <2>6 DEF Unreadable
    <3> QED BY <1>2, <2>1, <2>2, <2>3, <3>2, <3>4, <3>5, <3>6 DEF Settled, Codes
  <2>7. CASE Rendered(ch, g, PageOf(ch))
    <3>1. ch \in Chars
      BY <1>2 DEF Codes
    <3>2. g # NULL
      BY <2>7, <3>1, GlyphType DEF Rendered
    <3>3. glyphCache'[ch] = g
      BY <1>2, <2>7 DEF Rendered, PageOf
    <3> QED BY <1>2, <2>3, <3>2, <3>3 DEF Settled, Codes
  <2> QED BY <1>2, <2>4, <2>5, <2>6, <2>7 DEF GetGlyph
<1> QED BY <1>1, <1>2

\* For a character that is settled, getGlyph has only that answer.
LEMMA SameAnswer ==
    ASSUME FontTyped, NEW ch, NEW g, NEW h, Settled(ch, g), GetGlyph(ch, h)
    PROVE  h = g
<1>1. CASE ch \notin Codes
  BY <1>1 DEF GetGlyph, Settled
<1>2. CASE ch \in Codes
  <2>1. PageOf(ch)[ch] = g
    BY <1>2, PageFrame DEF Settled
  <2>2. CASE Rendered(ch, h, PageOf(ch))
    <3>1. PICK i \in Kept : /\ IsFontOf(i, ch)
                            /\ "open" \in Opened(fontFaces[i])
                            /\ ch \in Drawable[fontList[i]]
      BY <2>2 DEF Rendered
    <3>2. g = NULL
      BY <2>1, <2>2 DEF Rendered
    <3>3. fontFaces[i] = "failed"
      BY <1>2, <3>1, <3>2 DEF Settled
    <3> QED BY <3>1, <3>3 DEF Opened
  <2> QED BY <1>2, <2>1, <2>2 DEF GetGlyph, Cached, NotFound, Unreadable
<1> QED BY <1>1, <1>2

\* Whatever is looked up, a settled character stays settled.
LEMMA StaysSettled ==
    ASSUME FontTyped, NEW ch, NEW g, Settled(ch, g), NEW c, NEW h, GetGlyph(c, h)
    PROVE  Settled(ch, g)'
<1>1. CASE ch = c
  BY <1>1, SameAnswer, AnswerSettled
<1>2. CASE ch \notin Codes
  BY <1>2 DEF Settled, Codes
<1>3. CASE c \notin Codes
  BY <1>3 DEF GetGlyph, font, fonts, cache, settings, Settled, Kept, IsFontOf, Codes
<1>4. CASE ch # c /\ ch \in Codes /\ c \in Codes
  <2>1. /\ UNCHANGED <<unicodeMap, fontList>>
        /\ \A i \in DOMAIN fontList : fontFaces[i] # "unopened" => fontFaces'[i] = fontFaces[i]
    BY GetGlyphFrame
  <2>2. Kept' = Kept /\ \A i, d : IsFontOf(i, d)' <=> IsFontOf(i, d)
    BY <2>1, SameFonts
  <2>3. Page(ch) \in glyphCacheInited'
    BY <1>4 DEF GetGlyph, UsePage, Settled
  <2>4. PageOf(c)[ch] = glyphCache[ch]
    BY <1>4, PageFrame DEF Settled
  <2>5. glyphCache'[ch] = glyphCache[ch]
    <3>1. CASE Rendered(c, h, PageOf(c))
      BY <1>4, <2>4, <3>1 DEF Rendered, PageOf
    <3> QED BY <1>4, <2>4, <3>1 DEF GetGlyph, Cached, NotFound, Unreadable
  <2>6. \A i \in Kept : i \in DOMAIN fontList
    BY DEF Kept
  <2> QED BY <1>4, <2>1, <2>2, <2>3, <2>5, <2>6 DEF Settled, Codes
<1> QED BY <1>1, <1>2, <1>3, <1>4

\* What has been measured is settled, and what has been painted is that.
Passes ==
    /\ measured \in Seq(Glyphs) /\ painted \in Seq(Glyphs)
    /\ stage # "ready" => measured = <<>>
    /\ \A i \in DOMAIN measured : \A ch, g : ch = buf[i] /\ g = measured[i] => Settled(ch, g)
    /\ DrawnAsMeasured

\* The passes begin with nothing.
LEMMA InitPasses == Init => Passes
BY DEF Init, Passes, DrawnAsMeasured

\* What getGlyph may answer is a glyph.
LEMMA ResultsType == FontTyped => Results \subseteq Glyphs
BY DEF Results, Glyphs, FontTyped

\* Every step of either pass keeps what is settled and adds what is.
LEMMA NextPasses == FontTyped /\ Passes /\ [Next]_vars => Passes'
<1> SUFFICES ASSUME FontTyped, Passes, [Next]_vars PROVE Passes'
  OBVIOUS
<1> USE DEF Passes
<1>1. ASSUME UNCHANGED <<font, stage, passes>>, measured # <<>> => UNCHANGED buf
      PROVE  Passes'
  BY <1>1 DEF font, fonts, cache, settings, passes, DrawnAsMeasured, Settled, Kept, IsFontOf
<1>2. ASSUME measured' = <<>>, painted' = <<>> PROVE Passes'
  BY <1>2 DEF DrawnAsMeasured
<1>3. CASE Start
  <2>1. measured = <<>> /\ painted = <<>>
    BY <1>3 DEF Start, DrawnAsMeasured
  <2> QED BY <1>2, <1>3, <2>1 DEF Start, passes
<1>4. CASE \E s \in Strings : AppendString(s)
  BY <1>1, <1>4 DEF AppendString, Idle
<1>5. CASE Clear
  BY <1>1, <1>5 DEF Clear, Idle
<1>6. CASE MeasureNext
  <2> DEFINE n == Len(measured) + 1
  <2>1. PICK g \in Results : GetGlyph(buf[n], g) /\ measured' = Append(measured, g)
    BY <1>6 DEF MeasureNext
  <2>2. measured' \in Seq(Glyphs) /\ DOMAIN measured' = DOMAIN measured \union {n}
    BY <2>1, ResultsType
  <2>3. measured'[n] = g /\ \A i \in DOMAIN measured : measured'[i] = measured[i]
    BY <2>1
  <2>4. UNCHANGED <<buf, painted, stage>> /\ stage = "ready"
    BY <1>6 DEF MeasureNext, texts
  <2>5. \A ch : ch = buf[n] => Settled(ch, g)'
    BY <2>1, AnswerSettled
  <2>6. \A ch, h : Settled(ch, h) => Settled(ch, h)'
    BY <2>1, StaysSettled
  <2>7. DrawnAsMeasured'
    BY <2>1, <2>3, <2>4 DEF DrawnAsMeasured
  <2> QED BY <2>2, <2>3, <2>4, <2>5, <2>6, <2>7
<1>7. CASE PaintNext
  <2> DEFINE n == Len(painted) + 1
  <2>1. PICK g \in Results : GetGlyph(buf[n], g) /\ painted' = Append(painted, g)
    BY <1>7 DEF PaintNext
  <2>2. UNCHANGED <<buf, measured, stage>>
    BY <1>7 DEF PaintNext, texts
  <2>3. n \in DOMAIN measured
    BY <1>7 DEF PaintNext
  <2>4. g = measured[n]
    BY <2>1, <2>3, SameAnswer
  <2>5. \A ch, h : Settled(ch, h) => Settled(ch, h)'
    BY <2>1, StaysSettled
  <2>6. DrawnAsMeasured'
    BY <2>1, <2>2, <2>3, <2>4 DEF DrawnAsMeasured
  <2>7. painted' \in Seq(Glyphs)
    BY <2>1, ResultsType
  <2> QED BY <2>2, <2>5, <2>6, <2>7
<1>8. CASE RenderEnds
  BY <1>2, <1>8 DEF RenderEnds
<1>9. CASE \E size \in {0, 24} : Resize(size)
  <2>1. measured = <<>> /\ painted = <<>>
    BY <1>9 DEF Resize, Idle, DrawnAsMeasured
  <2> QED BY <1>2, <1>9, <2>1 DEF Resize, passes
<1>10. CASE UNCHANGED vars
  BY <1>1, <1>10 DEF vars, texts
<1> QED BY <1>3, <1>4, <1>5, <1>6, <1>7, <1>8, <1>9, <1>10 DEF Next

\* Both passes over a text get the same glyphs.
THEOREM DrawsWhatItMeasured == Spec => []DrawnAsMeasured
<1>1. Passes => DrawnAsMeasured
  BY DEF Passes
<1> QED BY <1>1, InitPasses, NextPasses, FontTypedInv, PTL DEF Spec

-----------------------------------------------------------------------------
(* No glyph is lost.                                                         *)

\* Only a font that is there has glyphs, and they are counted.
Counted ==
    /\ stage = "ready" => mpFont
    /\ ~mpFont => glyphCacheInited = {}
    /\ NoGlyphLost

\* Without a page in use there is nothing to delete.
LEMMA NothingDeleted == glyphCacheInited = {} => Deleted = {}
BY DEF Deleted

\* getGlyph counts what it renders, in whatever order pages come into use.
LEMMA GetGlyphCounts ==
    ASSUME FontTyped, NoGlyphLost, NEW ch, NEW g, GetGlyph(ch, g)
    PROVE  NoGlyphLost'
<1>1. CASE ch \notin Codes
  BY <1>1 DEF GetGlyph, font, cache, NoGlyphLost, Deleted, Codes
<1>2. CASE ch \in Codes
  <2> DEFINE page == PageOf(ch)
  <2>1. glyphCacheInited' = glyphCacheInited \union {Page(ch)}
    BY <1>2 DEF GetGlyph, UsePage
  <2>2. Deleted = {c \in Codes : Page(c) \in glyphCacheInited' /\ page[c] # NULL}
    <3>1. ASSUME NEW c \in Codes
          PROVE  (Page(c) \in glyphCacheInited /\ glyphCache[c] # NULL)
                    <=> (Page(c) \in glyphCacheInited' /\ page[c] # NULL)
      <4>1. CASE Page(c) \in glyphCacheInited
        BY <4>1, <2>1, PageFrame
      <4>2. CASE Page(c) \notin glyphCacheInited
        BY <4>2, <2>1, PageNew
      <4> QED BY <4>1, <4>2
    <3> HIDE DEF page
    <3> QED BY <3>1 DEF Deleted
  <2>3. CASE glyphCache' = page /\ UNCHANGED heap
    BY <2>2, <2>3 DEF Deleted, NoGlyphLost, Codes
  <2>4. CASE Rendered(ch, g, page)
    <3>1. g # NULL /\ page[ch] = NULL
      BY <1>2, <2>4, GlyphType DEF Rendered, Codes
    <3>2. \A c \in Codes : glyphCache'[c] = IF c = ch THEN g ELSE page[c]
      BY <1>2, <2>4 DEF Rendered, PageOf
    <3>3. Deleted' = Deleted \union {ch} /\ ch \notin Deleted
      <4> HIDE DEF page
      <4> QED BY <1>2, <2>1, <2>2, <3>1, <3>2 DEF Deleted, Codes
    <3>4. IsFiniteSet(Deleted)
      <4>1. Deleted \in SUBSET Chars
        BY DEF Deleted, Codes
      <4> QED BY <4>1, FilesAssumption, FS_Subset
    <3>5. Cardinality(Deleted') = Cardinality(Deleted) + 1
      BY <3>3, <3>4, FS_AddElement
    <3> QED BY <2>4, <3>5 DEF Rendered, NoGlyphLost
  <2> QED BY <1>2, <2>3, <2>4 DEF GetGlyph, Cached, NotFound, Unreadable
<1> QED BY <1>1, <1>2

\* setInfo deletes what is counted.
LEMMA SetInfoCounts ==
    ASSUME FontTyped, Counted, NEW names, NEW size, SetInfo(names, size)
    PROVE  NoGlyphLost' /\ glyphCacheInited' = {}
<1>1. glyphCacheInited' = {}
  BY SetInfoFrame DEF FontTyped
<1>2. Deleted' = {}
  BY <1>1 DEF Deleted
<1>3. Cardinality(Deleted) \in Nat
  <2>1. Deleted \in SUBSET Chars
    BY DEF Deleted, Codes
  <2> QED BY <2>1, FilesAssumption, FS_Subset, FS_CardinalityType
<1>4. Cardinality({}) = 0
  BY FS_EmptySet
<1>5. heap' = 0
  <2>1. CASE mpFont
    BY <1>3, <2>1 DEF SetInfo, Counted, NoGlyphLost
  <2>2. CASE ~mpFont
    BY <1>4, <2>2, NothingDeleted DEF SetInfo, Counted, NoGlyphLost
  <2> QED BY <2>1, <2>2
<1> QED BY <1>1, <1>2, <1>4, <1>5 DEF NoGlyphLost

\* Every glyph there is lies in a page in use, where the destructor finds it.
THEOREM NoGlyphIsLost == Spec => []NoGlyphLost
<1>1. Init => Counted
  BY FS_EmptySet, NothingDeleted DEF Init, FontInit, Counted, NoGlyphLost
<1>2. ASSUME FontTyped, Passes, Counted, [Next]_vars PROVE Counted'
  <2>1. ASSUME UNCHANGED <<font, stage>> PROVE Counted'
    BY <1>2, <2>1 DEF Counted, NoGlyphLost, Deleted, Codes, font, fonts, cache
  <2>2. ASSUME stage = "ready", UNCHANGED stage, NEW ch, NEW g, GetGlyph(ch, g) PROVE Counted'
    <3>1. UNCHANGED mpFont /\ mpFont
      BY <1>2, <2>2, GetGlyphFrame DEF Counted
    <3> QED BY <1>2, <2>2, <3>1, GetGlyphCounts DEF Counted
  <2>3. ASSUME NEW names, NEW size, SetInfo(names, size),
               stage' = IF mpFont' THEN "ready" ELSE "dead"
        PROVE  Counted'
    BY <1>2, <2>3, SetInfoCounts DEF Counted
  <2>4. CASE Start
    <3>1. CASE Conf = NoFile
      BY <1>2, <2>4, <3>1 DEF Start, Counted, NoGlyphLost, Deleted, Codes, font, fonts, cache
    <3>2. CASE Conf # NoFile
      BY <2>3, <2>4, <3>2 DEF Start
    <3> QED BY <3>1, <3>2
  <2>5. CASE \E s \in Strings : AppendString(s)
    BY <2>1, <2>5 DEF AppendString
  <2>6. CASE Clear
    BY <2>1, <2>6 DEF Clear
  <2>7. CASE MeasureNext
    <3>1. PICK g \in Results : GetGlyph(buf[Len(measured) + 1], g)
      BY <2>7 DEF MeasureNext
    <3> QED BY <2>2, <2>7, <3>1 DEF MeasureNext
  <2>8. CASE PaintNext
    <3>1. stage = "ready"
      BY <1>2, <2>8 DEF PaintNext, Passes
    <3>2. PICK g \in Results : GetGlyph(buf[Len(painted) + 1], g)
      BY <2>8 DEF PaintNext
    <3> QED BY <2>2, <2>8, <3>1, <3>2 DEF PaintNext
  <2>9. CASE RenderEnds
    BY <2>1, <2>9 DEF RenderEnds
  <2>10. CASE \E size \in {0, 24} : Resize(size)
    BY <2>3, <2>10 DEF Resize
  <2>11. CASE UNCHANGED vars
    BY <2>1, <2>11 DEF vars
  <2> QED BY <1>2, <2>4, <2>5, <2>6, <2>7, <2>8, <2>9, <2>10, <2>11 DEF Next
<1>3. Counted => NoGlyphLost
  BY DEF Counted
<1> QED BY <1>1, <1>2, <1>3, FontTypedInv, InitPasses, NextPasses, PTL DEF Spec

-----------------------------------------------------------------------------
(* Induction, recursive functions and sequences.                             *)

\* Induction, for a set: a number outside would leave finitely many inside, which
\* adding one maps into fewer.
LEMMA Induction ==
    ASSUME NEW S \in SUBSET Nat, 0 \in S, \A n \in S : n + 1 \in S
    PROVE  \A n \in Nat : n \in S
<1> SUFFICES ASSUME NEW m \in Nat, m \notin S PROVE FALSE
  OBVIOUS
<1> DEFINE A == {n \in S : n <= m}
           f == [n \in A |-> n + 1]
<1>1. A \subseteq 0..m
  <2>1. ASSUME NEW n \in S, n <= m PROVE n \in 0..m
    <3>1. n \in Nat
      OBVIOUS
    <3> QED BY <2>1, <3>1
  <2> QED BY <2>1
<1>2. IsFiniteSet(A)
  <2>1. IsFiniteSet(0..m)
    BY FS_Interval
  <2> HIDE DEF A
  <2> QED BY <1>1, <2>1, FS_Subset
<1>3. 0 \in A
  OBVIOUS
<1>4. \A n \in A : n + 1 \in A \ {0}
  BY <1>1
<1>5. \A n \in A : n \in Int
  BY <1>1
<1> HIDE DEF A
<1>6. IsFiniteSet(A \ {0}) /\ Cardinality(A \ {0}) = Cardinality(A) - 1 /\ Cardinality(A) \in Nat
  BY <1>2, <1>3, FS_RemoveElement, FS_CardinalityType
<1>7. f \in Injection(A, A \ {0})
  BY <1>4, <1>5 DEF Injection, IsInjective
<1>8. Cardinality(A) <= Cardinality(A \ {0})
  BY <1>6, <1>7, FS_Injection
<1> QED BY <1>6, <1>8

\* The same for the sequences over a set, which grow at their end.
LEMMA SequenceInduction ==
    ASSUME NEW S, NEW T, <<>> \in T, \A s \in T \cap Seq(S), x \in S : Append(s, x) \in T
    PROVE  Seq(S) \subseteq T
<1> DEFINE Good == {n \in Nat : \A s \in Seq(S) : Len(s) = n => s \in T}
<1>1. Good \in SUBSET Nat
  OBVIOUS
<1>2. 0 \in Good
  <2>1. \A s \in Seq(S) : Len(s) = 0 => s = <<>>
    OBVIOUS
  <2> QED BY <2>1
<1>3. ASSUME NEW n \in Good PROVE n + 1 \in Good
  <2>1. n \in Nat
    OBVIOUS
  <2>2. ASSUME NEW s \in Seq(S), Len(s) = n + 1 PROVE s \in T
    <3> DEFINE r == SubSeq(s, 1, n)
               x == s[n + 1]
    <3>1. r \in Seq(S) /\ Len(r) = n /\ x \in S
      BY <2>1, <2>2
    <3>2. s = Append(r, x)
      BY <2>1, <2>2
    <3> HIDE DEF r, x
    <3>3. r \in T
      BY <3>1
    <3> QED BY <3>1, <3>2, <3>3
  <2> QED BY <2>1, <2>2
<1>4. \A n \in Nat : n \in Good
  <2> HIDE DEF Good
  <2> QED BY <1>1, <1>2, <1>3, Induction
<1> QED BY <1>4

\* f begins with start and goes on with step up to n.
Runs(f, n, D, start, step) ==
    /\ f \in [0..n -> D]
    /\ f[0] = start /\ \A i \in 1..n : f[i] = step[<<i, f[i - 1]>>]

\* step does not lead out of D.
Steps(n, D, step) == \A i \in 1..n, d \in D : step[<<i, d>>] \in D

\* A recursive function exists: one for n places is continued to the next.
LEMMA Recursion ==
    ASSUME NEW m \in Nat, NEW D, NEW start \in D, NEW step, Steps(m, D, step)
    PROVE  \E f : Runs(f, m, D, start, step)
<1> USE DEF Runs, Steps
<1> DEFINE Is(f, n) == Runs(f, n, D, start, step)
           Good == {n \in Nat : n <= m => \E f : Is(f, n)}
<1>1. Good \in SUBSET Nat
  OBVIOUS
<1>2. 0 \in Good
  <2>1. Is([i \in 0..0 |-> start], 0)
    OBVIOUS
  <2> QED BY <2>1
<1>3. ASSUME NEW n \in Good PROVE n + 1 \in Good
  <2>1. n \in Nat /\ (n <= m => \E f : Is(f, n))
    OBVIOUS
  <2>2. ASSUME n + 1 <= m PROVE \E f : Is(f, n + 1)
    <3>1. PICK f : Is(f, n)
      BY <2>1, <2>2
    <3> DEFINE g == [i \in 0..(n + 1) |-> IF i = n + 1 THEN step[<<n + 1, f[n]>>] ELSE f[i]]
    <3>2. step[<<n + 1, f[n]>>] \in D
      BY <2>1, <2>2, <3>1
    <3>3. \A i \in 0..n : g[i] = f[i] /\ f[i] \in D
      BY <2>1, <3>1
    <3>4. g[n + 1] = step[<<n + 1, f[n]>>] /\ g[n] = f[n]
      <4>1. n \in 0..n /\ n + 1 \in 0..(n + 1)
        BY <2>1
      <4> QED BY <3>3, <4>1
    <3>5. g \in [0..(n + 1) -> D]
      <4>1. \A i \in 0..(n + 1) : i = n + 1 \/ i \in 0..n
        BY <2>1
      <4>2. \A i \in 0..(n + 1) : g[i] \in D
        BY <3>2, <3>3, <3>4, <4>1
      <4>3. g = [i \in 0..(n + 1) |-> g[i]]
        OBVIOUS
      <4> HIDE DEF g
      <4> QED BY <4>2, <4>3
    <3> HIDE DEF g
    <3>6. ASSUME NEW i \in 1..(n + 1) PROVE g[i] = step[<<i, g[i - 1]>>]
      <4>1. CASE i = n + 1
        <5>1. i - 1 = n
          BY <2>1, <4>1
        <5> QED BY <3>4, <4>1, <5>1
      <4>2. CASE i # n + 1
        <5>1. i \in 1..n /\ i \in 0..n /\ i - 1 \in 0..n
          BY <2>1, <4>2
        <5> QED BY <3>1, <3>3, <5>1
      <4> QED BY <4>1, <4>2
    <3>7. g[0] = start
      BY <2>1, <3>1, <3>3
    <3>8. Is(g, n + 1)
      BY <3>5, <3>6, <3>7
    <3> QED BY <3>8
  <2> HIDE DEF Is
  <2> QED BY <2>1, <2>2
<1> HIDE DEF Runs, Steps
<1>4. m \in Good
  <2> HIDE DEF Good
  <2> QED BY <1>1, <1>2, <1>3, Induction
<1> QED BY <1>4

\* Two of them that begin and go on alike are alike.
LEMMA SameRecursion ==
    ASSUME NEW n \in Nat, NEW f, NEW g, f[0] = g[0],
           \A i \in 1..n : f[i - 1] = g[i - 1] => f[i] = g[i]
    PROVE  f[n] = g[n]
<1> DEFINE Good == {i \in Nat : i <= n => f[i] = g[i]}
<1>1. Good \in SUBSET Nat /\ 0 \in Good
  OBVIOUS
<1>2. ASSUME NEW i \in Good PROVE i + 1 \in Good
  <2>1. i \in Nat /\ (i <= n => f[i] = g[i])
    OBVIOUS
  <2>2. ASSUME i + 1 <= n PROVE f[i + 1] = g[i + 1]
    <3>1. i + 1 \in 1..n /\ (i + 1) - 1 = i /\ i <= n
      BY <2>1, <2>2
    <3>2. f[(i + 1) - 1] = g[(i + 1) - 1] => f[i + 1] = g[i + 1]
      BY <3>1
    <3> QED BY <2>1, <3>1, <3>2
  <2> QED BY <2>1, <2>2
<1>3. n \in Good
  <2> HIDE DEF Good
  <2> QED BY <1>1, <1>2, Induction
<1> QED BY <1>3

-----------------------------------------------------------------------------
(* Reading and writing a sequence to its end.                                *)

\* What FlattenSeq builds up ...
Flattening(q, f) == f = [i \in 1..Len(q) |-> IF i = 1 THEN q[i] ELSE f[i - 1] \o q[i]]

\* ... and that it does.
LEMMA FlattenIs ==
    ASSUME NEW S, NEW q \in Seq(Seq(S)), q # <<>>
    PROVE  \E f : /\ Flattening(q, f) /\ f \in [1..Len(q) -> Seq(S)]
                  /\ FlattenSeq(q) = f[Len(q)]
<1> DEFINE m == Len(q) - 1
           step == [p \in (1..m) \X Seq(S) |-> p[2] \o q[p[1] + 1]]
<1>1. m \in Nat /\ Len(q) = m + 1
  OBVIOUS
<1>2. \A i \in 1..Len(q) : q[i] \in Seq(S)
  OBVIOUS
<1>3. \A i \in 1..m, d \in Seq(S) : step[<<i, d>>] = d \o q[i + 1] /\ step[<<i, d>>] \in Seq(S)
  <2>1. ASSUME NEW i \in 1..m, NEW d \in Seq(S)
        PROVE  step[<<i, d>>] = d \o q[i + 1] /\ step[<<i, d>>] \in Seq(S)
    <3>1. i + 1 \in 1..Len(q) /\ <<i, d>> \in (1..m) \X Seq(S)
      BY <1>1
    <3>2. q[i + 1] \in Seq(S)
      BY <1>2, <3>1
    <3>3. step[<<i, d>>] = <<i, d>>[2] \o q[<<i, d>>[1] + 1]
      BY <3>1
    <3>4. <<i, d>>[1] = i /\ <<i, d>>[2] = d
      OBVIOUS
    <3>5. d \o q[i + 1] \in Seq(S)
      BY <3>2
    <3> QED BY <3>3, <3>4, <3>5
  <2> QED BY <2>1
<1> HIDE DEF m, step
<1>4. PICK g : Runs(g, m, Seq(S), q[1], step)
  <2>1. q[1] \in Seq(S)
    BY <1>1, <1>2
  <2>2. Steps(m, Seq(S), step)
    BY <1>3 DEF Steps
  <2> QED BY <1>1, <2>1, <2>2, Recursion
<1>5. /\ g \in [0..m -> Seq(S)] /\ g[0] = q[1]
      /\ \A i \in 1..m : g[i] = step[<<i, g[i - 1]>>]
  BY <1>4 DEF Runs
<1> DEFINE f == [i \in 1..Len(q) |-> g[i - 1]]
<1>6. f \in [1..Len(q) -> Seq(S)]
  BY <1>1, <1>5
<1>7. \A i \in 1..Len(q) : f[i] = IF i = 1 THEN q[i] ELSE f[i - 1] \o q[i]
  <2>1. ASSUME NEW i \in 1..Len(q), i # 1 PROVE f[i] = f[i - 1] \o q[i]
    <3>1. i - 1 \in 1..m /\ i - 1 \in 1..Len(q) /\ (i - 1) + 1 = i /\ (i - 1) - 1 \in 0..m
      BY <1>1, <2>1
    <3>2. g[i - 1] = step[<<i - 1, g[(i - 1) - 1]>>] /\ g[(i - 1) - 1] \in Seq(S)
      BY <1>5, <3>1
    <3>3. g[i - 1] = g[(i - 1) - 1] \o q[(i - 1) + 1]
      BY <1>3, <3>1, <3>2
    <3> QED BY <3>1, <3>3
  <2>2. f[1] = q[1]
    BY <1>1, <1>5
  <2> QED BY <2>1, <2>2
<1>8. f = [i \in 1..Len(q) |-> f[i]]
  OBVIOUS
<1> HIDE DEF f
<1>9. Flattening(q, f)
  BY <1>7, <1>8 DEF Flattening
<1>10. \A h : Flattening(q, h) => h[Len(q)] = f[Len(q)]
  <2> SUFFICES ASSUME NEW h, Flattening(q, h) PROVE h[Len(q)] = f[Len(q)]
    OBVIOUS
  <2> DEFINE a == [i \in 0..m |-> h[i + 1]]
             b == [i \in 0..m |-> f[i + 1]]
  <2>1. a[0] = b[0]
    BY <1>1, <1>9 DEF Flattening
  <2>2. ASSUME NEW i \in 1..m, a[i - 1] = b[i - 1] PROVE a[i] = b[i]
    <3>1. i + 1 \in 1..Len(q) /\ i + 1 # 1 /\ (i + 1) - 1 = i /\ i - 1 \in 0..m /\ i \in 0..m
          /\ (i - 1) + 1 = i
      BY <1>1
    <3>2. h[i + 1] = h[i] \o q[i + 1] /\ f[i + 1] = f[i] \o q[i + 1]
      BY <1>9, <3>1 DEF Flattening
    <3> QED BY <2>2, <3>1, <3>2
  <2>3. a[m] = h[Len(q)] /\ b[m] = f[Len(q)]
    BY <1>1
  <2> HIDE DEF a, b
  <2> QED BY <1>1, <2>1, <2>2, <2>3, SameRecursion
<1>11. FlattenSeq(q) = (CHOOSE h : Flattening(q, h))[Len(q)]
  BY <1>1 DEF FlattenSeq, Flattening
<1> QED BY <1>6, <1>9, <1>10, <1>11

\* What FlattenSeq makes of one sequence more.
LEMMA FlattenAppend ==
    ASSUME NEW S, NEW q \in Seq(Seq(S)), NEW x \in Seq(S)
    PROVE  FlattenSeq(q) \in Seq(S) /\ FlattenSeq(Append(q, x)) = FlattenSeq(q) \o x
<1> DEFINE r == Append(q, x)
<1>1. /\ r \in Seq(Seq(S)) /\ r # <<>> /\ Len(r) = Len(q) + 1 /\ Len(q) \in Nat
      /\ r[Len(r)] = x /\ \A i \in 1..Len(q) : r[i] = q[i]
  <2> DEFINE D == Seq(S)
  <2> HIDE DEF D
  <2>1. q \in Seq(D) /\ x \in D
    BY DEF D
  <2>2. r \in Seq(D) /\ Len(r) = Len(q) + 1 /\ Len(q) \in Nat
        /\ r[Len(q) + 1] = x /\ \A i \in 1..Len(q) : r[i] = q[i]
    BY <2>1
  <2>3. r # <<>>
    BY <2>1
  <2> HIDE DEF r
  <2> QED BY <2>2, <2>3 DEF D
<1> HIDE DEF r
<1>2. PICK g : Flattening(r, g) /\ FlattenSeq(r) = g[Len(r)]
  BY <1>1, FlattenIs
<1>3. CASE q = <<>>
  <2>1. FlattenSeq(q) = <<>>
    BY <1>3 DEF FlattenSeq
  <2>2. g[1] = x /\ Len(r) = 1
    BY <1>1, <1>2, <1>3 DEF Flattening
  <2> QED BY <1>2, <2>1, <2>2 DEF r
<1>4. CASE q # <<>>
  <2>1. PICK f : /\ Flattening(q, f) /\ f \in [1..Len(q) -> Seq(S)]
                 /\ FlattenSeq(q) = f[Len(q)]
    BY <1>4, FlattenIs
  <2> DEFINE m == Len(q) - 1
             a == [i \in 0..m |-> f[i + 1]]
             b == [i \in 0..m |-> g[i + 1]]
  <2>2. m \in Nat /\ Len(q) = m + 1 /\ Len(q) \in 1..Len(q)
    BY <1>1, <1>4
  <2>3. a[0] = b[0]
    BY <1>1, <1>2, <2>1, <2>2 DEF Flattening
  <2>4. ASSUME NEW i \in 1..m, a[i - 1] = b[i - 1] PROVE a[i] = b[i]
    <3>1. i + 1 \in 1..Len(q) /\ i + 1 \in 1..Len(r) /\ i + 1 # 1 /\ (i + 1) - 1 = i
          /\ i - 1 \in 0..m /\ i \in 0..m /\ (i - 1) + 1 = i
      BY <1>1, <2>2
    <3>2. f[i + 1] = f[i] \o q[i + 1] /\ g[i + 1] = g[i] \o r[i + 1]
      BY <1>2, <2>1, <3>1 DEF Flattening
    <3> QED BY <1>1, <2>4, <3>1, <3>2
  <2>5. a[m] = f[Len(q)] /\ b[m] = g[Len(q)]
    BY <2>2
  <2>6. f[Len(q)] = g[Len(q)]
    <3> HIDE DEF a, b
    <3> QED BY <2>2, <2>3, <2>4, <2>5, SameRecursion
  <2>7. g[Len(r)] = g[Len(q)] \o x
    <3>1. Len(r) \in 1..Len(r) /\ Len(r) # 1 /\ Len(r) - 1 = Len(q)
      BY <1>1, <2>2
    <3>2. g[Len(r)] = g[Len(r) - 1] \o r[Len(r)]
      BY <1>2, <3>1 DEF Flattening
    <3> QED BY <1>1, <3>1, <3>2
  <2> QED BY <1>2, <2>1, <2>2, <2>6, <2>7 DEF r
<1> QED BY <1>3, <1>4

-----------------------------------------------------------------------------
\* The bytes.
Bytes == 0..255

\* What may have been read of some bytes, and converted of them.
Readings == [out : Seq(Nat), need : 0..2, acc : Nat]
Conversions == [out : Seq(Nat), need : 0..3, acc : Nat, least : Nat, valid : BOOLEAN]

\* What is taken of a byte is a number.
LEMMA BitsOfByte ==
    ASSUME NEW b \in Bytes, NEW a \in Nat
    PROVE  /\ b % 32 \in Nat /\ b % 16 \in Nat /\ b % 8 \in Nat /\ b % 64 \in Nat
           /\ a * 64 + (b % 64) \in Nat /\ 65280 + b \in Nat
           /\ b \div 32 \in Nat /\ b \div 16 \in Nat
BY DEF Bytes

\* A reading that goes on is one.
LEMMA ReadingType ==
    ASSUME NEW out \in Seq(Nat), NEW need \in 0..2, NEW acc \in Nat
    PROVE  Reading(out, need, acc) \in Readings
BY DEF Reading, Readings

\* A reading with one byte more is one.
LEMMA TakeByteType ==
    ASSUME NEW st \in Readings, NEW b \in Bytes
    PROVE  TakeByte(st, b) \in Readings
<1>1. st.out \in Seq(Nat) /\ st.need \in {0, 1, 2} /\ st.acc \in Nat /\ b \in Nat
  BY DEF Readings, Bytes
<1>2. /\ b % 32 \in Nat /\ b % 16 \in Nat /\ st.acc * 64 + (b % 64) \in Nat
      /\ (IF b < 128 THEN b ELSE 65280 + b) \in Nat
  BY <1>1, BitsOfByte
<1>3. /\ Append(st.out, st.acc * 64 + (b % 64)) \in Seq(Nat)
      /\ Append(st.out, IF b < 128 THEN b ELSE 65280 + b) \in Seq(Nat)
  BY <1>1, <1>2
<1>4. 0 \in 0..2 /\ 1 \in 0..2 /\ 2 \in 0..2 /\ 0 \in Nat
  OBVIOUS
<1>5. CASE st.need = 0
  <2>1. \/ TakeByte(st, b) = Reading(st.out, 1, b % 32)
        \/ TakeByte(st, b) = Reading(st.out, 2, b % 16)
        \/ TakeByte(st, b) = Reading(Append(st.out, IF b < 128 THEN b ELSE 65280 + b), 0, 0)
    BY <1>5 DEF TakeByte
  <2>2. Reading(st.out, 1, b % 32) \in Readings
    BY <1>1, <1>2, <1>4, ReadingType
  <2>3. Reading(st.out, 2, b % 16) \in Readings
    BY <1>1, <1>2, <1>4, ReadingType
  <2>4. Reading(Append(st.out, IF b < 128 THEN b ELSE 65280 + b), 0, 0) \in Readings
    <3> DEFINE more == Append(st.out, IF b < 128 THEN b ELSE 65280 + b)
    <3>1. more \in Seq(Nat)
      BY <1>3
    <3> HIDE DEF more
    <3>2. Reading(more, 0, 0) \in Readings
      BY <1>4, <3>1 DEF Reading, Readings
    <3> QED BY <3>2 DEF more
  <2> QED BY <2>1, <2>2, <2>3, <2>4
<1>6. CASE st.need = 1
  <2>1. TakeByte(st, b) = Reading(Append(st.out, st.acc * 64 + (b % 64)), 0, 0)
    BY <1>6 DEF TakeByte
  <2> QED BY <1>1, <1>3, <2>1 DEF Reading, Readings
<1>7. CASE st.need = 2
  <2>1. TakeByte(st, b) = Reading(st.out, 1, st.acc * 64 + (b % 64))
    BY <1>7 DEF TakeByte
  <2> QED BY <1>1, <1>2, <2>1 DEF Reading, Readings
<1> QED BY <1>1, <1>5, <1>6, <1>7

\* A conversion that goes on is one ...
LEMMA ConvertingType ==
    ASSUME NEW out \in Seq(Nat), NEW need \in 0..3, NEW acc \in Nat, NEW least \in Nat
    PROVE  Converting(out, need, acc, least) \in Conversions
BY DEF Converting, Conversions

\* ... and so is one with one byte more.
LEMMA ConvertByteType ==
    ASSUME NEW st \in Conversions, NEW b \in Bytes
    PROVE  ConvertByte(st, b) \in Conversions
<1> DEFINE ch == st.acc * 64 + (b % 64)
           stopped == [st EXCEPT !.valid = FALSE]
<1>1. st.out \in Seq(Nat) /\ st.need \in 0..3 /\ st.acc \in Nat /\ st.least \in Nat
      /\ st.valid \in BOOLEAN /\ b \in Nat
  BY DEF Conversions, Bytes
<1>2. b % 32 \in Nat /\ b % 16 \in Nat /\ b % 8 \in Nat /\ ch \in Nat
  BY <1>1, BitsOfByte
<1>3. Append(st.out, ch) \in Seq(Nat) /\ Append(st.out, b) \in Seq(Nat)
  BY <1>1, <1>2
<1>4. stopped \in Conversions
  BY DEF Conversions
<1>5. 0 \in 0..3 /\ 1 \in 0..3 /\ 2 \in 0..3 /\ 3 \in 0..3 /\ {0, 128, 2048, 65536} \subseteq Nat
  OBVIOUS
<1>6. CASE ~st.valid
  BY <1>6 DEF ConvertByte
<1> HIDE DEF stopped, ch
<1>7. CASE st.valid /\ st.need = 0
  <2>1. \/ ConvertByte(st, b) = Converting(Append(st.out, b), 0, 0, 0)
        \/ ConvertByte(st, b) = Converting(st.out, 1, b % 32, 128)
        \/ ConvertByte(st, b) = Converting(st.out, 2, b % 16, 2048)
        \/ ConvertByte(st, b) = Converting(st.out, 3, b % 8, 65536)
        \/ ConvertByte(st, b) = stopped
    BY <1>7 DEF ConvertByte, stopped
  <2>2. Converting(Append(st.out, b), 0, 0, 0) \in Conversions
    BY <1>3 DEF Converting, Conversions
  <2>3. Converting(st.out, 1, b % 32, 128) \in Conversions
    BY <1>1, <1>2, <1>5, ConvertingType
  <2>4. Converting(st.out, 2, b % 16, 2048) \in Conversions
    BY <1>1, <1>2, <1>5, ConvertingType
  <2>5. Converting(st.out, 3, b % 8, 65536) \in Conversions
    BY <1>1, <1>2, <1>5, ConvertingType
  <2> QED BY <1>4, <2>1, <2>2, <2>3, <2>4, <2>5
<1>8. CASE st.valid /\ st.need # 0
  <2>1. \/ ConvertByte(st, b) = stopped
        \/ ConvertByte(st, b) = Converting(Append(st.out, ch), 0, 0, 0)
        \/ st.need > 1 /\ ConvertByte(st, b) = Converting(st.out, st.need - 1, ch, st.least)
    <3>1. CASE b \div 64 # 2
      BY <1>8, <3>1 DEF ConvertByte, stopped
    <3>2. CASE b \div 64 = 2 /\ st.need > 1
      <4>1. ConvertByte(st, b) = Converting(st.out, st.need - 1, ch, st.least)
        BY <1>1, <1>8, <3>2 DEF ConvertByte, ch
      <4> QED BY <3>2, <4>1
    <3>3. CASE b \div 64 = 2 /\ ~(st.need > 1)
      <4> DEFINE bad == ch < st.least \/ ch > 1114111 \/ ch \in 55296..57343
      <4>1. ConvertByte(st, b) = IF bad THEN stopped ELSE Converting(Append(st.out, ch), 0, 0, 0)
        BY <1>1, <1>8, <3>3 DEF ConvertByte, ch, stopped
      <4> HIDE DEF bad
      <4> QED BY <4>1
    <3> QED BY <3>1, <3>2, <3>3
  <2>2. st.need > 1 => st.need - 1 \in 0..3
    BY <1>1
  <2>3. Converting(Append(st.out, ch), 0, 0, 0) \in Conversions
    BY <1>3 DEF Converting, Conversions
  <2>4. st.need > 1 => Converting(st.out, st.need - 1, ch, st.least) \in Conversions
    BY <1>1, <1>2, <2>2, ConvertingType
  <2> QED BY <1>4, <2>1, <2>3, <2>4
<1> QED BY <1>6, <1>7, <1>8

\* f goes through the bytes b from start on.
Reads(f, b, D, start, step) ==
    /\ f \in [0..Len(b) -> D]
    /\ f[0] = start /\ \A i \in 1..Len(b) : f[i] = step[<<f[i - 1], b[i]>>]

\* There is such a function for every sequence of bytes.
LEMMA ReadsExist ==
    ASSUME NEW b \in Seq(Bytes), NEW D, NEW start \in D, NEW step \in [D \X Bytes -> D]
    PROVE  \E f : Reads(f, b, D, start, step)
<1> DEFINE m == Len(b)
           onto == [p \in (1..m) \X D |-> step[<<p[2], b[p[1]]>>]]
<1>1. m \in Nat /\ \A i \in 1..m : b[i] \in Bytes
  OBVIOUS
<1>2. ASSUME NEW i \in 1..m, NEW d \in D
      PROVE  onto[<<i, d>>] = step[<<d, b[i]>>] /\ onto[<<i, d>>] \in D
  <2>1. <<i, d>> \in (1..m) \X D /\ <<i, d>>[1] = i /\ <<i, d>>[2] = d
    OBVIOUS
  <2>2. onto[<<i, d>>] = step[<<d, b[i]>>]
    BY <2>1
  <2>3. <<d, b[i]>> \in D \X Bytes
    BY <1>1
  <2> QED BY <2>2, <2>3
<1> HIDE DEF onto
<1>3. PICK f : Runs(f, m, D, start, onto)
  BY <1>1, <1>2, Recursion DEF Steps
<1>4. /\ f \in [0..m -> D] /\ f[0] = start
      /\ \A i \in 1..m : f[i] = onto[<<i, f[i - 1]>>]
  BY <1>3 DEF Runs
<1>5. ASSUME NEW n \in 1..m PROVE f[n] = step[<<f[n - 1], b[n]>>]
  <2>1. f[n - 1] \in D
    BY <1>1, <1>4
  <2> QED BY <1>2, <1>4, <2>1
<1> QED BY <1>4, <1>5 DEF Reads

\* One byte more is one step more.
LEMMA ReadsAppend ==
    ASSUME NEW b \in Seq(Bytes), NEW x \in Bytes, NEW D, NEW start, NEW step,
           NEW f, NEW g, Reads(f, b, D, start, step), Reads(g, Append(b, x), D, start, step)
    PROVE  g[Len(Append(b, x))] = step[<<f[Len(b)], x>>]
<1> DEFINE m == Len(b)
           c == Append(b, x)
<1>1. m \in Nat /\ Len(c) = m + 1 /\ c[m + 1] = x /\ \A i \in 1..m : c[i] = b[i]
  OBVIOUS
<1>2. f[0] = start /\ \A i \in 1..m : f[i] = step[<<f[i - 1], b[i]>>]
  BY DEF Reads
<1>3. g[0] = start /\ \A i \in 1..Len(c) : g[i] = step[<<g[i - 1], c[i]>>]
  BY DEF Reads
<1> HIDE DEF m, c
<1>4. f[m] = g[m]
  <2>1. ASSUME NEW i \in 1..m, f[i - 1] = g[i - 1] PROVE f[i] = g[i]
    <3>1. i \in 1..Len(c) /\ c[i] = b[i]
      BY <1>1
    <3> QED BY <1>2, <1>3, <2>1, <3>1
  <2> QED BY <1>1, <1>2, <1>3, <2>1, SameRecursion
<1>5. g[m + 1] = step[<<g[m], x>>]
  <2>1. m + 1 \in 1..Len(c) /\ (m + 1) - 1 = m
    BY <1>1
  <2>2. g[m + 1] = step[<<g[(m + 1) - 1], c[m + 1]>>]
    BY <1>3, <2>1
  <2> QED BY <1>1, <2>1, <2>2
<1> QED BY <1>1, <1>4, <1>5 DEF m, c

\* Whatever goes on as f does ends as f does.
Follows(h, b, D, start, step) ==
    h[0] = start /\ \A i \in 1..Len(b) : h[i - 1] \in D => h[i] = step[<<h[i - 1], b[i]>>]

\* A function that follows the same rule is that one.
LEMMA ReadsOnly ==
    ASSUME NEW b \in Seq(Bytes), NEW D, NEW start, NEW step, NEW f, NEW h,
           Reads(f, b, D, start, step), Follows(h, b, D, start, step)
    PROVE  h[Len(b)] = f[Len(b)]
<1> DEFINE m == Len(b)
<1>1. m \in Nat
  OBVIOUS
<1>2. /\ f \in [0..m -> D] /\ f[0] = start
      /\ \A i \in 1..m : f[i] = step[<<f[i - 1], b[i]>>]
  BY DEF Reads
<1>3. ASSUME NEW i \in 1..m, h[i - 1] = f[i - 1] PROVE h[i] = f[i]
  <2>1. f[i - 1] \in D
    BY <1>1, <1>2
  <2> QED BY <1>2, <1>3, <2>1 DEF Follows
<1> HIDE DEF m
<1>4. h[m] = f[m]
  <2>1. h[0] = f[0]
    BY <1>2 DEF Follows
  <2> QED BY <1>1, <1>3, <2>1, SameRecursion
<1> QED BY <1>4 DEF m

\* UTF8ToUTF16 takes byte by byte: a byte more is one step more.
LEMMA TakenIs ==
    ASSUME NEW b \in Seq(Bytes)
    PROVE  /\ Taken(b) \in Readings
           /\ b = <<>> => Taken(b) = Reading(<<>>, 0, 0)
           /\ \A x \in Bytes : Taken(Append(b, x)) = TakeByte(Taken(b), x)
<1> DEFINE start == Reading(<<>>, 0, 0)
           step == [p \in Readings \X Bytes |-> TakeByte(p[1], p[2])]
           Is(f, c) == f = [n \in 0..Len(c) |-> IF n = 0 THEN start ELSE TakeByte(f[n - 1], c[n])]
<1>1. start \in Readings
  <2>1. <<>> \in Seq(Nat) /\ 0 \in 0..2 /\ 0 \in Nat
    OBVIOUS
  <2> QED BY <2>1, ReadingType
<1>2. step \in [Readings \X Bytes -> Readings]
  BY TakeByteType
<1>3. \A st \in Readings, x \in Bytes : step[<<st, x>>] = TakeByte(st, x)
  OBVIOUS
<1>4. \A c : Taken(c) = (CHOOSE f : Is(f, c))[Len(c)]
  BY DEF Taken
<1>5. \A c, f : Is(f, c) <=>
        f = [n \in 0..Len(c) |-> IF n = 0 THEN start ELSE TakeByte(f[n - 1], c[n])]
  OBVIOUS
<1> HIDE DEF start, step, Is
<1>6. ASSUME NEW c \in Seq(Bytes), NEW f, Reads(f, c, Readings, start, step)
      PROVE  Taken(c) = f[Len(c)] /\ f[Len(c)] \in Readings
  <2> DEFINE h == CHOOSE g : Is(g, c)
  <2>1. Len(c) \in Nat /\ \A i \in 1..Len(c) : c[i] \in Bytes
    OBVIOUS
  <2>2. /\ f \in [0..Len(c) -> Readings] /\ f[0] = start
        /\ \A i \in 1..Len(c) : f[i] = step[<<f[i - 1], c[i]>>]
    BY <1>6 DEF Reads
  <2>3. \A i \in 1..Len(c) : f[i] = TakeByte(f[i - 1], c[i])
    <3>1. \A i \in 1..Len(c) : f[i - 1] \in Readings
      BY <2>1, <2>2
    <3> QED BY <1>3, <2>1, <2>2, <3>1
  <2>4. f = [n \in 0..Len(c) |-> f[n]]
    BY <2>2
  <2>5. Is(f, c)
    <3>1. \A n \in 0..Len(c) : f[n] = IF n = 0 THEN start ELSE TakeByte(f[n - 1], c[n])
      BY <2>1, <2>2, <2>3
    <3>2. f = [n \in 0..Len(c) |-> IF n = 0 THEN start ELSE TakeByte(f[n - 1], c[n])]
      BY <2>4, <3>1
    <3> QED BY <1>5, <3>2
  <2>6. Is(h, c)
    BY <2>5
  <2> HIDE DEF h
  <2>7. h[0] = start /\ \A i \in 1..Len(c) : h[i] = TakeByte(h[i - 1], c[i])
    BY <1>5, <2>1, <2>6
  <2>8. \A i \in 1..Len(c) : h[i - 1] \in Readings => h[i] = step[<<h[i - 1], c[i]>>]
    BY <1>3, <2>1, <2>7
  <2>9. h[Len(c)] = f[Len(c)]
    <3>1. Follows(h, c, Readings, start, step)
      BY <2>7, <2>8 DEF Follows
    <3> QED BY <1>6, <3>1, ReadsOnly
  <2> QED BY <1>4, <2>1, <2>2, <2>9 DEF h
<1>7. PICK f : Reads(f, b, Readings, start, step)
  BY <1>1, <1>2, ReadsExist
<1>8. ASSUME NEW x \in Bytes PROVE Taken(Append(b, x)) = TakeByte(Taken(b), x)
  <2>1. Append(b, x) \in Seq(Bytes)
    OBVIOUS
  <2>2. PICK g : Reads(g, Append(b, x), Readings, start, step)
    BY <1>1, <1>2, <2>1, ReadsExist
  <2>3. g[Len(Append(b, x))] = step[<<f[Len(b)], x>>]
    BY <1>7, <2>2, ReadsAppend
  <2> QED BY <1>3, <1>6, <1>7, <2>1, <2>2, <2>3
<1>9. ASSUME b = <<>> PROVE Taken(b) = start
  <2>1. f[0] = start
    BY <1>7 DEF Reads
  <2> QED BY <1>6, <1>7, <1>9, <2>1
<1> QED BY <1>6, <1>7, <1>8, <1>9 DEF start
\* iconv converts byte by byte.
LEMMA ConvertedIs ==
    ASSUME NEW b \in Seq(Bytes)
    PROVE  /\ Converted(b) \in Conversions
           /\ b = <<>> => Converted(b) = Converting(<<>>, 0, 0, 0)
           /\ \A x \in Bytes : Converted(Append(b, x)) = ConvertByte(Converted(b), x)
<1> DEFINE start == Converting(<<>>, 0, 0, 0)
           step == [p \in Conversions \X Bytes |-> ConvertByte(p[1], p[2])]
           Is(f, c) == f = [n \in 0..Len(c) |->
                             IF n = 0 THEN start ELSE ConvertByte(f[n - 1], c[n])]
<1>1. start \in Conversions
  <2>1. <<>> \in Seq(Nat) /\ 0 \in 0..3 /\ 0 \in Nat
    OBVIOUS
  <2> QED BY <2>1, ConvertingType
<1>2. step \in [Conversions \X Bytes -> Conversions]
  BY ConvertByteType
<1>3. \A st \in Conversions, x \in Bytes : step[<<st, x>>] = ConvertByte(st, x)
  OBVIOUS
<1>4. \A c : Converted(c) = (CHOOSE f : Is(f, c))[Len(c)]
  BY DEF Converted
<1>5. \A c, f : Is(f, c) <=>
        f = [n \in 0..Len(c) |-> IF n = 0 THEN start ELSE ConvertByte(f[n - 1], c[n])]
  OBVIOUS
<1> HIDE DEF start, step, Is
<1>6. ASSUME NEW c \in Seq(Bytes), NEW f, Reads(f, c, Conversions, start, step)
      PROVE  Converted(c) = f[Len(c)] /\ f[Len(c)] \in Conversions
  <2> DEFINE h == CHOOSE g : Is(g, c)
  <2>1. Len(c) \in Nat /\ \A i \in 1..Len(c) : c[i] \in Bytes
    OBVIOUS
  <2>2. /\ f \in [0..Len(c) -> Conversions] /\ f[0] = start
        /\ \A i \in 1..Len(c) : f[i] = step[<<f[i - 1], c[i]>>]
    BY <1>6 DEF Reads
  <2>3. \A i \in 1..Len(c) : f[i] = ConvertByte(f[i - 1], c[i])
    <3>1. \A i \in 1..Len(c) : f[i - 1] \in Conversions
      BY <2>1, <2>2
    <3> QED BY <1>3, <2>1, <2>2, <3>1
  <2>4. f = [n \in 0..Len(c) |-> f[n]]
    BY <2>2
  <2>5. Is(f, c)
    <3>1. \A n \in 0..Len(c) : f[n] = IF n = 0 THEN start ELSE ConvertByte(f[n - 1], c[n])
      BY <2>1, <2>2, <2>3
    <3>2. f = [n \in 0..Len(c) |-> IF n = 0 THEN start ELSE ConvertByte(f[n - 1], c[n])]
      BY <2>4, <3>1
    <3> QED BY <1>5, <3>2
  <2>6. Is(h, c)
    BY <2>5
  <2> HIDE DEF h
  <2>7. h[0] = start /\ \A i \in 1..Len(c) : h[i] = ConvertByte(h[i - 1], c[i])
    BY <1>5, <2>1, <2>6
  <2>8. \A i \in 1..Len(c) : h[i - 1] \in Conversions => h[i] = step[<<h[i - 1], c[i]>>]
    BY <1>3, <2>1, <2>7
  <2>9. h[Len(c)] = f[Len(c)]
    <3>1. Follows(h, c, Conversions, start, step)
      BY <2>7, <2>8 DEF Follows
    <3> QED BY <1>6, <3>1, ReadsOnly
  <2> QED BY <1>4, <2>1, <2>2, <2>9 DEF h
<1>7. PICK f : Reads(f, b, Conversions, start, step)
  BY <1>1, <1>2, ReadsExist
<1>8. ASSUME NEW x \in Bytes PROVE Converted(Append(b, x)) = ConvertByte(Converted(b), x)
  <2>1. Append(b, x) \in Seq(Bytes)
    OBVIOUS
  <2>2. PICK g : Reads(g, Append(b, x), Conversions, start, step)
    BY <1>1, <1>2, <2>1, ReadsExist
  <2>3. g[Len(Append(b, x))] = step[<<f[Len(b)], x>>]
    BY <1>7, <2>2, ReadsAppend
  <2> QED BY <1>3, <1>6, <1>7, <2>1, <2>2, <2>3
<1>9. ASSUME b = <<>> PROVE Converted(b) = start
  <2>1. f[0] = start
    BY <1>7 DEF Reads
  <2> QED BY <1>6, <1>7, <1>9, <2>1
<1> QED BY <1>6, <1>7, <1>8, <1>9 DEF start

-----------------------------------------------------------------------------
(* The bytes of a character.                                                 *)

\* The characters there are, and their bytes.
Codepoints == {ch \in Nat : ch <= 1114111 /\ ~(55296 <= ch /\ ch <= 57343)}

Utf8(ch) ==
    IF ch < 65536 THEN BytesOfUnit(ch, 0) ELSE BytesOfUnit(Utf16(ch)[1], Utf16(ch)[2])

\* A code point is put together of its groups of six bits.
LEMMA SixBits ==
    ASSUME NEW n \in Nat, n <= 1114111
    PROVE  /\ n \div 64 \in Nat /\ n % 64 \in 0..63 /\ n = (n \div 64) * 64 + (n % 64)
           /\ n \div 4096 \in Nat /\ (n \div 64) % 64 \in 0..63
           /\ n \div 64 = (n \div 4096) * 64 + ((n \div 64) % 64)
           /\ n \div 262144 \in 0..4 /\ (n \div 4096) % 64 \in 0..63
           /\ n \div 4096 = (n \div 262144) * 64 + ((n \div 4096) % 64)
OBVIOUS

\* A surrogate pair is put together to the character it was made from.
LEMMA PairOf ==
    ASSUME NEW ch \in Codepoints, ch >= 65536
    PROVE  /\ Utf16(ch)[1] \in Nat /\ 55296 <= Utf16(ch)[1] /\ Utf16(ch)[1] <= 56319
           /\ Utf16(ch)[2] \in Nat /\ 56320 <= Utf16(ch)[2] /\ Utf16(ch)[2] <= 57343
           /\ Utf16(ch) = <<Utf16(ch)[1], Utf16(ch)[2]>>
           /\ (Utf16(ch)[1] - 55296) * 1024 + (Utf16(ch)[2] - 56320) + 65536 = ch
<1> DEFINE h == (ch - 65536) \div 1024
           l == (ch - 65536) % 1024
<1>1. /\ h \in Nat /\ h <= 1023 /\ l \in Nat /\ l <= 1023
      /\ ch \in Nat /\ ch - 65536 = h * 1024 + l
  BY DEF Codepoints
<1>2. Utf16(ch) = <<55296 + h, 56320 + l>>
  BY <1>1 DEF Utf16
<1> HIDE DEF h, l
<1>3. Utf16(ch)[1] = 55296 + h /\ Utf16(ch)[2] = 56320 + l
  BY <1>2
<1> QED BY <1>1, <1>2, <1>3

\* The bytes of a character, by its length.
LEMMA BytesOf ==
    ASSUME NEW ch \in Codepoints
    PROVE  /\ ch < 128 => Utf8(ch) = <<ch>>
           /\ 128 <= ch /\ ch < 2048 => Utf8(ch) = <<192 + ch \div 64, 128 + (ch % 64)>>
           /\ 2048 <= ch /\ ch < 65536 =>
                Utf8(ch) = <<224 + ch \div 4096, 128 + ((ch \div 64) % 64), 128 + (ch % 64)>>
           /\ 65536 <= ch =>
                Utf8(ch) = <<240 + ch \div 262144, 128 + ((ch \div 4096) % 64),
                             128 + ((ch \div 64) % 64), 128 + (ch % 64)>>
<1>1. ch \in Nat /\ ch <= 1114111 /\ ch \div 1 = ch
  BY DEF Codepoints
<1>2. ch < 65536 => ~IsHigh(ch) /\ Utf8(ch) = BytesOfUnit(ch, 0)
  BY <1>1, SMT DEF Codepoints, IsHigh, Utf8
<1>3. ch < 128 => Utf8(ch) = <<ch>>
  BY <1>1, <1>2, SMT DEF BytesOfUnit
<1>4. ASSUME 128 <= ch, ch < 2048 PROVE Utf8(ch) = <<192 + ch \div 64, 128 + (ch % 64)>>
  <2>1. Utf8(ch) = <<192 + ch \div 64, Continuation(ch, 1)>>
    BY <1>1, <1>2, <1>4, SMT DEF BytesOfUnit
  <2> QED BY <1>1, <2>1 DEF Continuation
<1>5. ASSUME 2048 <= ch, ch < 65536
      PROVE  Utf8(ch) = <<224 + ch \div 4096, 128 + ((ch \div 64) % 64), 128 + (ch % 64)>>
  <2>1. Utf8(ch) = <<224 + ch \div 4096, Continuation(ch, 64), Continuation(ch, 1)>>
    BY <1>1, <1>2, <1>5, SMT DEF BytesOfUnit
  <2> QED BY <1>1, <2>1 DEF Continuation
<1>6. ASSUME 65536 <= ch
      PROVE  Utf8(ch) = <<240 + ch \div 262144, 128 + ((ch \div 4096) % 64),
                          128 + ((ch \div 64) % 64), 128 + (ch % 64)>>
  <2> DEFINE u == Utf16(ch)[1]
             v == Utf16(ch)[2]
  <2>1. /\ u \in Nat /\ v \in Nat /\ 55296 <= u /\ u <= 56319
        /\ (u - 55296) * 1024 + (v - 56320) + 65536 = ch
    BY <1>1, <1>6, PairOf
  <2>2. Utf8(ch) = BytesOfUnit(u, v)
    BY <1>1, <1>6 DEF Utf8
  <2> HIDE DEF u, v
  <2>3. BytesOfUnit(u, v) = <<240 + ch \div 262144, Continuation(ch, 4096),
                              Continuation(ch, 64), Continuation(ch, 1)>>
    <3> DEFINE code == (u - 55296) * 1024 + (v - 56320) + 65536
    <3>1. IsHigh(u) /\ ~(u < 128) /\ u \notin 128..2047
      BY <2>1, SMT DEF IsHigh
    <3>2. BytesOfUnit(u, v) = <<240 + code \div 262144, Continuation(code, 4096),
                                Continuation(code, 64), Continuation(code, 1)>>
      BY <3>1 DEF BytesOfUnit
    <3>3. code = ch
      BY <2>1
    <3> HIDE DEF code
    <3> QED BY <3>2, <3>3
  <2> QED BY <1>1, <1>6, <2>2, <2>3 DEF Continuation
<1> QED BY <1>3, <1>4, <1>5, <1>6

\* iconv begins a character with its first byte ...
LEMMA ConvertLead ==
    ASSUME NEW out, NEW b \in Bytes
    PROVE  /\ b < 128 =>
                ConvertByte(Converting(out, 0, 0, 0), b) = Converting(Append(out, b), 0, 0, 0)
           /\ b \in 192..223 =>
                ConvertByte(Converting(out, 0, 0, 0), b) = Converting(out, 1, b % 32, 128)
           /\ b \in 224..239 =>
                ConvertByte(Converting(out, 0, 0, 0), b) = Converting(out, 2, b % 16, 2048)
           /\ b \in 240..247 =>
                ConvertByte(Converting(out, 0, 0, 0), b) = Converting(out, 3, b % 8, 65536)
<1> DEFINE st == Converting(out, 0, 0, 0)
<1>1. st.valid /\ st.need = 0 /\ st.out = out
  BY DEF Converting
<1> HIDE DEF st
<1>2. b \in Nat
  BY DEF Bytes
<1>3. CASE b < 128
  BY <1>1, <1>2, <1>3 DEF ConvertByte, st
<1>4. CASE b \in 192..223
  BY <1>1, <1>2, <1>4 DEF ConvertByte, st
<1>5. CASE b \in 224..239
  BY <1>1, <1>2, <1>5 DEF ConvertByte, st
<1>6. CASE b \in 240..247
  BY <1>1, <1>2, <1>6 DEF ConvertByte, st
<1> QED BY <1>1, <1>2, <1>3, <1>4, <1>5, <1>6 DEF st

\* ... goes on with the next bytes ...
LEMMA ConvertMore ==
    ASSUME NEW out, NEW need, NEW more, NEW acc, NEW least, NEW b, NEW ch,
           need \in {2, 3}, more = need - 1, acc \in Nat, b \in 128..191,
           ch = acc * 64 + (b - 128)
    PROVE  ConvertByte(Converting(out, need, acc, least), b) = Converting(out, more, ch, least)
<1> DEFINE st == Converting(out, need, acc, least)
<1>1. st.valid /\ st.need = need /\ st.out = out /\ st.acc = acc /\ st.least = least
  BY DEF Converting
<1>2. b \div 64 = 2 /\ b % 64 = b - 128 /\ ch \in Nat
  OBVIOUS
<1> HIDE DEF st
<1>3. st.acc * 64 + (b % 64) = ch
  BY <1>1, <1>2
<1>4. ConvertByte(st, b) = Converting(out, more, ch, least)
  BY <1>1, <1>2, <1>3, SMT DEF ConvertByte
<1> QED BY <1>4 DEF st

\* A character is complete.
Finished(out, ch) == Converting(Append(out, ch), 0, 0, 0)

\* ... and is complete with the last.
LEMMA ConvertLast ==
    ASSUME NEW out, NEW acc, NEW least, NEW b, NEW ch,
           ch \in Codepoints, acc \in Nat, b \in 128..191,
           ch = acc * 64 + (b - 128), ~(ch < least)
    PROVE  ConvertByte(Converting(out, 1, acc, least), b) = Finished(out, ch)
<1> DEFINE st == Converting(out, 1, acc, least)
<1>1. st.valid /\ st.need = 1 /\ st.out = out /\ st.acc = acc /\ st.least = least
  BY DEF Converting
<1>2. b \div 64 = 2 /\ b % 64 = b - 128 /\ ch \in Nat
  OBVIOUS
<1> HIDE DEF st
<1>3. st.acc * 64 + (b % 64) = ch
  BY <1>1, <1>2
<1>4. ~(ch < least) /\ ~(ch > 1114111) /\ ~(55296 <= ch /\ ch <= 57343)
  BY <1>2 DEF Codepoints
<1>5. ConvertByte(st, b) = Finished(out, ch)
  BY <1>1, <1>2, <1>3, <1>4, SMT DEF ConvertByte, Finished
<1> QED BY <1>5 DEF st

\* The bytes u lead from start to end.
Conversion(start, u, end) ==
    \/ \E x \in Bytes : u = <<x>> /\ ConvertByte(start, x) = end
    \/ \E x, y \in Bytes : u = <<x, y>> /\ ConvertByte(ConvertByte(start, x), y) = end
    \/ \E x, y, z \in Bytes :
        u = <<x, y, z>> /\ ConvertByte(ConvertByte(ConvertByte(start, x), y), z) = end
    \/ \E x, y, z, w \in Bytes :
        /\ u = <<x, y, z, w>>
        /\ ConvertByte(ConvertByte(ConvertByte(ConvertByte(start, x), y), z), w) = end

\* The bytes of a character are converted to it.
LEMMA ConvertChar ==
    ASSUME NEW out, NEW ch \in Codepoints
    PROVE  Conversion(Converting(out, 0, 0, 0), Utf8(ch), Converting(Append(out, ch), 0, 0, 0))
<1> DEFINE start == Converting(out, 0, 0, 0)
           end == Finished(out, ch)
           b1 == 128 + (ch % 64)
           b2 == 128 + ((ch \div 64) % 64)
           b3 == 128 + ((ch \div 4096) % 64)
           q1 == ch \div 64
           q2 == ch \div 4096
           q3 == ch \div 262144
<1>1. ch \in Nat /\ ch <= 1114111
  BY DEF Codepoints
<1>2. /\ b1 \in 128..191 /\ b2 \in 128..191 /\ b3 \in 128..191
      /\ q1 \in Nat /\ q2 \in Nat /\ q3 \in 0..4
      /\ ch = q1 * 64 + (b1 - 128) /\ q1 = q2 * 64 + (b2 - 128) /\ q2 = q3 * 64 + (b3 - 128)
  BY <1>1, SixBits
<1> HIDE DEF b1, b2, b3, q1, q2, q3
<1>3. b1 \in Bytes /\ b2 \in Bytes /\ b3 \in Bytes
  BY <1>2 DEF Bytes
<1> HIDE DEF start, end
<1>4. ASSUME ch < 128 PROVE Conversion(start, Utf8(ch), end)
  <2>1. Utf8(ch) = <<ch>> /\ ch \in Bytes
    BY <1>1, <1>4, BytesOf DEF Bytes
  <2>2. ConvertByte(start, ch) = end
    BY <1>1, <1>4, <2>1, ConvertLead DEF start, end, Finished
  <2> QED BY <2>1, <2>2 DEF Conversion
<1>5. ASSUME 128 <= ch /\ ch < 2048 PROVE Conversion(start, Utf8(ch), end)
  <2> DEFINE x == 192 + q1
  <2>1. Utf8(ch) = <<x, b1>>
    BY <1>5, BytesOf DEF b1, q1
  <2>2. x \in Bytes /\ x \in 192..223 /\ x % 32 = q1
    <3>1. q1 \in 2..31
      BY <1>2, <1>5
    <3> QED BY <3>1 DEF Bytes
  <2> HIDE DEF x
  <2>3. ConvertByte(start, x) = Converting(out, 1, q1, 128)
    BY <2>2, ConvertLead DEF start
  <2>4. ConvertByte(Converting(out, 1, q1, 128), b1) = end
    BY <1>1, <1>2, <1>5, ConvertLast DEF end
  <2> QED BY <1>3, <2>1, <2>2, <2>3, <2>4 DEF Conversion
<1>6. ASSUME 2048 <= ch /\ ch < 65536 PROVE Conversion(start, Utf8(ch), end)
  <2> DEFINE x == 224 + q2
  <2>1. Utf8(ch) = <<x, b2, b1>>
    BY <1>6, BytesOf DEF b1, b2, q2
  <2>2. x \in Bytes /\ x \in 224..239 /\ x % 16 = q2
    <3>1. q2 \in 0..15
      BY <1>2, <1>6
    <3> QED BY <3>1 DEF Bytes
  <2> HIDE DEF x
  <2>3. ConvertByte(start, x) = Converting(out, 2, q2, 2048)
    BY <2>2, ConvertLead DEF start
  <2>4. ConvertByte(Converting(out, 2, q2, 2048), b2)
            = Converting(out, 1, q1, 2048)
    BY <1>2, ConvertMore
  <2>5. ConvertByte(Converting(out, 1, q1, 2048), b1) = end
    BY <1>1, <1>2, <1>6, ConvertLast DEF end
  <2> QED BY <1>3, <2>1, <2>2, <2>3, <2>4, <2>5 DEF Conversion
<1>7. ASSUME 65536 <= ch PROVE Conversion(start, Utf8(ch), end)
  <2> DEFINE x == 240 + q3
  <2>1. Utf8(ch) = <<x, b3, b2, b1>>
    BY <1>7, BytesOf DEF b1, b2, b3, q3
  <2>2. x \in Bytes /\ x \in 240..247 /\ x % 8 = q3
    BY <1>2 DEF Bytes
  <2> HIDE DEF x
  <2>3. ConvertByte(start, x) = Converting(out, 3, q3, 65536)
    BY <2>2, ConvertLead DEF start
  <2>4. ConvertByte(Converting(out, 3, q3, 65536), b3)
            = Converting(out, 2, q2, 65536)
    BY <1>2, ConvertMore
  <2>5. ConvertByte(Converting(out, 2, q2, 65536), b2)
            = Converting(out, 1, q1, 65536)
    BY <1>2, ConvertMore
  <2>6. ConvertByte(Converting(out, 1, q1, 65536), b1) = end
    BY <1>1, <1>2, <1>7, ConvertLast DEF end
  <2> QED BY <1>3, <2>1, <2>2, <2>3, <2>4, <2>5, <2>6 DEF Conversion
<1>8. Conversion(start, Utf8(ch), end)
  BY <1>1, <1>4, <1>5, <1>6, <1>7
<1> QED BY <1>8 DEF start, end, Finished

\* A few elements joined to a sequence are appended one by one.
LEMMA Joined ==
    ASSUME NEW D, NEW b \in Seq(D)
    PROVE  /\ \A x \in D : b \o <<x>> = Append(b, x) /\ Append(b, x) \in Seq(D)
           /\ \A x, y \in D : b \o <<x, y>> = Append(Append(b, x), y)
           /\ \A x, y, z \in D : b \o <<x, y, z>> = Append(Append(Append(b, x), y), z)
           /\ \A x, y, z, w \in D :
                b \o <<x, y, z, w>> = Append(Append(Append(Append(b, x), y), z), w)
<1>1. \A x \in D : b \o <<x>> = Append(b, x) /\ Append(b, x) \in Seq(D)
  OBVIOUS
<1>2. \A x, y \in D : b \o <<x, y>> = Append(Append(b, x), y)
  OBVIOUS
<1>3. \A x, y, z \in D : b \o <<x, y, z>> = Append(Append(Append(b, x), y), z)
  OBVIOUS
<1>4. \A x, y, z, w \in D : b \o <<x, y, z, w>> = Append(Append(Append(Append(b, x), y), z), w)
  OBVIOUS
<1> QED BY <1>1, <1>2, <1>3, <1>4

\* A character's bytes more are the character more.
LEMMA ConvertedChar ==
    ASSUME NEW b \in Seq(Bytes), NEW out, Converted(b) = Converting(out, 0, 0, 0),
           NEW ch \in Codepoints
    PROVE  /\ b \o Utf8(ch) \in Seq(Bytes) /\ Utf8(ch) \in Seq(Bytes)
           /\ Converted(b \o Utf8(ch)) = Converting(Append(out, ch), 0, 0, 0)
<1> DEFINE u == Utf8(ch)
           start == Converting(out, 0, 0, 0)
           end == Converting(Append(out, ch), 0, 0, 0)
<1>1. Conversion(start, u, end)
  BY ConvertChar
<1>2. Converted(b) = start
  OBVIOUS
<1> HIDE DEF u, start, end
<1>3. ASSUME NEW c \in Seq(Bytes), NEW x \in Bytes
      PROVE  Append(c, x) \in Seq(Bytes) /\ Converted(Append(c, x)) = ConvertByte(Converted(c), x)
  BY <1>3, Joined, ConvertedIs
<1>4. CASE \E x \in Bytes : u = <<x>> /\ ConvertByte(start, x) = end
  <2>1. PICK x \in Bytes : u = <<x>> /\ ConvertByte(start, x) = end
    BY <1>4
  <2>2. b \o u = Append(b, x) /\ u \in Seq(Bytes)
    BY <2>1, Joined
  <2> QED BY <1>2, <1>3, <2>1, <2>2 DEF u, end
<1>5. CASE \E x, y \in Bytes : u = <<x, y>> /\ ConvertByte(ConvertByte(start, x), y) = end
  <2>1. PICK x \in Bytes, y \in Bytes : u = <<x, y>> /\ ConvertByte(ConvertByte(start, x), y) = end
    BY <1>5
  <2>2. b \o u = Append(Append(b, x), y) /\ u \in Seq(Bytes)
    BY <2>1, Joined
  <2>3. Append(b, x) \in Seq(Bytes) /\ Converted(Append(b, x)) = ConvertByte(start, x)
    BY <1>2, <1>3
  <2> QED BY <1>3, <2>1, <2>2, <2>3 DEF u, end
<1>6. CASE \E x, y, z \in Bytes :
              u = <<x, y, z>> /\ ConvertByte(ConvertByte(ConvertByte(start, x), y), z) = end
  <2>1. PICK x \in Bytes, y \in Bytes, z \in Bytes :
              u = <<x, y, z>> /\ ConvertByte(ConvertByte(ConvertByte(start, x), y), z) = end
    BY <1>6
  <2> DEFINE c == Append(b, x)
             d == Append(c, y)
  <2>2. b \o u = Append(d, z) /\ u \in Seq(Bytes)
    BY <2>1, Joined
  <2>3. c \in Seq(Bytes) /\ Converted(c) = ConvertByte(start, x)
    BY <1>2, <1>3
  <2>4. d \in Seq(Bytes) /\ Converted(d) = ConvertByte(ConvertByte(start, x), y)
    <3> HIDE DEF c
    <3> QED BY <1>3, <2>3
  <2> HIDE DEF c, d
  <2> QED BY <1>3, <2>1, <2>2, <2>4 DEF u, end
<1>7. CASE \E x, y, z, w \in Bytes :
              /\ u = <<x, y, z, w>>
              /\ ConvertByte(ConvertByte(ConvertByte(ConvertByte(start, x), y), z), w) = end
  <2>1. PICK x \in Bytes, y \in Bytes, z \in Bytes, w \in Bytes :
              /\ u = <<x, y, z, w>>
              /\ ConvertByte(ConvertByte(ConvertByte(ConvertByte(start, x), y), z), w) = end
    BY <1>7
  <2> DEFINE c == Append(b, x)
             d == Append(c, y)
             e == Append(d, z)
  <2>2. b \o u = Append(e, w) /\ u \in Seq(Bytes)
    BY <2>1, Joined
  <2>3. c \in Seq(Bytes) /\ Converted(c) = ConvertByte(start, x)
    BY <1>2, <1>3
  <2>4. d \in Seq(Bytes) /\ Converted(d) = ConvertByte(ConvertByte(start, x), y)
    <3> HIDE DEF c
    <3> QED BY <1>3, <2>3
  <2>5. e \in Seq(Bytes) /\ Converted(e) = ConvertByte(ConvertByte(ConvertByte(start, x), y), z)
    <3> HIDE DEF d
    <3> QED BY <1>3, <2>4
  <2> HIDE DEF c, d, e
  <2> QED BY <1>3, <2>1, <2>2, <2>5 DEF u, end
<1> QED BY <1>1, <1>4, <1>5, <1>6, <1>7 DEF Conversion, u, end

-----------------------------------------------------------------------------
(* The bytes of a text.                                                      *)

\* What continues a sequence by one element.
LEMMA AppendIs ==
    ASSUME NEW D, NEW q \in Seq(D), NEW x \in D, NEW r \in Seq(D), Len(r) = Len(q) + 1,
           r[Len(q) + 1] = x, \A i \in 1..Len(q) : r[i] = q[i]
    PROVE  r = Append(q, x)
<1> DEFINE a == Append(q, x)
<1>1. /\ a \in Seq(D) /\ Len(a) = Len(q) + 1
      /\ a[Len(q) + 1] = x /\ \A i \in 1..Len(q) : a[i] = q[i]
  BY AppendProperties
<1>2. Len(q) \in Nat
  OBVIOUS
<1> HIDE DEF a
<1>3. \A i \in 1..Len(r) : r[i] = a[i]
  BY <1>1, <1>2
<1>4. r = a
  BY <1>1, <1>3, SeqEqual
<1> QED BY <1>4 DEF a

\* A character more is its units more.
LEMMA UnitsAppend ==
    ASSUME NEW s \in Seq(Codepoints)
    PROVE  /\ Units(s) \in Seq(Nat) /\ Units(<<>>) = <<>>
           /\ \A ch \in Codepoints : Units(Append(s, ch)) = Units(s) \o Utf16(ch)
<1> DEFINE q == [i \in DOMAIN s |-> Utf16(s[i])]
<1>1. \A ch \in Codepoints : Utf16(ch) \in Seq(Nat)
  <2>1. ASSUME NEW ch \in Codepoints PROVE Utf16(ch) \in Seq(Nat)
    <3>1. CASE ch < 65536
      BY <3>1 DEF Utf16, Codepoints
    <3>2. CASE ch >= 65536
      <4> DEFINE h == Utf16(ch)[1]
                 l == Utf16(ch)[2]
      <4>1. h \in Nat /\ l \in Nat /\ Utf16(ch) = <<h, l>>
        BY <3>2, PairOf
      <4> HIDE DEF h, l
      <4>2. <<h, l>> \in Seq(Nat)
        BY <4>1
      <4> QED BY <4>1, <4>2
    <3> QED BY <3>1, <3>2 DEF Codepoints
  <2> QED BY <2>1
<1>2. DOMAIN s = 1..Len(s) /\ Len(s) \in Nat /\ \A i \in 1..Len(s) : s[i] \in Codepoints
  OBVIOUS
<1>3. q \in Seq(Seq(Nat))
  <2> DEFINE D == Seq(Nat)
  <2>1. \A i \in 1..Len(s) : Utf16(s[i]) \in D
    BY <1>1, <1>2
  <2> HIDE DEF D
  <2>2. q \in Seq(D)
    BY <1>2, <2>1
  <2> QED BY <2>2 DEF D
<1>4. Units(s) = FlattenSeq(q)
  BY DEF Units
<1>5. ASSUME NEW ch \in Codepoints PROVE Units(Append(s, ch)) = Units(s) \o Utf16(ch)
  <2> DEFINE t == Append(s, ch)
             r == [i \in DOMAIN t |-> Utf16(t[i])]
             v == Utf16(ch)
  <2>1. /\ t \in Seq(Codepoints) /\ Len(t) = Len(s) + 1 /\ DOMAIN t = 1..Len(t)
        /\ t[Len(t)] = ch /\ \A i \in 1..Len(s) : t[i] = s[i]
    OBVIOUS
  <2>2. Units(t) = FlattenSeq(r)
    BY DEF Units
  <2>4. v \in Seq(Nat)
    BY <1>1
  <2>3. r = Append(q, v)
    <3> HIDE DEF t
    <3>1. Len(q) = Len(s)
      BY <1>2
    <3>2. r[Len(q) + 1] = v /\ \A i \in 1..Len(q) : r[i] = q[i]
      BY <1>2, <2>1, <3>1
    <3> DEFINE D == Seq(Nat)
    <3>3. \A i \in 1..(Len(q) + 1) : r[i] \in D
      BY <1>1, <2>1, <3>1
    <3>4. r \in Seq(D) /\ Len(r) = Len(q) + 1
      <4> HIDE DEF D
      <4> QED BY <1>2, <2>1, <3>1, <3>3
    <3>5. q \in Seq(D) /\ v \in D
      BY <1>3, <2>4
    <3> HIDE DEF r, q, v, D
    <3> QED BY <3>2, <3>4, <3>5, AppendIs
  <2> HIDE DEF t, r, q, v
  <2>5. FlattenSeq(Append(q, v)) = FlattenSeq(q) \o v
    BY <1>3, <2>4, FlattenAppend
  <2> QED BY <1>4, <2>2, <2>3, <2>5 DEF t, v
<1>6. Units(<<>>) = <<>>
  BY DEF Units, FlattenSeq
<1> HIDE DEF q
<1>7. FlattenSeq(q) \in Seq(Nat)
  <2>1. <<>> \in Seq(Nat)
    OBVIOUS
  <2> QED BY <1>3, <2>1, FlattenAppend
<1> QED BY <1>4, <1>5, <1>6, <1>7

\* A function on 1..n is a sequence.
LEMMA SequenceOf ==
    ASSUME NEW D, NEW n \in Nat, NEW r, r = [i \in 1..n |-> r[i]], \A i \in 1..n : r[i] \in D
    PROVE  r \in Seq(D) /\ Len(r) = n
<1> DEFINE s == [i \in 1..n |-> r[i]]
<1>1. s \in [1..n -> D]
  OBVIOUS
<1>2. s \in Seq(D) /\ Len(s) = n
  BY <1>1
<1> QED BY <1>2

\* What the units of a string become, one by one.
Pieces(u) ==
    [i \in DOMAIN u |-> IF i > 1 /\ IsHigh(u[i - 1]) THEN <<>>
                        ELSE BytesOfUnit(u[i], IF i < Len(u) THEN u[i + 1] ELSE 0)]

\* The string does not end within a pair.
Whole(u) == u # <<>> => ~IsHigh(u[Len(u)])

\* UTF16ToUTF8 flattens the pieces.
LEMMA PiecesOf == \A u : UTF16ToUTF8(u) = FlattenSeq(Pieces(u))
BY DEF UTF16ToUTF8, Pieces

\* Only of a high surrogate the unit behind matters.
LEMMA NextIgnored ==
    ASSUME NEW unit \in Nat, ~IsHigh(unit), NEW m, NEW n
    PROVE  BytesOfUnit(unit, m) = BytesOfUnit(unit, n)
BY SMT DEF BytesOfUnit

\* What stands behind a string does not change what it becomes.
LEMMA PiecesPrefix ==
    ASSUME NEW u \in Seq(Nat), Whole(u), NEW t \in Seq(Nat), Len(t) >= Len(u),
           \A i \in 1..Len(u) : t[i] = u[i]
    PROVE  \A i \in 1..Len(u) : Pieces(t)[i] = Pieces(u)[i]
<1> SUFFICES ASSUME NEW i \in 1..Len(u) PROVE Pieces(t)[i] = Pieces(u)[i]
  OBVIOUS
<1>1. /\ i \in DOMAIN u /\ i \in DOMAIN t /\ Len(u) \in Nat /\ Len(t) \in Nat
      /\ u[i] \in Nat /\ t[i] = u[i] /\ u # <<>>
  OBVIOUS
<1>2. i > 1 => t[i - 1] = u[i - 1]
  <2>1. i > 1 => i - 1 \in 1..Len(u)
    BY <1>1
  <2> QED BY <2>1
<1>3. /\ Pieces(t)[i] = IF i > 1 /\ IsHigh(t[i - 1]) THEN <<>>
                        ELSE BytesOfUnit(t[i], IF i < Len(t) THEN t[i + 1] ELSE 0)
      /\ Pieces(u)[i] = IF i > 1 /\ IsHigh(u[i - 1]) THEN <<>>
                        ELSE BytesOfUnit(u[i], IF i < Len(u) THEN u[i + 1] ELSE 0)
  BY <1>1 DEF Pieces
<1>4. CASE i < Len(u)
  <2>1. i < Len(t) /\ i + 1 \in 1..Len(u)
    BY <1>1, <1>4
  <2>2. t[i + 1] = u[i + 1]
    BY <2>1
  <2> QED BY <1>1, <1>2, <1>3, <1>4, <2>1, <2>2
<1>5. CASE i = Len(u)
  <2>1. ~IsHigh(u[i])
    BY <1>1, <1>5 DEF Whole
  <2>2. BytesOfUnit(t[i], IF i < Len(t) THEN t[i + 1] ELSE 0)
            = BytesOfUnit(u[i], IF i < Len(u) THEN u[i + 1] ELSE 0)
    BY <1>1, <2>1, NextIgnored
  <2> QED BY <1>1, <1>2, <1>3, <2>2
<1> QED BY <1>1, <1>4, <1>5

\* A unit more is a piece more ...
LEMMA PiecesUnit ==
    ASSUME NEW u \in Seq(Nat), Whole(u), NEW a \in Nat, ~IsHigh(a),
           Pieces(u) \in Seq(Seq(Bytes)), BytesOfUnit(a, 0) \in Seq(Bytes)
    PROVE  Pieces(Append(u, a)) = Append(Pieces(u), BytesOfUnit(a, 0))
<1> DEFINE t == Append(u, a)
           p == Pieces(u)
           r == Pieces(t)
           n == Len(u)
           x == BytesOfUnit(a, 0)
           D == Seq(Bytes)
<1>1. /\ n \in Nat /\ t \in Seq(Nat) /\ Len(t) = n + 1 /\ t[n + 1] = a
      /\ \A i \in 1..n : t[i] = u[i]
  OBVIOUS
<1>2. Len(p) = n
  BY <1>1 DEF Pieces
<1> HIDE DEF t
<1>3. Len(r) = n + 1 /\ r = [i \in 1..(n + 1) |-> r[i]]
  BY <1>1 DEF Pieces
<1>4. \A i \in 1..n : r[i] = p[i]
  <2>1. Len(t) >= n
    BY <1>1
  <2> QED BY <1>1, <2>1, PiecesPrefix
<1>5. r[n + 1] = x
  <2>1. n + 1 \in DOMAIN t
    BY <1>1
  <2>2. n + 1 > 1 => ~IsHigh(t[n])
    <3>1. n + 1 > 1 => n \in 1..n /\ u # <<>>
      BY <1>1
    <3> QED BY <1>1, <3>1 DEF Whole
  <2>3. r[n + 1] = IF n + 1 > 1 /\ IsHigh(t[(n + 1) - 1]) THEN <<>>
                   ELSE BytesOfUnit(t[n + 1], IF n + 1 < Len(t) THEN t[n + 2] ELSE 0)
    BY <1>1, <2>1 DEF Pieces
  <2> QED BY <1>1, <2>2, <2>3
<1> HIDE DEF p, r, x, D, n
<1>6. p \in Seq(D) /\ x \in D
  BY DEF p, x, D
<1>7. \A i \in 1..(n + 1) : r[i] \in D
  <2>1. \A i \in 1..(n + 1) : i \in 1..n \/ i = n + 1
    BY <1>1
  <2>2. \A i \in 1..n : p[i] \in D
    BY <1>2, <1>6
  <2> QED BY <1>4, <1>5, <1>6, <2>1, <2>2
<1>8. r \in Seq(D)
  <2>1. n + 1 \in Nat
    BY <1>1
  <2> QED BY <1>3, <1>7, <2>1, SequenceOf
<1>9. r = Append(p, x)
  BY <1>2, <1>3, <1>4, <1>5, <1>6, <1>8, AppendIs
<1> QED BY <1>9 DEF t, p, r, x

\* ... and a pair more is one and an empty one.
LEMMA PiecesPair ==
    ASSUME NEW u \in Seq(Nat), Whole(u), NEW h \in Nat, NEW l \in Nat, IsHigh(h),
           Pieces(u) \in Seq(Seq(Bytes)), BytesOfUnit(h, l) \in Seq(Bytes)
    PROVE  Pieces(Append(Append(u, h), l)) = Append(Append(Pieces(u), BytesOfUnit(h, l)), <<>>)
<1> DEFINE v == Append(u, h)
           t == Append(v, l)
           p == Pieces(u)
           r == Pieces(t)
           n == Len(u)
           x == BytesOfUnit(h, l)
           D == Seq(Bytes)
           q == Append(p, x)
<1>1. /\ n \in Nat /\ v \in Seq(Nat) /\ Len(v) = n + 1 /\ v[n + 1] = h
      /\ \A i \in 1..n : v[i] = u[i]
  OBVIOUS
<1>2. Len(p) = n
  BY <1>1 DEF Pieces
<1> HIDE DEF v
<1>3. /\ t \in Seq(Nat) /\ Len(t) = n + 2 /\ t[n + 2] = l
      /\ \A i \in 1..(n + 1) : t[i] = v[i]
  BY <1>1
<1> HIDE DEF t
<1>4. t[n + 1] = h /\ \A i \in 1..n : t[i] = u[i]
  <2>1. n + 1 \in 1..(n + 1) /\ \A i \in 1..n : i \in 1..(n + 1)
    BY <1>1
  <2> QED BY <1>1, <1>3, <2>1
<1>5. Len(r) = n + 2 /\ r = [i \in 1..(n + 2) |-> r[i]]
  BY <1>1, <1>3 DEF Pieces
<1>6. \A i \in 1..n : r[i] = p[i]
  <2>1. Len(t) >= n
    BY <1>1, <1>3
  <2> QED BY <1>3, <1>4, <2>1, PiecesPrefix
<1>7. r[n + 1] = x
  <2>1. n + 1 \in DOMAIN t
    BY <1>1, <1>3
  <2>2. n + 1 > 1 => ~IsHigh(t[n])
    <3>1. n + 1 > 1 => n \in 1..n /\ u # <<>>
      BY <1>1
    <3> QED BY <1>1, <1>4, <3>1 DEF Whole
  <2>3. r[n + 1] = IF n + 1 > 1 /\ IsHigh(t[(n + 1) - 1]) THEN <<>>
                   ELSE BytesOfUnit(t[n + 1], IF n + 1 < Len(t) THEN t[n + 2] ELSE 0)
    BY <1>1, <1>3, <2>1 DEF Pieces
  <2> QED BY <1>1, <1>3, <1>4, <2>2, <2>3
<1>8. r[n + 2] = <<>>
  <2>1. n + 2 \in DOMAIN t /\ n + 2 > 1 /\ (n + 2) - 1 = n + 1
    BY <1>1, <1>3
  <2> QED BY <1>4, <2>1 DEF Pieces
<1> HIDE DEF p, r, x, D, n
<1>9. p \in Seq(D) /\ x \in D /\ <<>> \in D
  BY DEF p, x, D
<1>10. /\ q \in Seq(D) /\ Len(q) = n + 1
       /\ q[n + 1] = x /\ \A i \in 1..n : q[i] = p[i]
  BY <1>2, <1>9, AppendProperties
<1> HIDE DEF q
<1>11. \A i \in 1..(n + 2) : r[i] \in D
  <2>1. \A i \in 1..(n + 2) : i \in 1..n \/ i = n + 1 \/ i = n + 2
    BY <1>1
  <2>2. \A i \in 1..n : p[i] \in D
    BY <1>2, <1>9
  <2> QED BY <1>6, <1>7, <1>8, <1>9, <2>1, <2>2
<1>12. r \in Seq(D)
  <2>1. n + 2 \in Nat
    BY <1>1
  <2> QED BY <1>5, <1>11, <2>1, SequenceOf
<1>13. \A i \in 1..(n + 1) : r[i] = q[i]
  BY <1>1, <1>6, <1>7, <1>10
<1>14. r = Append(q, <<>>)
  <2>1. Len(r) = Len(q) + 1 /\ r[Len(q) + 1] = <<>> /\ \A i \in 1..Len(q) : r[i] = q[i]
    <3>1. (n + 1) + 1 = n + 2
      BY <1>1
    <3> QED BY <1>5, <1>8, <1>10, <1>13, <3>1
  <2> QED BY <1>9, <1>10, <1>12, <2>1, AppendIs
<1> QED BY <1>14 DEF t, v, p, r, x, q

\* What becomes of a text: bytes, which are converted to it.
Encoded(s) ==
    /\ Whole(Units(s)) /\ Pieces(Units(s)) \in Seq(Seq(Bytes))
    /\ UTF16ToUTF8(Units(s)) \in Seq(Bytes)
    /\ Converted(UTF16ToUTF8(Units(s))) = Converting(s, 0, 0, 0)

\* With the pieces of a character, the bytes grow by those of the character.
LEMMA TextGrows ==
    ASSUME NEW s \in Seq(Codepoints), Encoded(s), NEW ch \in Codepoints
    PROVE  /\ Encoded(Append(s, ch))
           /\ UTF16ToUTF8(Units(Append(s, ch))) = UTF16ToUTF8(Units(s)) \o Utf8(ch)
<1> DEFINE u == Units(s)
           v == Units(Append(s, ch))
           p == Pieces(u)
           x == Utf8(ch)
           D == Seq(Bytes)
           b == FlattenSeq(p)
<1>1. u \in Seq(Nat) /\ v = u \o Utf16(ch)
  BY UnitsAppend
<1>2. b = UTF16ToUTF8(u)
  BY PiecesOf
<1>3. Whole(u) /\ p \in Seq(D) /\ b \in Seq(Bytes) /\ Converted(b) = Converting(s, 0, 0, 0)
  BY <1>2 DEF Encoded
<1> HIDE DEF b
<1>4. x \in D /\ b \o x \in Seq(Bytes) /\ Converted(b \o x) = Converting(Append(s, ch), 0, 0, 0)
  BY <1>3, ConvertedChar
<1> SUFFICES Whole(v) /\ Pieces(v) \in Seq(D) /\ FlattenSeq(Pieces(v)) = b \o x
  BY <1>2, <1>4, PiecesOf DEF Encoded
<1>5. FlattenSeq(Append(p, x)) = b \o x /\ Append(p, x) \in Seq(D)
  <2>1. Append(p, x) \in Seq(D)
    <3> HIDE DEF p, x, D
    <3> QED BY <1>3, <1>4
  <2> QED BY <1>3, <1>4, <2>1, FlattenAppend DEF b
<1>6. CASE ch < 65536
  <2>1. ch \in Nat /\ ~IsHigh(ch)
    BY <1>6, SMT DEF Codepoints, IsHigh
  <2>2. v = Append(u, ch)
    <3>1. Utf16(ch) = <<ch>>
      BY <1>6 DEF Utf16
    <3> HIDE DEF u, v
    <3> QED BY <1>1, <2>1, <3>1
  <2>3. x = BytesOfUnit(ch, 0)
    BY <1>6 DEF Utf8
  <2> HIDE DEF u, v, x
  <2>4. Pieces(v) = Append(p, x)
    BY <1>1, <1>3, <1>4, <2>1, <2>2, <2>3, PiecesUnit
  <2>5. Whole(v)
    <3>1. Len(v) \in Nat /\ v[Len(v)] = ch
      BY <1>1, <2>1, <2>2
    <3> QED BY <2>1, <3>1 DEF Whole
  <2> QED BY <1>5, <2>4, <2>5
<1>7. CASE ch >= 65536
  <2> DEFINE h == Utf16(ch)[1]
             l == Utf16(ch)[2]
  <2>1. /\ h \in Nat /\ 55296 <= h /\ h <= 56319 /\ l \in Nat /\ 56320 <= l
        /\ Utf16(ch) = <<h, l>>
    BY <1>7, PairOf
  <2>2. x = BytesOfUnit(h, l)
    BY <1>7 DEF Utf8, Codepoints
  <2> HIDE DEF h, l
  <2>3. IsHigh(h) /\ ~IsHigh(l)
    BY <2>1, SMT DEF IsHigh
  <2>4. v = Append(Append(u, h), l)
    <3> DEFINE N == Nat
    <3>1. u \in Seq(N) /\ h \in N /\ l \in N
      BY <1>1, <2>1
    <3> HIDE DEF u, v, N
    <3>2. u \o <<h, l>> = Append(Append(u, h), l)
      BY <3>1, Joined
    <3> QED BY <1>1, <2>1, <3>2
  <2> HIDE DEF u, v, x
  <2>5. Pieces(v) = Append(Append(p, x), <<>>)
    <3>1. Pieces(Append(Append(u, h), l)) = Append(Append(Pieces(u), BytesOfUnit(h, l)), <<>>)
      BY <1>1, <1>3, <1>4, <2>1, <2>2, <2>3, PiecesPair
    <3> QED BY <2>2, <2>4, <3>1
  <2>6. Whole(v)
    <3>1. Len(v) \in Nat /\ v[Len(v)] = l
      BY <1>1, <2>1, <2>4
    <3> QED BY <2>3, <3>1 DEF Whole
  <2> DEFINE q == Append(p, x)
             e == <<>>
  <2>7. e \in Seq(Bytes) /\ q \in Seq(D) /\ FlattenSeq(q) = b \o x
    BY <1>5
  <2>8. b \o x \in Seq(Bytes)
    BY <1>4
  <2> HIDE DEF q, e, D
  <2>9. FlattenSeq(Append(q, e)) = (b \o x) \o e
    BY <2>7, FlattenAppend DEF D
  <2>10. (b \o x) \o e = b \o x
    BY <2>8 DEF e
  <2>11. Append(q, e) \in Seq(D)
    <3>1. e \in D
      BY <2>7 DEF D
    <3> QED BY <2>7, <3>1
  <2> QED BY <2>5, <2>6, <2>9, <2>10, <2>11 DEF q, e
<1>8. ch < 65536 \/ ch >= 65536
  BY DEF Codepoints
<1> QED BY <1>6, <1>7, <1>8

\* The bytes of a text are converted to the text.
LEMMA TextConverted == \A s \in Seq(Codepoints) : Encoded(s)
<1> DEFINE T == {s \in Seq(Codepoints) : Encoded(s)}
<1>1. <<>> \in T
  <2> DEFINE e == <<>>
  <2>1. e \in Seq(Codepoints) /\ e \in Seq(Bytes) /\ e \in Seq(Seq(Bytes))
    OBVIOUS
  <2>2. Pieces(e) = e /\ FlattenSeq(e) = e
    BY DEF Pieces, FlattenSeq
  <2>3. Units(e) = e
    BY <2>1, UnitsAppend
  <2>4. Converted(e) = Converting(e, 0, 0, 0)
    BY <2>1, ConvertedIs
  <2>5. UTF16ToUTF8(e) = e /\ Whole(e)
    BY <2>2, PiecesOf DEF Whole
  <2> HIDE DEF e
  <2>6. Encoded(e)
    BY <2>1, <2>2, <2>3, <2>4, <2>5 DEF Encoded
  <2> QED BY <2>1, <2>6 DEF e
<1>2. ASSUME NEW s \in T \cap Seq(Codepoints), NEW ch \in Codepoints PROVE Append(s, ch) \in T
  <2>1. Encoded(Append(s, ch))
    BY TextGrows
  <2>2. Append(s, ch) \in Seq(Codepoints)
    OBVIOUS
  <2> QED BY <2>1, <2>2
<1>3. Seq(Codepoints) \subseteq T
  <2> HIDE DEF T
  <2> QED BY <1>1, <1>2, SequenceInduction
<1> QED BY <1>3

-----------------------------------------------------------------------------
(* Reading it back.                                                          *)

\* What is one unit.
Plain == {ch \in Codepoints : ch < 65536}

\* A unit is complete.
Read(out, ch) == Reading(Append(out, ch), 0, 0)

\* The first byte of a unit ...
LEMMA TakeLead ==
    ASSUME NEW out, NEW b \in Bytes
    PROVE  /\ b < 128 => TakeByte(Reading(out, 0, 0), b) = Read(out, b)
           /\ b \in 192..223 => TakeByte(Reading(out, 0, 0), b) = Reading(out, 1, b % 32)
           /\ b \in 224..239 => TakeByte(Reading(out, 0, 0), b) = Reading(out, 2, b % 16)
<1> DEFINE st == Reading(out, 0, 0)
<1>1. st.need = 0 /\ st.out = out
  BY DEF Reading
<1> HIDE DEF st
<1>2. b \in Nat
  BY DEF Bytes
<1>3. ASSUME b < 128 PROVE TakeByte(st, b) = Read(out, b)
  <2>1. b \div 32 # 6 /\ b \div 16 # 14
    BY <1>2, <1>3
  <2> QED BY <1>1, <1>3, <2>1, SMT DEF TakeByte, Read
<1>4. ASSUME b \in 192..223 PROVE TakeByte(st, b) = Reading(out, 1, b % 32)
  <2>1. b \div 32 = 6
    BY <1>4
  <2>2. b \div 16 # 14
    BY <1>4
  <2> QED BY <1>1, <2>1, <2>2, SMT DEF TakeByte
<1>5. ASSUME b \in 224..239 PROVE TakeByte(st, b) = Reading(out, 2, b % 16)
  <2>1. b \div 32 # 6 /\ b \div 16 = 14
    BY <1>5
  <2> QED BY <1>1, <2>1, SMT DEF TakeByte
<1> QED BY <1>3, <1>4, <1>5 DEF st

\* ... and the ones behind it.
LEMMA TakeMore ==
    ASSUME NEW out, NEW acc, NEW b, NEW ch,
           acc \in Nat, b \in 128..191, ch = acc * 64 + (b - 128)
    PROVE  /\ TakeByte(Reading(out, 1, acc), b) = Read(out, ch)
           /\ TakeByte(Reading(out, 2, acc), b) = Reading(out, 1, ch)
<1> DEFINE one == Reading(out, 1, acc)
           two == Reading(out, 2, acc)
<1>1. /\ one.need = 1 /\ two.need = 2 /\ one.out = out /\ two.out = out
      /\ one.acc = acc /\ two.acc = acc
  BY DEF Reading
<1>2. b % 64 = b - 128 /\ acc * 64 + (b % 64) = ch
  OBVIOUS
<1> HIDE DEF one, two
<1>3. TakeByte(one, b) = Read(out, ch)
  BY <1>1, <1>2, SMT DEF TakeByte, Read
<1>4. TakeByte(two, b) = Reading(out, 1, ch)
  BY <1>1, <1>2, SMT DEF TakeByte
<1> QED BY <1>3, <1>4 DEF one, two

\* The bytes u lead from start to end.
TakenFrom(start, u, end) ==
    \/ \E x \in Bytes : u = <<x>> /\ TakeByte(start, x) = end
    \/ \E x, y \in Bytes : u = <<x, y>> /\ TakeByte(TakeByte(start, x), y) = end
    \/ \E x, y, z \in Bytes :
        u = <<x, y, z>> /\ TakeByte(TakeByte(TakeByte(start, x), y), z) = end

\* The bytes of a unit are read as it.
LEMMA TakeChar ==
    ASSUME NEW out, NEW ch \in Plain
    PROVE  TakenFrom(Reading(out, 0, 0), Utf8(ch), Reading(Append(out, ch), 0, 0))
<1> DEFINE start == Reading(out, 0, 0)
           end == Read(out, ch)
           b1 == 128 + (ch % 64)
           b2 == 128 + ((ch \div 64) % 64)
           q1 == ch \div 64
           q2 == ch \div 4096
<1>1. ch \in Nat /\ ch < 65536 /\ ch <= 1114111 /\ ch \in Codepoints
  BY DEF Plain, Codepoints
<1>2. /\ b1 \in 128..191 /\ b2 \in 128..191 /\ q1 \in Nat /\ q2 \in Nat
      /\ ch = q1 * 64 + (b1 - 128) /\ q1 = q2 * 64 + (b2 - 128)
  BY <1>1, SixBits
<1> HIDE DEF b1, b2, q1, q2
<1>3. b1 \in Bytes /\ b2 \in Bytes
  BY <1>2 DEF Bytes
<1> HIDE DEF start, end
<1>4. ASSUME ch < 128 PROVE TakenFrom(start, Utf8(ch), end)
  <2>1. Utf8(ch) = <<ch>> /\ ch \in Bytes
    BY <1>1, <1>4, BytesOf DEF Bytes
  <2>2. TakeByte(start, ch) = end
    BY <1>1, <1>4, <2>1, TakeLead DEF start, end
  <2> QED BY <2>1, <2>2 DEF TakenFrom
<1>5. ASSUME 128 <= ch /\ ch < 2048 PROVE TakenFrom(start, Utf8(ch), end)
  <2> DEFINE x == 192 + q1
  <2>1. Utf8(ch) = <<x, b1>>
    BY <1>1, <1>5, BytesOf DEF b1, q1
  <2>2. x \in Bytes /\ x \in 192..223 /\ x % 32 = q1
    <3>1. q1 \in 2..31
      BY <1>2, <1>5
    <3> QED BY <3>1 DEF Bytes
  <2> HIDE DEF x
  <2>3. TakeByte(start, x) = Reading(out, 1, q1)
    BY <2>2, TakeLead DEF start
  <2>4. TakeByte(Reading(out, 1, q1), b1) = end
    BY <1>1, <1>2, TakeMore DEF end
  <2> QED BY <1>3, <2>1, <2>2, <2>3, <2>4 DEF TakenFrom
<1>6. ASSUME 2048 <= ch PROVE TakenFrom(start, Utf8(ch), end)
  <2> DEFINE x == 224 + q2
  <2>1. Utf8(ch) = <<x, b2, b1>>
    BY <1>1, <1>6, BytesOf DEF b1, b2, q2
  <2>2. x \in Bytes /\ x \in 224..239 /\ x % 16 = q2
    <3>1. q2 \in 0..15
      BY <1>1, <1>2
    <3> QED BY <3>1 DEF Bytes
  <2> HIDE DEF x
  <2>3. TakeByte(start, x) = Reading(out, 2, q2)
    BY <2>2, TakeLead DEF start
  <2>4. TakeByte(Reading(out, 2, q2), b2) = Reading(out, 1, q1)
    BY <1>2, TakeMore
  <2>5. TakeByte(Reading(out, 1, q1), b1) = end
    BY <1>1, <1>2, TakeMore DEF end
  <2> QED BY <1>3, <2>1, <2>2, <2>3, <2>4, <2>5 DEF TakenFrom
<1>7. TakenFrom(start, Utf8(ch), end)
  BY <1>1, <1>4, <1>5, <1>6
<1> QED BY <1>7 DEF start, end, Read

\* A unit's bytes more are the unit more.
LEMMA TakenChar ==
    ASSUME NEW b \in Seq(Bytes), NEW out, Taken(b) = Reading(out, 0, 0), NEW ch \in Plain
    PROVE  Taken(b \o Utf8(ch)) = Reading(Append(out, ch), 0, 0)
<1> DEFINE u == Utf8(ch)
           start == Reading(out, 0, 0)
           end == Reading(Append(out, ch), 0, 0)
<1>1. TakenFrom(start, u, end)
  BY TakeChar
<1>2. Taken(b) = start
  OBVIOUS
<1> HIDE DEF u, start, end
<1>3. ASSUME NEW c \in Seq(Bytes), NEW x \in Bytes
      PROVE  Append(c, x) \in Seq(Bytes) /\ Taken(Append(c, x)) = TakeByte(Taken(c), x)
  BY <1>3, Joined, TakenIs
<1>4. CASE \E x \in Bytes : u = <<x>> /\ TakeByte(start, x) = end
  <2>1. PICK x \in Bytes : u = <<x>> /\ TakeByte(start, x) = end
    BY <1>4
  <2>2. b \o u = Append(b, x)
    BY <2>1, Joined
  <2> QED BY <1>2, <1>3, <2>1, <2>2 DEF u, end
<1>5. CASE \E x, y \in Bytes : u = <<x, y>> /\ TakeByte(TakeByte(start, x), y) = end
  <2>1. PICK x \in Bytes, y \in Bytes : u = <<x, y>> /\ TakeByte(TakeByte(start, x), y) = end
    BY <1>5
  <2>2. b \o u = Append(Append(b, x), y)
    BY <2>1, Joined
  <2>3. Append(b, x) \in Seq(Bytes) /\ Taken(Append(b, x)) = TakeByte(start, x)
    BY <1>2, <1>3
  <2> QED BY <1>3, <2>1, <2>2, <2>3 DEF u, end
<1>6. CASE \E x, y, z \in Bytes :
              u = <<x, y, z>> /\ TakeByte(TakeByte(TakeByte(start, x), y), z) = end
  <2>1. PICK x \in Bytes, y \in Bytes, z \in Bytes :
              u = <<x, y, z>> /\ TakeByte(TakeByte(TakeByte(start, x), y), z) = end
    BY <1>6
  <2> DEFINE c == Append(b, x)
             d == Append(c, y)
  <2>2. b \o u = Append(d, z)
    BY <2>1, Joined
  <2>3. c \in Seq(Bytes) /\ Taken(c) = TakeByte(start, x)
    BY <1>2, <1>3
  <2>4. d \in Seq(Bytes) /\ Taken(d) = TakeByte(TakeByte(start, x), y)
    <3> HIDE DEF c
    <3> QED BY <1>3, <2>3
  <2> HIDE DEF c, d
  <2> QED BY <1>3, <2>1, <2>2, <2>4 DEF u, end
<1> QED BY <1>1, <1>4, <1>5, <1>6 DEF TakenFrom, u, end

\* The bytes of a text without surrogates are read back as its units.
LEMMA TextTaken ==
    \A s \in Seq(Plain) : Units(s) = s /\ Taken(UTF16ToUTF8(Units(s))) = Reading(s, 0, 0)
<1> DEFINE T == {s \in Seq(Codepoints) :
                    Units(s) = s /\ Taken(UTF16ToUTF8(Units(s))) = Reading(s, 0, 0)}
<1>1. <<>> \in T
  <2> DEFINE e == <<>>
  <2>1. e \in Seq(Codepoints) /\ e \in Seq(Bytes)
    OBVIOUS
  <2>2. Pieces(e) = e /\ FlattenSeq(e) = e
    BY DEF Pieces, FlattenSeq
  <2>3. Units(e) = e
    BY <2>1, UnitsAppend
  <2>4. Taken(e) = Reading(e, 0, 0)
    BY <2>1, TakenIs
  <2>5. UTF16ToUTF8(e) = e
    BY <2>2, PiecesOf
  <2> HIDE DEF e
  <2>6. e \in T
    BY <2>1, <2>3, <2>4, <2>5
  <2> QED BY <2>6 DEF e
<1>2. ASSUME NEW s \in T \cap Seq(Plain), NEW ch \in Plain PROVE Append(s, ch) \in T
  <2> DEFINE t == Append(s, ch)
             b == UTF16ToUTF8(Units(s))
  <2>1. ch \in Codepoints /\ ch < 65536
    BY DEF Plain
  <2>2. s \in Seq(Codepoints) /\ Units(s) = s /\ Taken(b) = Reading(s, 0, 0)
    OBVIOUS
  <2>3. t \in Seq(Codepoints)
    BY <2>1, <2>2
  <2>4. Encoded(s)
    BY <2>2, TextConverted
  <2>5. b \in Seq(Bytes) /\ UTF16ToUTF8(Units(t)) = b \o Utf8(ch)
    <3>1. UTF16ToUTF8(Units(Append(s, ch))) = UTF16ToUTF8(Units(s)) \o Utf8(ch)
      <4>1. ch \in Codepoints /\ s \in Seq(Codepoints)
        BY <2>1, <2>2
      <4> HIDE DEF T
      <4> QED BY <2>4, <4>1, TextGrows
    <3>2. UTF16ToUTF8(Units(s)) \in Seq(Bytes)
      BY <2>4 DEF Encoded
    <3> QED BY <3>1, <3>2
  <2>6. Units(t) = t
    <3>1. Units(t) = Units(s) \o Utf16(ch)
      <4> HIDE DEF T
      <4>1. s \in Seq(Codepoints)
        BY <2>2
      <4>2. \A c \in Codepoints : Units(Append(s, c)) = Units(s) \o Utf16(c)
        BY <4>1, UnitsAppend
      <4> QED BY <2>1, <4>2
    <3>2. Utf16(ch) = <<ch>>
      BY <2>1 DEF Utf16
    <3>3. s \o <<ch>> = t
      BY <2>1, <2>2, Joined
    <3> HIDE DEF t
    <3> QED BY <2>2, <3>1, <3>2, <3>3
  <2> HIDE DEF b
  <2>7. Taken(b \o Utf8(ch)) = Reading(t, 0, 0)
    BY <2>2, <2>5, TakenChar
  <2> HIDE DEF t
  <2>8. t \in T
    BY <2>3, <2>5, <2>6, <2>7
  <2> QED BY <2>8 DEF t
<1>3. Seq(Plain) \subseteq T
  <2> HIDE DEF T
  <2> QED BY <1>1, <1>2, SequenceInduction
<1> QED BY <1>3

-----------------------------------------------------------------------------
(* Text is kept.                                                             *)

\* The strings of the modules are texts.
LEMMA StringsAreTexts ==
    ASSUME NEW s \in Strings
    PROVE  s \in Seq(Chars) /\ s \in Seq(Codepoints)
<1>1. /\ s \in Seq(Chars)
      /\ \A i \in DOMAIN s : /\ 0 < s[i] /\ s[i] <= 1114111
                             /\ ~(55296 <= s[i] /\ s[i] <= 57343)
  BY StringsAssumption
<1>2. Len(s) \in Nat /\ DOMAIN s = 1..Len(s) /\ s = [i \in 1..Len(s) |-> s[i]]
  BY <1>1
<1>3. \A i \in 1..Len(s) : s[i] \in Nat
  BY <1>1, <1>2, FilesAssumption
<1>4. \A i \in 1..Len(s) : s[i] \in Codepoints
  BY <1>1, <1>2, <1>3, SMT DEF Codepoints
<1> QED BY <1>1, <1>2, <1>4, SequenceOf

\* The characters of the buffer are those given to it.
KeptText ==
    /\ buf = given
    /\ string \in Strings \union {<<>>}

\* A character of a text without surrogates is one unit, and comes back as it.
LEMMA ReadBack ==
    ASSUME NEW s \in Strings \union {<<>>}, \A i \in DOMAIN s : s[i] < 65536
    PROVE  UTF8ToUTF16(UTF16ToUTF8(Units(s))) = Units(s)
<1>1. s \in Seq(Codepoints)
  <2>1. CASE s \in Strings
    BY <2>1, StringsAreTexts
  <2>2. CASE s = <<>>
    <3> DEFINE D == Codepoints
    <3> HIDE DEF D
    <3>1. s \in Seq(D)
      BY <2>2
    <3> QED BY <3>1 DEF D
  <2> QED BY <2>1, <2>2
<1>2. Len(s) \in Nat /\ DOMAIN s = 1..Len(s) /\ s = [i \in 1..Len(s) |-> s[i]]
  BY <1>1
<1>3. \A i \in 1..Len(s) : s[i] \in Codepoints
  BY <1>1
<1>4. \A i \in 1..Len(s) : s[i] \in Plain
  BY <1>2, <1>3 DEF Plain
<1>5. s \in Seq(Plain)
  BY <1>2, <1>4, SequenceOf
<1> QED BY <1>5, TextTaken DEF UTF8ToUTF16, Reading

\* The characters of an appended string are its characters, up to the buffer's end.
LEMMA Ustring ==
    ASSUME NEW s \in Strings
    PROVE  ustring(UTF16ToUTF8(Units(s))) = SubSeq(s, 1, Min({Len(s), TmpWords - 1}))
<1>1. Encoded(s)
  BY StringsAreTexts, TextConverted
<1>2. iconv(UTF16ToUTF8(Units(s))) = s
  BY <1>1 DEF Encoded, iconv, Converting
<1> QED BY <1>2 DEF ustring

\* Each character appended is a character of the preedit; and what has no
\* surrogates comes back from UTF8ToUTF16.
THEOREM TextIsKept == Spec => []CharactersKept
<1>1. Init => KeptText
  BY DEF Init, KeptText
<1>2. ASSUME KeptText, [Next]_vars PROVE KeptText'
  <2> USE <1>2 DEF KeptText
  <2>1. CASE Start
    BY <2>1 DEF Start, texts
  <2>2. CASE \E s \in Strings : AppendString(s)
    <3>1. PICK s \in Strings : AppendString(s)
      BY <2>2
    <3>2. /\ buf' = buf \o ustring(UTF16ToUTF8(Units(s)))
          /\ given' = given \o SubSeq(s, 1, Min({Len(s), TmpWords - 1}))
          /\ string' = s
      BY <3>1 DEF AppendString
    <3> QED BY <3>2, Ustring
  <2>3. CASE Clear
    BY <2>3 DEF Clear
  <2>4. CASE MeasureNext
    BY <2>4 DEF MeasureNext, texts
  <2>5. CASE PaintNext
    BY <2>5 DEF PaintNext, texts
  <2>6. CASE RenderEnds
    BY <2>6 DEF RenderEnds, texts
  <2>7. CASE \E size \in {0, 24} : Resize(size)
    BY <2>7 DEF Resize, texts
  <2>8. CASE UNCHANGED vars
    BY <2>8 DEF vars, texts
  <2> QED BY <2>1, <2>2, <2>3, <2>4, <2>5, <2>6, <2>7, <2>8 DEF Next
<1>3. KeptText => CharactersKept
  BY ReadBack DEF KeptText, CharactersKept
<1> QED BY <1>1, <1>2, <1>3, PTL DEF Spec

-----------------------------------------------------------------------------
(* Options.                                                                  *)

\* A run of a that something else ends.
LEMMA RunIs ==
    ASSUME NEW s, NEW set, NEW n, n \in Nat, Len(s) \in Nat, n <= Len(s),
           \A i \in 1..n : s[i] \in set, n < Len(s) => s[n + 1] \notin set
    PROVE  Run(s, set) = n
<1> DEFINE M == {m \in 0..Len(s) : \A i \in 1..m : s[i] \in set}
<1>1. n \in M
  OBVIOUS
<1>2. ASSUME NEW m \in M PROVE n >= m /\ m \in Nat
  <2>1. m \in 0..Len(s) /\ \A i \in 1..m : s[i] \in set
    OBVIOUS
  <2>2. CASE m > n
    <3>1. n < Len(s) /\ n + 1 \in 1..m
      BY <2>1, <2>2
    <3> QED BY <2>1, <3>1
  <2> QED BY <2>1, <2>2
<1>3. Run(s, set) = Max(M)
  BY DEF Run
<1> HIDE DEF M
<1>4. \A m \in M : (\A k \in M : m >= k) => m = n
  BY <1>1, <1>2
<1> QED BY <1>1, <1>2, <1>3, <1>4 DEF Max

\* There always is one.
LEMMA RunType ==
    ASSUME NEW s, NEW set, Len(s) \in Nat
    PROVE  /\ Run(s, set) \in Nat /\ Run(s, set) <= Len(s)
           /\ \A i \in 1..Run(s, set) : s[i] \in set
<1> DEFINE Ends(n) == n < Len(s) => s[n + 1] \notin set
           T == {n \in Nat : \/ n <= Len(s) /\ \A i \in 1..n : s[i] \in set
                             \/ \E k \in Nat : /\ k <= Len(s) /\ Ends(k)
                                               /\ \A i \in 1..k : s[i] \in set}
<1>1. 0 \in T
  OBVIOUS
<1>2. ASSUME NEW n \in T PROVE n + 1 \in T
  <2>1. CASE \E k \in Nat : k <= Len(s) /\ Ends(k) /\ \A i \in 1..k : s[i] \in set
    <3> HIDE DEF Ends
    <3> QED BY <2>1
  <2>2. CASE n <= Len(s) /\ \A i \in 1..n : s[i] \in set
    <3>1. CASE n < Len(s) /\ s[n + 1] \in set
      <4>1. \A i \in 1..(n + 1) : i \in 1..n \/ i = n + 1
        OBVIOUS
      <4> QED BY <2>2, <3>1, <4>1
    <3>2. CASE ~(n < Len(s) /\ s[n + 1] \in set)
      <4>1. Ends(n)
        BY <3>2
      <4> HIDE DEF Ends
      <4> QED BY <2>2, <4>1
    <3> QED BY <3>1, <3>2
  <2> QED BY <2>1, <2>2
<1>3. Len(s) + 1 \in T
  <2> HIDE DEF T
  <2>1. T \in SUBSET Nat
    BY DEF T
  <2> QED BY <1>1, <1>2, <2>1, Induction
<1>4. PICK k \in Nat : k <= Len(s) /\ Ends(k) /\ \A i \in 1..k : s[i] \in set
  <2>1. ~(Len(s) + 1 <= Len(s))
    OBVIOUS
  <2> HIDE DEF Ends
  <2> QED BY <1>3, <2>1
<1>5. Run(s, set) = k
  BY <1>4, RunIs
<1> QED BY <1>4, <1>5

-----------------------------------------------------------------------------
\* A sequence that begins with a run of a set and goes on with something else.
LEMMA Splits ==
    ASSUME NEW S, NEW a \in Seq(S), NEW b \in Seq(S), NEW set,
           \A i \in 1..Len(a) : a[i] \in set, b # <<>> => b[1] \notin set
    PROVE  /\ Run(a \o b, set) = Len(a)
           /\ SubSeq(a \o b, 1, Len(a)) = a
           /\ SubSeq(a \o b, Len(a) + 1, Len(a \o b)) = b
<1> DEFINE s == a \o b
<1>1. /\ s \in Seq(S) /\ Len(s) = Len(a) + Len(b) /\ Len(a) \in Nat /\ Len(b) \in Nat
      /\ \A i \in 1..Len(a) : s[i] = a[i]
      /\ \A i \in 1..Len(b) : s[Len(a) + i] = b[i]
  OBVIOUS
<1> HIDE DEF s
<1>2. Run(s, set) = Len(a)
  <2>1. Len(a) < Len(s) => s[Len(a) + 1] \notin set
    <3>1. Len(a) < Len(s) => b # <<>> /\ 1 \in 1..Len(b)
      BY <1>1
    <3> QED BY <1>1, <3>1
  <2> DEFINE n == Len(a)
  <2>2. n \in Nat /\ Len(s) \in Nat /\ n <= Len(s) /\ \A i \in 1..n : s[i] \in set
    BY <1>1
  <2> HIDE DEF n
  <2>3. n < Len(s) => s[n + 1] \notin set
    BY <2>1 DEF n
  <2>4. Run(s, set) = n
    BY <2>2, <2>3, RunIs
  <2> QED BY <2>4 DEF n
<1>3. SubSeq(s, 1, Len(a)) = a
  BY <1>1
<1>4. SubSeq(s, Len(a) + 1, Len(s)) = b
  <2> DEFINE t == SubSeq(s, Len(a) + 1, Len(s))
  <2>1. Len(t) = Len(b) /\ t \in Seq(S)
    BY <1>1
  <2>2. \A i \in 1..Len(b) : t[i] = s[Len(a) + i]
    BY <1>1
  <2> HIDE DEF t
  <2>3. \A i \in 1..Len(t) : t[i] = b[i]
    BY <1>1, <2>1, <2>2
  <2>4. t = b
    BY <2>1, <2>3, SeqEqual
  <2> QED BY <2>4 DEF t
<1> QED BY <1>2, <1>3, <1>4 DEF s

\* What follows a run of a set, and what comes before one of its ends.
LEMMA BehindIs ==
    ASSUME NEW S, NEW a, NEW b, NEW skipped, a \in Seq(S), b \in Seq(S),
           \A i \in 1..Len(a) : a[i] \in skipped, b # <<>> => b[1] \notin skipped
    PROVE  Behind(a \o b, skipped) = b
<1> DEFINE s == a \o b
<1>1. Run(s, skipped) = Len(a) /\ SubSeq(s, Len(a) + 1, Len(s)) = b
  BY Splits
<1> HIDE DEF s
<1>2. Behind(s, skipped) = b
  BY <1>1 DEF Behind
<1> QED BY <1>2 DEF s

\* What comes before one of the ends, and what follows it.
LEMMA UpToIs ==
    ASSUME NEW S, NEW a, NEW b, NEW ends, a \in Seq(S), b \in Seq(S),
           \A i \in 1..Len(a) : a[i] \in STRING \ ends, b # <<>> => b[1] \in ends
    PROVE  UpTo(a \o b, ends) = a /\ SubSeq(a \o b, Len(a) + 1, Len(a \o b)) = b
<1> DEFINE s == a \o b
           set == STRING \ ends
<1>1. (\A i \in 1..Len(a) : a[i] \in set) /\ (b # <<>> => b[1] \notin set)
  OBVIOUS
<1> HIDE DEF set
<1>2. Run(s, set) = Len(a) /\ SubSeq(s, 1, Len(a)) = a /\ SubSeq(s, Len(a) + 1, Len(s)) = b
  BY <1>1, Splits
<1> HIDE DEF s
<1>3. UpTo(s, ends) = a
  BY <1>2 DEF UpTo, set
<1> QED BY <1>2, <1>3 DEF s

\* What may separate a name from its value, and end that.
Separators == {" ", "\t", "="}
Tabs == {" ", "\t"}

\* A line that is no comment.
Setting(line) ==
    /\ line.indent \in Seq({" "}) /\ line.name \in Seq(STRING \ Separators)
    /\ line.separator \in Seq(Separators) /\ line.value \in Seq(STRING \ Tabs)
    /\ line.name = <<>> => line.separator = <<>>
    /\ line.value # <<>> => line.separator # <<>> /\ line.value[1] # "="
    /\ line.rest # <<>> => IF line.name = <<>> THEN line.rest[1] \in {"\t", "="}
                           ELSE line.value # <<>> /\ line.rest[1] \in Tabs

\* The parts of a line, and the line composed of them.
LineRecords == [indent : Seq(STRING), name : Seq(STRING), separator : Seq(STRING),
                value : Seq(STRING), rest : Seq(STRING)]

\* A line as it stands in the file.
Composed(text, line) == line \in LineRecords /\ text = Written(line)

\* What a concatenation begins with.
LEMMA BeginningOf ==
    ASSUME NEW S, NEW a \in Seq(S), NEW b \in Seq(S)
    PROVE  /\ a \o b \in Seq(S)
           /\ a # <<>> => (a \o b) # <<>> /\ (a \o b)[1] = a[1]
           /\ a = <<>> => a \o b = b
OBVIOUS

\* They are found again.
LEMMA ParseLineIs ==
    ASSUME NEW line, NEW text, Composed(text, line), Setting(line)
    PROVE  /\ line.name # <<>> => ParseLine(text) = [o |-> line.name, v |-> line.value]
           /\ line.name = <<>> => ParseLine(text).o = <<>>
<1>1. /\ line.indent \in Seq(STRING) /\ line.name \in Seq(STRING)
      /\ line.separator \in Seq(STRING) /\ line.value \in Seq(STRING) /\ line.rest \in Seq(STRING)
      /\ text = line.indent \o line.name \o line.separator \o line.value \o line.rest
  BY DEF Composed, LineRecords, Written
<1>2. PICK i \in Seq(STRING) : i = line.indent
  BY <1>1
<1>3. PICK n \in Seq(STRING) : n = line.name
  BY <1>1
<1>4. PICK p \in Seq(STRING) : p = line.separator
  BY <1>1
<1>5. PICK v \in Seq(STRING) : v = line.value
  BY <1>1
<1>6. PICK r \in Seq(STRING) : r = line.rest
  BY <1>1
<1>7. PICK s : s = i \o n \o p \o v \o r
  OBVIOUS
<1>8. text = s
  BY <1>1, <1>2, <1>3, <1>4, <1>5, <1>6, <1>7
<1>9. /\ i \in Seq({" "}) /\ n \in Seq(STRING \ Separators)
      /\ p \in Seq(Separators) /\ v \in Seq(STRING \ Tabs)
      /\ n = <<>> => p = <<>>
      /\ v # <<>> => p # <<>> /\ v[1] # "="
      /\ r # <<>> => IF n = <<>> THEN r[1] \in {"\t", "="} ELSE v # <<>> /\ r[1] \in Tabs
  BY <1>2, <1>3, <1>4, <1>5, <1>6 DEF Setting
<1> DEFINE S == STRING
           vr == v \o r
           pvr == p \o vr
           t == n \o pvr
<1> USE DEF Separators, Tabs
<1>10. i \in Seq(S) /\ n \in Seq(S) /\ p \in Seq(S) /\ v \in Seq(S) /\ r \in Seq(S)
  OBVIOUS
<1> HIDE DEF S
<1>11. s = i \o t /\ vr \in Seq(S) /\ pvr \in Seq(S) /\ t \in Seq(S)
  <2> DEFINE two == i \o n
             three == two \o p
  <2>1. two \in Seq(S) /\ three \in Seq(S) /\ vr \in Seq(S) /\ pvr \in Seq(S) /\ t \in Seq(S)
    BY <1>10
  <2>2. s = (three \o v) \o r
    BY <1>7
  <2>3. two \o pvr = i \o t
    <3> HIDE DEF pvr
    <3> QED BY <1>10, <2>1
  <2>4. three \o vr = two \o pvr
    <3> HIDE DEF two, vr
    <3> QED BY <1>10, <2>1
  <2>5. (three \o v) \o r = three \o vr
    <3> HIDE DEF three
    <3> QED BY <1>10, <2>1
  <2> HIDE DEF three, two
  <2> QED BY <2>1, <2>2, <2>3, <2>4, <2>5
<1>12. /\ \A k \in 1..Len(i) : i[k] \in {" "}
       /\ \A k \in 1..Len(n) : n[k] \in STRING \ Separators
       /\ \A k \in 1..Len(p) : p[k] \in Separators
       /\ \A k \in 1..Len(v) : v[k] \in STRING \ Tabs
  <2>1. /\ i \in Seq({" "}) /\ n \in Seq(STRING \ Separators)
        /\ p \in Seq(Separators) /\ v \in Seq(STRING \ Tabs)
    BY <1>9
  <2> HIDE DEF Separators, Tabs
  <2> QED BY <2>1, ElementOfSeq
<1>13. /\ n = <<>> => p = <<>>
       /\ v # <<>> => p # <<>> /\ v[1] # "="
       /\ r # <<>> => IF n = <<>> THEN r[1] \in {"\t", "="} ELSE v # <<>> /\ r[1] \in Tabs
  BY <1>9
<1>14. ASSUME NEW a \in Seq(S), NEW b \in Seq(S)
      PROVE  /\ a # <<>> => (a \o b) # <<>> /\ (a \o b)[1] = a[1] /\ 1 \in 1..Len(a)
             /\ a = <<>> => a \o b = b
  OBVIOUS
<1>15. /\ v # <<>> => vr # <<>> /\ vr[1] = v[1]
       /\ v = <<>> => vr = r
  BY <1>10, <1>14
<1> HIDE DEF vr
<1>16. /\ p # <<>> => pvr # <<>> /\ pvr[1] = p[1]
       /\ p = <<>> => pvr = vr
  BY <1>10, <1>11, <1>14
<1> HIDE DEF pvr
<1>17. /\ n # <<>> => t # <<>> /\ t[1] = n[1]
       /\ n = <<>> => t = pvr
  BY <1>10, <1>11, <1>14
<1> HIDE DEF t
<1>18. /\ n # <<>> => n[1] \in STRING \ Separators
       /\ p # <<>> => p[1] \in Separators
       /\ v # <<>> => v[1] \in STRING \ Tabs
  BY <1>10, <1>12, <1>14
<1>19. t # <<>> => t[1] \notin {" "}
  <2>1. CASE n # <<>>
    BY <1>17, <1>18, <2>1
  <2>2. CASE n = <<>>
    <3>1. v = <<>> /\ t = r
      BY <1>13, <1>15, <1>16, <1>17, <2>2
    <3> QED BY <1>13, <2>2, <3>1
  <2> QED BY <2>1, <2>2
<1>20. Behind(s, {" "}) = t
  <2> DEFINE spaces == {" "}
  <2>1. (\A k \in 1..Len(i) : i[k] \in spaces) /\ (t # <<>> => t[1] \notin spaces)
    BY <1>12, <1>19
  <2> HIDE DEF spaces
  <2>2. Behind(i \o t, spaces) = t
    BY <1>10, <1>11, <2>1, BehindIs
  <2> QED BY <1>11, <2>2 DEF spaces
<1>21. pvr # <<>> => pvr[1] \in Separators
  BY <1>13, <1>15, <1>16, <1>18
<1> HIDE DEF Separators, Tabs
<1>22. UpTo(t, Separators) = n /\ SubSeq(t, Len(n) + 1, Len(t)) = pvr
  BY <1>10, <1>11, <1>12, <1>21, UpToIs DEF t
<1>23. ParseLine(s) = [o |-> n, v |-> UpTo(Behind(pvr, Separators), Tabs)]
  <2> DEFINE spaces == {" "}
  <2>1. Behind(s, spaces) = t
    BY <1>20
  <2> HIDE DEF spaces
  <2>2. ParseLine(s) =
          [o |-> UpTo(Behind(s, spaces), Separators),
           v |-> UpTo(Behind(SubSeq(Behind(s, spaces),
                                    Len(UpTo(Behind(s, spaces), Separators)) + 1,
                                    Len(Behind(s, spaces))), Separators), Tabs)]
    BY DEF ParseLine, Separators, Tabs, spaces
  <2> QED BY <2>1, <2>2, <1>22
<1>24. ASSUME n # <<>> PROVE UpTo(Behind(pvr, Separators), Tabs) = v
  <2>1. vr # <<>> => vr[1] \notin Separators
    BY <1>13, <1>15, <1>18, <1>24 DEF Separators, Tabs
  <2>2. /\ p \in Seq(S) /\ vr \in Seq(S)
        /\ \A k \in 1..Len(p) : p[k] \in Separators
    BY <1>10, <1>11, <1>12
  <2>3. Behind(p \o vr, Separators) = vr
    BY <2>1, <2>2, BehindIs, SMTT(30)
  <2>4. Behind(pvr, Separators) = vr
    BY <2>3 DEF pvr
  <2>5. r # <<>> => r[1] \in Tabs
    BY <1>13, <1>24
  <2>6. UpTo(vr, Tabs) = v
    BY <1>10, <1>12, <2>5, UpToIs DEF vr
  <2> QED BY <2>4, <2>6
<1> QED BY <1>3, <1>5, <1>8, <1>23, <1>24

-----------------------------------------------------------------------------
(* The file.                                                                 *)

\* Only a line that begins with a # is a comment.
IsComment(line) == line.indent = <<>> /\ line.name # <<>> /\ line.name[1] = "#"

\* A line sets its name to its value, or nothing.
LEMMA LineParsed ==
    ASSUME NEW line \in LineRecords, IsLine(line), NEW options
    PROVE  ParseNext(options, Written(line)) =
              IF IsComment(line) \/ line.name = <<>> THEN options
              ELSE Inserted(options, line.name, line.value)
<1> SUFFICES ASSUME NEW i \in Seq(STRING), NEW n \in Seq(STRING), NEW p \in Seq(STRING),
                    NEW v \in Seq(STRING), NEW r \in Seq(STRING),
                    i = line.indent, n = line.name, p = line.separator, v = line.value,
                    r = line.rest
             PROVE  ParseNext(options, Written(line)) =
                      IF IsComment(line) \/ n = <<>> THEN options ELSE Inserted(options, n, v)
  BY DEF LineRecords
<1> DEFINE s == i \o n \o p \o v \o r
<1>1. Written(line) = s
  BY DEF Written
<1>2. IsComment(line) <=> i = <<>> /\ n # <<>> /\ n[1] = "#"
  BY DEF IsComment
<1>3. IsComment(line) \/ Setting(line)
  BY DEF IsLine, IsComment, Setting, Separators, Tabs
<1>4. ASSUME NEW a \in Seq(STRING), NEW b \in Seq(STRING)
      PROVE  /\ a \o b \in Seq(STRING)
             /\ a # <<>> => (a \o b) # <<>> /\ (a \o b)[1] = a[1]
             /\ a = <<>> => a \o b = b
  BY BeginningOf
<1>5. /\ i # <<>> => s # <<>> /\ s[1] = i[1]
      /\ i = <<>> /\ n # <<>> => s # <<>> /\ s[1] = n[1]
      /\ i = <<>> /\ n = <<>> /\ p = <<>> /\ v = <<>> => s = r
  <2> DEFINE two == i \o n
             three == two \o p
             four == three \o v
  <2>1. /\ two \in Seq(STRING)
        /\ i # <<>> => two # <<>> /\ two[1] = i[1]
        /\ i = <<>> => two = n
    BY <1>4
  <2> HIDE DEF two
  <2>2. /\ three \in Seq(STRING)
        /\ two # <<>> => three # <<>> /\ three[1] = two[1]
        /\ two = <<>> => three = p
    BY <1>4, <2>1
  <2> HIDE DEF three
  <2>3. /\ four \in Seq(STRING)
        /\ three # <<>> => four # <<>> /\ four[1] = three[1]
        /\ three = <<>> => four = v
    BY <1>4, <2>2
  <2> HIDE DEF four
  <2>4. /\ four # <<>> => four \o r # <<>> /\ (four \o r)[1] = four[1]
        /\ four = <<>> => four \o r = r
    BY <1>4, <2>3
  <2>5. s = four \o r
    BY DEF two, three, four
  <2> HIDE DEF s
  <2> QED BY <2>1, <2>2, <2>3, <2>4, <2>5
<1> HIDE DEF s
<1>6. CASE IsComment(line)
  BY <1>1, <1>2, <1>5, <1>6 DEF ParseNext
<1>7. CASE ~IsComment(line)
  <2>1. Setting(line)
    BY <1>3, <1>7
  <2>2. s # <<>> => s[1] # "#"
    <3>1. CASE i # <<>>
      <4>1. i \in Seq({" "})
        BY <2>1 DEF Setting
      <4>2. i[1] = " "
        <5> DEFINE spaces == {" "}
        <5>1. i \in Seq(spaces)
          BY <4>1
        <5> HIDE DEF spaces
        <5>3. 1 \in 1..Len(i)
          BY <3>1
        <5>2. i[1] \in spaces
          BY <5>1, <5>3, ElementOfSeq
        <5> QED BY <5>2 DEF spaces
      <4> QED BY <1>5, <3>1, <4>2
    <3>2. CASE i = <<>> /\ n # <<>>
      BY <1>2, <1>5, <1>7, <3>2
    <3>3. CASE i = <<>> /\ n = <<>>
      <4>1. p = <<>> /\ v = <<>> /\ (r # <<>> => r[1] \in {"\t", "="})
        BY <2>1, <3>3 DEF Setting
      <4> QED BY <1>5, <3>3, <4>1
    <3> QED BY <3>1, <3>2, <3>3
  <2>3. /\ n # <<>> => ParseLine(s) = [o |-> n, v |-> v]
        /\ n = <<>> => ParseLine(s).o = <<>>
    <3>1. Composed(s, line)
      BY <1>1 DEF Composed
    <3> QED BY <2>1, <3>1, ParseLineIs
  <2> QED BY <1>1, <1>7, <2>2, <2>3 DEF ParseNext
<1> QED BY <1>6, <1>7

\* The options there may be.
OptionSets == UNION {[N -> Seq(STRING)] : N \in SUBSET Seq(STRING)}

\* With a name more they are options.
LEMMA InsertedType ==
    ASSUME NEW options \in OptionSets, NEW o \in Seq(STRING), NEW v \in Seq(STRING)
    PROVE  Inserted(options, o, v) \in OptionSets
<1>1. PICK N \in SUBSET Seq(STRING) : options \in [N -> Seq(STRING)]
  BY DEF OptionSets
<1>2. Inserted(options, o, v) \in [N \union {o} -> Seq(STRING)]
  BY <1>1 DEF Inserted
<1>3. N \union {o} \in SUBSET Seq(STRING)
  OBVIOUS
<1> QED BY <1>2, <1>3 DEF OptionSets

\* What the lines of a file are.
IsFile(conf) == conf \in Seq(LineRecords) /\ \A i \in DOMAIN conf : IsLine(conf[i])

\* The first line that sets a name ...
FirstSetting(conf, name, i) ==
    i \in DOMAIN conf /\ conf[i].name = name /\ \A j \in 1..(i - 1) : conf[j].name # name

\* ... gives it its value.
LEMMA ParseFileIs ==
    ASSUME NEW conf, IsFile(conf)
    PROVE  /\ parse_file(Lines(conf)) \in OptionSets
           /\ \A name : name # <<>> /\ name[1] # "#" =>
                /\ IF name \in DOMAIN parse_file(Lines(conf))
                   THEN \E i : FirstSetting(conf, name, i)
                   ELSE \A i \in DOMAIN conf : conf[i].name # name
                /\ \A i : FirstSetting(conf, name, i) =>
                     /\ name \in DOMAIN parse_file(Lines(conf))
                     /\ parse_file(Lines(conf))[name] = conf[i].value
<1> DEFINE lines == Lines(conf)
           m == Len(conf)
           D == OptionSets
           start == <<>>
           step == [p \in (1..m) \X D |-> ParseNext(p[2], lines[p[1]])]
           Is(f) == f = [n \in 0..Len(lines) |->
                          IF n = 0 THEN start ELSE ParseNext(f[n - 1], lines[n])]
<1>1. /\ m \in Nat /\ DOMAIN conf = 1..m
      /\ \A i \in 1..m : conf[i] \in LineRecords /\ IsLine(conf[i])
      /\ Len(lines) = m /\ \A i \in 1..m : lines[i] = Written(conf[i])
  BY DEF Lines, IsFile
<1>2. parse_file(lines) = (CHOOSE f : Is(f))[m]
  BY <1>1 DEF parse_file
<1>3. \A f : Is(f) <=> f = [n \in 0..m |-> IF n = 0 THEN start ELSE ParseNext(f[n - 1], lines[n])]
  BY <1>1
<1>4. start \in D
  <2>1. start \in [{} -> Seq(STRING)]
    OBVIOUS
  <2> QED BY <2>1 DEF OptionSets
<1>5. \A i \in 1..m, options \in D : ParseNext(options, lines[i]) \in D
  <2> SUFFICES ASSUME NEW i \in 1..m, NEW options \in D PROVE ParseNext(options, lines[i]) \in D
    OBVIOUS
  <2>1. conf[i].name \in Seq(STRING) /\ conf[i].value \in Seq(STRING)
    BY <1>1 DEF LineRecords
  <2>2. ParseNext(options, lines[i]) \in {options, Inserted(options, conf[i].name, conf[i].value)}
    BY <1>1, LineParsed
  <2> HIDE DEF lines
  <2> QED BY <2>1, <2>2, InsertedType
<1>6. \A i \in 1..m, options \in D :
          step[<<i, options>>] = ParseNext(options, lines[i]) /\ step[<<i, options>>] \in D
  BY <1>5
<1> HIDE DEF lines, m, D, start, step, Is
<1>7. PICK f : Runs(f, m, D, start, step)
  <2>1. Steps(m, D, step)
    BY <1>6 DEF Steps
  <2> QED BY <1>1, <1>4, <2>1, Recursion
<1>8. Is(f)
  <2>1. f \in [0..m -> D] /\ f[0] = start /\ \A i \in 1..m : f[i] = step[<<i, f[i - 1]>>]
    BY <1>7 DEF Runs
  <2>2. ASSUME NEW n \in 0..m PROVE f[n] = IF n = 0 THEN start ELSE ParseNext(f[n - 1], lines[n])
    <3>1. CASE n = 0
      BY <2>1, <3>1
    <3>2. CASE n # 0
      <4>1. n \in 1..m /\ n - 1 \in 0..m
        BY <1>1, <3>2
      <4>2. f[n - 1] \in D
        BY <2>1, <4>1
      <4> QED BY <1>6, <2>1, <3>2, <4>1, <4>2
    <3> QED BY <3>1, <3>2
  <2>3. f = [n \in 0..m |-> f[n]]
    BY <2>1
  <2> QED BY <1>3, <2>2, <2>3
<1>9. PICK h : Is(h) /\ parse_file(lines) = h[m]
  BY <1>2, <1>8
<1>10. h[0] = start /\ \A n \in 1..m : h[n] = ParseNext(h[n - 1], lines[n])
  BY <1>1, <1>3, <1>9
<1> DEFINE Set(n, name) ==
              \/ name \notin DOMAIN h[n] /\ \A j \in 1..n : conf[j].name # name
              \/ /\ name \in DOMAIN h[n]
                 /\ \E i \in 1..n : FirstSetting(conf, name, i) /\ h[n][name] = conf[i].value
           Named(name) == name # <<>> /\ name[1] # "#"
           Good == {n \in Nat : n <= m => h[n] \in D /\ \A name : Named(name) => Set(n, name)}
<1>11. 0 \in Good
  <2>1. \A name : name \notin DOMAIN h[0]
    BY <1>10 DEF start
  <2>2. \A name : Set(0, name)
    BY <2>1
  <2> HIDE DEF Set
  <2> QED BY <1>4, <1>10, <2>2
<1>12. ASSUME NEW n \in Good PROVE n + 1 \in Good
  <2>1. n \in Nat
    OBVIOUS
  <2> SUFFICES ASSUME n + 1 <= m PROVE h[n + 1] \in D /\ \A name : Named(name) => Set(n + 1, name)
    OBVIOUS
  <2>2. h[n] \in D /\ \A name : Named(name) => Set(n, name)
    <3> HIDE DEF Set, Named
    <3>1. n <= m
      BY <1>1, <2>1
    <3> QED BY <2>1, <3>1
  <2>3. n + 1 \in 1..m /\ (n + 1) - 1 = n
    BY <2>1
  <2>4. h[n + 1] = ParseNext(h[n], lines[n + 1])
    BY <1>10, <2>3
  <2>5. h[n + 1] \in D
    BY <1>5, <2>2, <2>3, <2>4
  <2>6. ASSUME NEW name, Named(name) PROVE Set(n + 1, name)
    <3> DEFINE line == conf[n + 1]
               w == n + 1
    <3>1. line \in LineRecords /\ IsLine(line) /\ lines[n + 1] = Written(line)
      BY <1>1, <2>3
    <3>2. Set(n, name)
      BY <2>2, <2>6
    <3> HIDE DEF Good
    <3>3. \A j \in 1..w : j \in 1..n \/ j = w
      BY <2>1
    <3>4. \A j \in 1..n : j \in 1..w
      BY <2>1
    <3>5. CASE IsComment(line) \/ line.name = <<>>
      <4>1. line.name # name
        BY <2>6, <3>5 DEF IsComment
      <4>2. h[w] = h[n]
        BY <2>4, <3>1, <3>5, LineParsed
      <4> HIDE DEF w
      <4> QED BY <3>2, <3>3, <3>4, <4>1, <4>2 DEF w
    <3>6. CASE ~(IsComment(line) \/ line.name = <<>>)
      <4>1. h[w] = Inserted(h[n], line.name, line.value)
        BY <2>4, <3>1, <3>6, LineParsed
      <4>2. /\ DOMAIN h[w] = DOMAIN h[n] \union {line.name}
            /\ \A o \in DOMAIN h[n] : h[w][o] = h[n][o]
            /\ line.name \notin DOMAIN h[n] => h[w][line.name] = line.value
        BY <4>1 DEF Inserted
      <4>3. CASE name \in DOMAIN h[n]
        BY <3>2, <3>4, <4>2, <4>3
      <4>4. CASE name \notin DOMAIN h[n] /\ name = line.name
        <5>1. \A j \in 1..n : conf[j].name # name
          BY <3>2, <4>4
        <5>2. FirstSetting(conf, name, w)
          BY <1>1, <2>3, <4>4, <5>1 DEF FirstSetting
        <5>3. w \in 1..w
          BY <2>1
        <5> QED BY <4>2, <4>4, <5>2, <5>3
      <4>5. CASE name \notin DOMAIN h[n] /\ name # line.name
        BY <3>2, <3>3, <4>2, <4>5
      <4> QED BY <4>3, <4>4, <4>5
    <3> QED BY <3>5, <3>6
  <2> HIDE DEF Set, Named
  <2> QED BY <2>5, <2>6
<1>13. m \in Good
  <2> HIDE DEF Good
  <2>1. Good \in SUBSET Nat
    BY DEF Good
  <2> QED BY <1>1, <1>11, <1>12, <2>1, Induction
<1>14. h[m] \in D /\ \A name : Named(name) => Set(m, name)
  <2> HIDE DEF Set, Named
  <2> QED BY <1>1, <1>13
<1>15. ASSUME NEW name, name # <<>>, name[1] # "#"
       PROVE  /\ IF name \in DOMAIN h[m] THEN \E i : FirstSetting(conf, name, i)
                 ELSE \A i \in DOMAIN conf : conf[i].name # name
              /\ \A i : FirstSetting(conf, name, i) =>
                    name \in DOMAIN h[m] /\ h[m][name] = conf[i].value
  <2>1. Set(m, name)
    BY <1>14, <1>15
  <2>2. ASSUME NEW i, NEW j, FirstSetting(conf, name, i), FirstSetting(conf, name, j) PROVE i = j
    <3>1. i \in Int /\ j \in Int /\ 1 <= i /\ 1 <= j
      BY <1>1, <2>2 DEF FirstSetting
    <3>2. ~(i \in 1..(j - 1)) /\ ~(j \in 1..(i - 1))
      BY <2>2 DEF FirstSetting
    <3> QED BY <3>1, <3>2
  <2>3. \A i : FirstSetting(conf, name, i) => i \in 1..m /\ conf[i].name = name
    BY <1>1 DEF FirstSetting
  <2> QED BY <1>1, <2>1, <2>2, <2>3
<1>16. parse_file(lines) \in D
  BY <1>9, <1>14
<1> QED BY <1>9, <1>15, <1>16 DEF lines, D

-----------------------------------------------------------------------------

\* What atoi reads is a number.
LEMMA AtoiType ==
    ASSUME NEW v \in Seq(STRING)
    PROVE  atoi(v) \in Nat
<1> DEFINE m == Run(v, ToSet(Digits))
           step == [p \in (1..m) \X Nat |-> 10 * p[2] + Digit(v[p[1]])]
           Is(f) == f = [n \in 0..m |-> IF n = 0 THEN 0 ELSE 10 * f[n - 1] + Digit(v[n])]
<1>1. m \in Nat /\ \A i \in 1..m : v[i] \in ToSet(Digits)
  <2>1. Len(v) \in Nat
    OBVIOUS
  <2> QED BY <2>1, RunType
<1>2. atoi(v) = (CHOOSE f : Is(f))[m]
  BY DEF atoi
<1>3. \A i \in 1..m : Digit(v[i]) \in Nat
  <2>1. ASSUME NEW c \in ToSet(Digits) PROVE Digit(c) \in Nat
    <3>1. PICK i \in 1..10 : Digits[i] = c
      BY DEF ToSet, Digits
    <3>2. i - 1 \in 0..9 /\ (i - 1) + 1 = i
      OBVIOUS
    <3>3. \E d \in 0..9 : Digits[d + 1] = c
      BY <3>1, <3>2
    <3>4. Digit(c) \in 0..9
      BY <3>3 DEF Digit
    <3> QED BY <3>4
  <2> QED BY <1>1, <2>1
<1>4. \A i \in 1..m, d \in Nat :
          step[<<i, d>>] = 10 * d + Digit(v[i]) /\ step[<<i, d>>] \in Nat
  BY <1>3
<1>5. \A f : Is(f) <=> f = [n \in 0..m |-> IF n = 0 THEN 0 ELSE 10 * f[n - 1] + Digit(v[n])]
  OBVIOUS
<1> HIDE DEF m, step, Is
<1>6. PICK f : Runs(f, m, Nat, 0, step)
  <2>1. Steps(m, Nat, step)
    BY <1>4 DEF Steps
  <2> QED BY <1>1, <2>1, Recursion
<1>7. Is(f)
  <2>1. f \in [0..m -> Nat] /\ f[0] = 0 /\ \A i \in 1..m : f[i] = step[<<i, f[i - 1]>>]
    BY <1>6 DEF Runs
  <2>2. ASSUME NEW n \in 0..m PROVE f[n] = IF n = 0 THEN 0 ELSE 10 * f[n - 1] + Digit(v[n])
    <3>1. CASE n = 0
      BY <2>1, <3>1
    <3>2. CASE n # 0
      <4>1. n \in 1..m /\ n - 1 \in 0..m
        BY <1>1, <3>2
      <4>2. f[n - 1] \in Nat
        BY <2>1, <4>1
      <4>3. f[n] = step[<<n, f[n - 1]>>]
        BY <2>1, <4>1
      <4>4. step[<<n, f[n - 1]>>] = 10 * f[n - 1] + Digit(v[n])
        BY <1>4, <4>1, <4>2
      <4> QED BY <3>2, <4>3, <4>4
    <3> QED BY <3>1, <3>2
  <2>3. f = [n \in 0..m |-> f[n]]
    BY <2>1
  <2> QED BY <1>5, <2>2, <2>3
<1>8. PICK h : Is(h) /\ atoi(v) = h[m]
  BY <1>2, <1>7
<1>9. h[0] = 0 /\ \A n \in 1..m : h[n] = 10 * h[n - 1] + Digit(v[n])
  BY <1>1, <1>5, <1>8
<1> DEFINE Good == {n \in Nat : n <= m => h[n] \in Nat}
<1>10. 0 \in Good
  BY <1>9
<1>11. ASSUME NEW n \in Good PROVE n + 1 \in Good
  <2>1. n \in Nat
    OBVIOUS
  <2> SUFFICES ASSUME n + 1 <= m PROVE h[n + 1] \in Nat
    OBVIOUS
  <2>2. n + 1 \in 1..m /\ (n + 1) - 1 = n /\ h[n] \in Nat
    BY <1>1, <2>1
  <2>3. h[n + 1] = 10 * h[n] + Digit(v[n + 1])
    BY <1>9, <2>2
  <2>4. Digit(v[n + 1]) \in Nat
    BY <1>3, <2>2
  <2> QED BY <2>2, <2>3, <2>4
<1>12. m \in Good
  <2> HIDE DEF Good
  <2>1. Good \in SUBSET Nat
    BY DEF Good
  <2> QED BY <1>1, <1>10, <1>11, <2>1, Induction
<1> QED BY <1>8, <1>12

-----------------------------------------------------------------------------
(* Types.                                                                    *)

\* The configuration is a file of lines.
LEMMA FilesAreFiles ==
    ASSUME NEW conf \in (Homes \union Systems) \ {NoFile}
    PROVE  IsFile(conf)
BY FilesOfLines DEF IsFile, LineRecords

\* An option is a sequence of characters.
LEMMA OptionType ==
    ASSUME NEW options \in OptionSets, NEW name
    PROVE  getOption(options, name) \in Seq(STRING)
<1>1. PICK N \in SUBSET Seq(STRING) : options \in [N -> Seq(STRING)]
  BY DEF OptionSets
<1>2. Nothing \in Seq(STRING)
  <2> DEFINE S == STRING
  <2>1. "n" \in S /\ "o" \in S /\ "t" \in S /\ "h" \in S /\ "i" \in S /\ "g" \in S
    BY LettersAssumption
  <2> HIDE DEF S
  <2>2. <<"n", "o", "t", "h", "i", "n", "g">> \in Seq(S)
    BY <2>1
  <2> QED BY <2>2 DEF Nothing, S
<1> QED BY <1>1, <1>2 DEF getOption

\* What of an appended string fits.
LEMMA FitsType ==
    ASSUME NEW s \in Strings
    PROVE  SubSeq(s, 1, Min({Len(s), TmpWords - 1})) \in Seq(Chars)
<1>1. s \in Seq(Chars) /\ Len(s) \in Nat
  BY StringsAssumption
<1>2. TmpWords - 1 \in Nat
  BY TmpWordsAssumption
<1>3. PICK k \in Nat : k = Min({Len(s), TmpWords - 1}) /\ k <= Len(s)
  <2> DEFINE a == Len(s)
             b == TmpWords - 1
  <2> HIDE DEF a, b
  <2>1. a \in Nat /\ b \in Nat
    BY <1>1, <1>2 DEF a, b
  <2>2. \E x \in {a, b} : \A y \in {a, b} : x =< y
    BY <2>1
  <2>3. Min({a, b}) \in {a, b} /\ \A y \in {a, b} : Min({a, b}) =< y
    BY <2>2 DEF Min
  <2> QED BY <2>1, <2>3 DEF a, b
<1>4. SubSeq(s, 1, k) \in Seq(Chars)
  <2>1. \A i \in 1..k : i \in 1..Len(s)
    BY <1>1, <1>3
  <2>2. \A i \in 1..k : s[i] \in Chars
    BY <1>1, <2>1, ElementOfSeq
  <2>3. k \in Int /\ 1 \in Int
    OBVIOUS
  <2> QED BY <2>2, <2>3, SubSeqProperties
<1> QED BY <1>3, <1>4

\* The configuration is read once; the texts are of characters.
TypesKept ==
    /\ home \in Homes /\ system \in Systems
    /\ mFontSize \in Nat \ {0} /\ mFontNames \in Seq(STRING)
    /\ mpFont \in BOOLEAN
    /\ unicodeMap \subseteq Chars
    /\ glyphCacheInited \subseteq {Page(ch) : ch \in Codes}
    /\ stage \in {"start", "ready", "dead"}
    /\ given \in Seq(Chars) /\ string \in Seq(Chars)
    /\ resets \in 0..MaxSetInfo

\* getGlyph takes pages of characters into use.
LEMMA GetGlyphTypes ==
    ASSUME FontTyped, TypesKept, NEW ch, NEW g, GetGlyph(ch, g)
    PROVE  /\ UNCHANGED <<mFontNames, mFontSize, mpFont, unicodeMap>>
           /\ glyphCacheInited' \subseteq {Page(c) : c \in Codes}
<1>1. UNCHANGED <<mFontSize, mpFont, unicodeMap>>
  BY GetGlyphFrame
<1>2. UNCHANGED mFontNames
  BY DEF GetGlyph, settings, font
<1>3. glyphCacheInited' \subseteq {Page(c) : c \in Codes}
  <2>1. CASE ch \in Codes
    BY <2>1 DEF GetGlyph, UsePage, TypesKept
  <2>2. CASE ch \notin Codes
    BY <2>2 DEF GetGlyph, font, cache, TypesKept
  <2> QED BY <2>1, <2>2
<1> QED BY <1>1, <1>2, <1>3

\* setInfo takes a name and a size over, or leaves them.
LEMMA SetInfoTypes ==
    ASSUME TypesKept, NEW names \in Seq(STRING), NEW size, SetInfo(names, size)
    PROVE  /\ mFontSize' \in Nat \ {0} /\ mFontNames' \in Seq(STRING)
           /\ mpFont' \in BOOLEAN
           /\ unicodeMap' \subseteq Chars
           /\ glyphCacheInited' = {}
<1> DEFINE sorted == FcFontSort(mFontNames')
<1>1. sorted \in Seq(Files)
  BY FilesAssumption DEF FcFontSort
<1>2. CreateInstance(sorted)
  BY DEF SetInfo
<1>3. \A i \in DOMAIN sorted : Charset[sorted[i]] \subseteq Chars
  BY <1>1, FilesAssumption
<1> HIDE DEF sorted
<1>4. mpFont' \in BOOLEAN /\ unicodeMap' \subseteq Chars /\ glyphCacheInited' = {}
  BY <1>2, <1>3 DEF CreateInstance
<1> QED BY <1>4 DEF SetInfo, TypesKept

\* They begin with them ...
LEMMA InitTypes == Init => TypesKept
<1> SUFFICES ASSUME Init PROVE TypesKept
  OBVIOUS
<1>1. 14 \in Nat \ {0} /\ 0 \in 0..MaxSetInfo
  BY BoundsAssumption
<1>3. <<"m", "o", "n", "o">> \in Seq(STRING)
  <2> DEFINE S == STRING
  <2>1. "m" \in S /\ "o" \in S /\ "n" \in S
    BY LettersAssumption
  <2> HIDE DEF S
  <2>2. <<"m", "o", "n", "o">> \in Seq(S)
    BY <2>1
  <2> QED BY <2>2 DEF S
<1>2. <<>> \in Seq(Chars)
  OBVIOUS
<1> QED BY <1>1, <1>2, <1>3 DEF Init, FontInit, TypesKept

\* ... and every step keeps them.
LEMMA NextTypes == FontTyped /\ TypesKept /\ [Next]_vars => TypesKept'
<1> SUFFICES ASSUME FontTyped, TypesKept, [Next]_vars PROVE TypesKept'
  OBVIOUS
<1>1. ASSUME UNCHANGED <<font, files, stage, resets>>, given' \in Seq(Chars), string' \in Seq(Chars)
      PROVE  TypesKept'
  BY <1>1 DEF TypesKept, font, files, fonts, cache, settings
<1>2. ASSUME UNCHANGED <<files, stage, texts, resets>>, NEW ch, NEW g, GetGlyph(ch, g)
      PROVE  TypesKept'
  BY <1>2, GetGlyphTypes DEF TypesKept, files, texts
<1>3. CASE Start
  <2>1. CASE Conf = NoFile
    BY <1>3, <2>1 DEF Start, TypesKept, font, files, fonts, cache, settings, texts
  <2>2. CASE Conf # NoFile
    <3>1. Conf \in (Homes \union Systems) \ {NoFile}
      BY <2>2 DEF Conf, Chosen, TypesKept
    <3>2. opts' = parse_file(Lines(Conf))
          /\ SetInfo(getOption(opts', FontName), atoi(getOption(opts', FontSize)))
          /\ stage' = IF mpFont' THEN "ready" ELSE "dead"
      BY <1>3, <2>2 DEF Start
    <3>3. opts' \in OptionSets
      BY <3>1, <3>2, FilesAreFiles, ParseFileIs
    <3>4. getOption(opts', FontName) \in Seq(STRING)
      BY <3>3, OptionType
    <3>5. UNCHANGED <<files, texts, resets>>
      BY <1>3 DEF Start
    <3> QED BY <3>2, <3>4, <3>5, SetInfoTypes DEF TypesKept, files, texts
  <2> QED BY <2>1, <2>2
<1>4. CASE \E s \in Strings : AppendString(s)
  <2>1. PICK s \in Strings : AppendString(s)
    BY <1>4
  <2> DEFINE fits == SubSeq(s, 1, Min({Len(s), TmpWords - 1}))
  <2>2. given' = given \o fits /\ string' = s
    BY <2>1 DEF AppendString
  <2>3. fits \in Seq(Chars) /\ s \in Seq(Chars)
    BY FitsType, StringsAssumption
  <2> HIDE DEF fits
  <2>4. given' \in Seq(Chars) /\ string' \in Seq(Chars)
    BY <2>2, <2>3 DEF TypesKept
  <2> QED BY <1>1, <2>1, <2>4 DEF AppendString
<1>5. CASE Clear
  <2>1. <<>> \in Seq(Chars)
    OBVIOUS
  <2> QED BY <1>1, <1>5, <2>1 DEF Clear, TypesKept
<1>6. CASE MeasureNext
  BY <1>2, <1>6 DEF MeasureNext
<1>7. CASE PaintNext
  BY <1>2, <1>7 DEF PaintNext
<1>8. CASE RenderEnds
  BY <1>1, <1>8 DEF RenderEnds, TypesKept, texts
<1>9. CASE \E size \in {0, 24} : Resize(size)
  <2>1. PICK size \in {0, 24} : Resize(size)
    BY <1>9
  <2>2. /\ SetInfo(mFontNames, size) /\ UNCHANGED <<files, texts>>
        /\ resets < MaxSetInfo /\ resets' = resets + 1
        /\ stage' = IF mpFont' THEN "ready" ELSE "dead"
    BY <2>1 DEF Resize
  <2>3. resets' \in 0..MaxSetInfo
    BY <2>2, BoundsAssumption DEF TypesKept
  <2>4. mFontNames \in Seq(STRING)
    BY DEF TypesKept
  <2> QED BY <2>2, <2>3, <2>4, SetInfoTypes DEF TypesKept, files, texts
<1>10. CASE UNCHANGED vars
  BY <1>1, <1>10 DEF vars, texts, TypesKept
<1> QED BY <1>3, <1>4, <1>5, <1>6, <1>7, <1>8, <1>9, <1>10 DEF Next

\* The glyphs are finitely many.
LEMMA HeapType == NoGlyphLost => heap \in Nat
<1>1. Deleted \in SUBSET Chars
  BY DEF Deleted, Codes
<1> QED BY <1>1, FilesAssumption, FS_Subset, FS_CardinalityType DEF NoGlyphLost

\* The variables keep their types.
THEOREM TypeCorrect == Spec => []TypeOK
<1>1. FontTyped /\ TypesKept /\ NoGlyphLost /\ CharactersKept => TypeOK
  <2> SUFFICES ASSUME FontTyped, TypesKept, NoGlyphLost, CharactersKept PROVE TypeOK
    OBVIOUS
  <2>1. heap \in Nat
    BY HeapType
  <2>2. {buf, given, string} \subseteq Seq(Chars)
    BY DEF TypesKept, CharactersKept
  <2> QED BY <2>1, <2>2 DEF TypeOK, TypesKept, FontTyped, Faces
<1> QED BY <1>1, InitTypes, NextTypes, FontTypedInv, NoGlyphIsLost, TextIsKept, PTL DEF Spec

-----------------------------------------------------------------------------
(* The configuration.                                                        *)

\* The option is what the first line that sets it gives it.
LEMMA OptionIs ==
    ASSUME IsFile(Conf), NEW name, name # <<>>, name[1] # "#"
    PROVE  getOption(parse_file(Lines(Conf)), name) = Intended(name)
<1> DEFINE options == parse_file(Lines(Conf))
           setting == {i \in DOMAIN Conf : Conf[i].name = name}
<1>1. /\ IF name \in DOMAIN options THEN \E i : FirstSetting(Conf, name, i)
         ELSE \A i \in DOMAIN Conf : Conf[i].name # name
      /\ \A i : FirstSetting(Conf, name, i) =>
            name \in DOMAIN options /\ options[name] = Conf[i].value
  BY ParseFileIs
<1>2. Intended(name) = IF setting = {} THEN Nothing ELSE Conf[Min(setting)].value
  BY DEF Intended
<1>3. DOMAIN Conf = 1..Len(Conf) /\ Len(Conf) \in Nat
  BY DEF IsFile
<1> HIDE DEF options
<1>4. CASE name \in DOMAIN options
  <2>1. PICK i : FirstSetting(Conf, name, i)
    BY <1>1, <1>4
  <2>2. i \in setting /\ \A j \in setting : i =< j
    BY <1>3, <2>1 DEF FirstSetting
  <2>3. \A k \in setting : k \in Int
    BY <1>3
  <2> HIDE DEF setting
  <2>4. Min(setting) = i
    BY <2>2, <2>3 DEF Min
  <2>5. getOption(options, name) = Conf[i].value
    BY <1>1, <1>4, <2>1 DEF getOption
  <2> QED BY <1>2, <2>2, <2>4, <2>5 DEF options
<1>5. CASE name \notin DOMAIN options
  <2>1. setting = {}
    BY <1>1, <1>5
  <2> QED BY <1>2, <1>5, <2>1 DEF getOption, options
<1> QED BY <1>4, <1>5

\* The options are those of the file; the font has been set to them, and asked
\* for another size at most.
Configuring ==
    stage = "ready" =>
        /\ Conf # NoFile /\ opts = parse_file(Lines(Conf))
        /\ Len(getOption(opts, FontName)) < NameBytes => mFontNames = getOption(opts, FontName)
        /\ resets = 0 /\ atoi(getOption(opts, FontSize)) # 0 =>
              mFontSize = atoi(getOption(opts, FontSize))

\* Nothing is configured at first ...
LEMMA InitChosen == Init => Configuring
BY DEF Init, Configuring

\* ... and Start configures what the file asks for.
LEMMA NextChosen == FontTyped /\ TypesKept /\ Configuring /\ [Next]_vars => Configuring'
<1> SUFFICES ASSUME FontTyped, TypesKept, Configuring, [Next]_vars PROVE Configuring'
  OBVIOUS
<1>1. ASSUME UNCHANGED <<settings, files, stage, opts, resets>> PROVE Configuring'
  BY <1>1 DEF Configuring, settings, files, Conf
<1>2. ASSUME UNCHANGED <<files, stage, opts, resets>>, NEW ch, NEW g, GetGlyph(ch, g)
      PROVE  Configuring'
  BY <1>1, <1>2, GetGlyphTypes DEF settings
<1>3. CASE Start
  <2>1. CASE Conf = NoFile
    BY <1>3, <2>1 DEF Start, Configuring
  <2>2. CASE Conf # NoFile
    <3> DEFINE name == getOption(opts', FontName)
               size == atoi(getOption(opts', FontSize))
    <3>1. opts' = parse_file(Lines(Conf)) /\ SetInfo(name, size) /\ UNCHANGED <<files, resets>>
      BY <1>3, <2>2 DEF Start
    <3>2. size \in Nat
      <4>1. Conf \in (Homes \union Systems) \ {NoFile}
        BY <2>2 DEF Conf, Chosen, TypesKept
      <4>2. opts' \in OptionSets
        BY <3>1, <4>1, FilesAreFiles, ParseFileIs
      <4>3. getOption(opts', FontSize) \in Seq(STRING)
        BY <4>2, OptionType
      <4> QED BY <4>3, AtoiType
    <3> HIDE DEF name, size
    <3>3. /\ Len(name) < NameBytes => mFontNames' = name
          /\ size # 0 => mFontSize' = size
      BY <3>1, <3>2 DEF SetInfo
    <3>4. Conf' = Conf
      BY <3>1 DEF files, Conf
    <3> QED BY <2>2, <3>1, <3>3, <3>4 DEF Configuring, name, size
  <2> QED BY <2>1, <2>2
<1>4. CASE \E s \in Strings : AppendString(s)
  BY <1>1, <1>4 DEF AppendString, font
<1>5. CASE Clear
  BY <1>1, <1>5 DEF Clear, font
<1>6. CASE MeasureNext
  BY <1>2, <1>6 DEF MeasureNext
<1>7. CASE PaintNext
  BY <1>2, <1>7 DEF PaintNext
<1>8. CASE RenderEnds
  BY <1>1, <1>8 DEF RenderEnds, font
<1>9. CASE \E size \in {0, 24} : Resize(size)
  <2>1. PICK size \in {0, 24} : Resize(size)
    BY <1>9
  <2>2. /\ SetInfo(mFontNames, size) /\ UNCHANGED <<files, opts>> /\ stage = "ready"
        /\ resets' = resets + 1
    BY <2>1 DEF Resize, Idle
  <2>3. mFontNames' = mFontNames
    BY <2>2 DEF SetInfo
  <2>4. resets' # 0
    BY <2>2 DEF TypesKept
  <2>5. Conf' = Conf
    BY <2>2 DEF files, Conf
  <2> QED BY <2>2, <2>3, <2>4, <2>5 DEF Configuring
<1>10. CASE UNCHANGED vars
  BY <1>1, <1>10 DEF vars, font
<1> QED BY <1>3, <1>4, <1>5, <1>6, <1>7, <1>8, <1>9, <1>10 DEF Next

\* Every option has the value of the first line that sets it.
THEOREM FontIsConfigured == Spec => []Configured
<1>1. TypesKept /\ Configuring => Configured
  <2> SUFFICES ASSUME TypesKept, Configuring, stage = "ready" PROVE Configured
    BY DEF Configured
  <2>1. Conf \in (Homes \union Systems) \ {NoFile}
    BY DEF Configuring, Conf, Chosen, TypesKept
  <2>2. IsFile(Conf)
    BY <2>1, FilesAreFiles
  <2>3. getOption(opts, FontName) = Intended(FontName)
    <3>1. FontName # <<>> /\ FontName[1] # "#"
      BY DEF FontName
    <3> QED BY <2>2, <3>1, OptionIs DEF Configuring
  <2>4. getOption(opts, FontSize) = Intended(FontSize)
    <3>1. FontSize # <<>> /\ FontSize[1] # "#"
      BY DEF FontSize
    <3> QED BY <2>2, <3>1, OptionIs DEF Configuring
  <2> QED BY <2>3, <2>4 DEF Configured, Configuring
<1> QED BY <1>1, InitTypes, NextTypes, InitChosen, NextChosen, FontTypedInv, PTL DEF Spec
=============================================================================
