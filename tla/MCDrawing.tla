------------------------------ MODULE MCDrawing ------------------------------
(* Scaled down: a font of 2 x 2, a border of 1 and a screen of 9 x 8 pixels    *)
(* with one more column of padding, as hardware that aligns its lines has.    *)
EXTENDS Drawing
MCFormat(bits, green) ==
    [bits_per_pixel |-> bits, green |-> green, xres |-> 9, yres |-> 8,
     line_length |-> 10 * (bits \div 8)]
MCFormats == {MCFormat(16, 6), MCFormat(16, 5), MCFormat(32, 8)}
MCFormats24 == {MCFormat(24, 8)}
\* A full glyph, a narrow one with room on its left and a width rounded down to 0
\* (half the font's width is counted for it all the same), one that reaches to
\* the left of its origin, and a character no font has.
MCGlyphs ==
    [w |-> [pitch |-> 2, width |-> 2, height |-> 2, left |-> 0, top |-> 0,
            ink |-> [x : 0..1, y : 0..1]],
     i |-> [pitch |-> 1, width |-> 0, height |-> 2, left |-> 1, top |-> 0,
            ink |-> [x : {0}, y : 0..1]],
     j |-> [pitch |-> 2, width |-> 2, height |-> 1, left |-> -1, top |-> 1,
            ink |-> {[x |-> 0, y |-> 0], [x |-> 1, y |-> 0]}],
     u |-> NoGlyph]
\* No bitmap is wider than what is measured, nor above or below its line: the glyphs
\* are Fitted, as the theorems suppose.
ASSUME GlyphsFitted ==
    \A ch \in DOMAIN Glyphs : Glyphs[ch] # NoGlyph =>
      LET g == Glyphs[ch]
      IN  /\ g.pitch <= Larger(g.width, FontWidth \div 2)
          /\ g.left >= -1 /\ g.left + Larger(g.pitch, FontWidth \div 2) >= 0
          /\ g.top >= -Border /\ g.top + g.height <= FontHeight
MCTexts ==
    [stts |-> {<<<<"w">>, <<>>>>, <<<<"j">>, <<"i">>>>, <<<<>>, <<>>>>},
     prdt |-> {<<<<"w">>>>, <<<<"i">>>>, <<<<"i", "i", "w">>>>, <<<<"w", "w">>>>,
              <<<<"j", "w", "u">>>>},
     lkc  |-> {<<<<"i">>>>, <<<<"w">>>>, <<<<"w">>, <<"i", "j">>>>}]
MCPositions == {[x |-> 0, y |-> 0], [x |-> 1, y |-> 2]}
=============================================================================
