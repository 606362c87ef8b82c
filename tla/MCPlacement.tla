---------------------------- MODULE MCPlacement ----------------------------
(* A screen of 40 x 59 pixels with a font of 4: the flips of the three       *)
(* windows all happen at different cursor rows, listed on both sides.        *)
EXTENDS Placement
MCWidths == {0, 1, 9, 36}
MCCursorXs == {0, 3, 20, 36, 39}
MCCursorYs == {0, 28, 29, 33, 38, 39, 44, 45, 50, 58}
\* 640 x 480, a font of 16 and the real constants: ten candidates on lines of
\* their own, as sunpinyin.cpp lists them.
VGAWidths == {0, 100}
VGACursorXs == {0, 320}
VGACursorYs == {0, 224, 232, 464}
=============================================================================
