------------------------------- MODULE MCCwm -------------------------------
(* Scaled down: a font of 1, a slack of 2 and a border of 1 (16, 8 and 3 in   *)
(* the code) on a screen of 24 rows, where each window flips somewhere.       *)
EXTENDS Cwm
CONSTANTS t1, t2
\* Preedit texts of one shape and two pictures, a candidate list of two lines.
MCContents == [stts |-> {[lines |-> 1, w |-> 2, tag |-> "a"]},
               prdt |-> {[lines |-> 1, w |-> 2, tag |-> "a"],
                         [lines |-> 1, w |-> 2, tag |-> "b"]},
               lkc  |-> {[lines |-> 2, w |-> 2, tag |-> "c"]}]
MCWidths == {0, 2}
MCCursorXs == {0}
MCCursorYs == {0, 14, 19}
MCRegions == {0..9, 10..23}
=============================================================================
