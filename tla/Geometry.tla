------------------------------ MODULE Geometry ------------------------------
(***************************************************************************)
(* The sizes of the three windows of the input method and the rule that     *)
(* places them (libucimf/src/cwm.cpp: StatusShift, PreeditShift,            *)
(* LookupChoiceShift).  Each window hangs below the text cursor of the      *)
(* terminal at a distance of its own; near the right edge it is pushed to   *)
(* the left, near the bottom it flips above the cursor.                     *)
(*                                                                         *)
(* A rectangle is inclusive at both ends: GraphPort passes (x, x + w) and   *)
(* (y, y + h) to the device, which touches both (graphport.cpp:136).        *)
(***************************************************************************)
EXTENDS Integers

CONSTANTS
    FontHeight,     \* Font::instance()->height()
    Slack,          \* the 8 pixels ucimf_init adds to a line (ucimf.cpp:215)
    Border,         \* the 3 pixels a widget adds to its text (widget.cpp:146)
    Margin,         \* the 16 pixels kept free at the edges (cwm.cpp:122)
    Xres, Yres,     \* the size of the screen in pixels
    MaxLines,       \* the longest candidate list an engine shows
    Widths,         \* the widths a window may get from its text
    CursorXs, CursorYs   \* the pixel positions a host reports for its cursor

Windows == {"stts", "prdt", "lkc"}

\* A text line is higher than nothing, the border is thinner than the slack
\* between two windows: 3 and 8 in the code.
ASSUME MetricsAssumption ==
    /\ FontHeight \in Nat \ {0}
    /\ Slack \in Nat
    /\ Border \in Nat
    /\ Border < Slack
    /\ Margin \in Nat \ {0}
    /\ Xres \in Nat
    /\ Yres \in Nat
    /\ MaxLines \in Nat \ {0}
    /\ Widths \subseteq Nat
    /\ 0 \in Widths
    /\ CursorXs \subseteq Nat
    /\ CursorYs \subseteq Nat
    /\ 0 \in CursorXs
    /\ 0 \in CursorYs

Cursors == [x : CursorXs, y : CursorYs]

\* Mutated form of Gap: the height of the line is forgotten.
GapWithoutFont(win) ==
    CASE win = "stts" -> Slack
      [] win = "prdt" -> Slack * 2
      [] win = "lkc"  -> Slack * 3

\* y_gap of each Shift, as ucimf_init creates them.
Gap(win) ==
    CASE win = "stts" -> FontHeight + Slack
      [] win = "prdt" -> (FontHeight + Slack) * 2
      [] win = "lkc"  -> (FontHeight + Slack) * 3

\* The number of text lines a window can hold: Status and Preedit draw one
\* Text line, LookupChoice one per append_next.
MaxLinesOf(win) == IF win = "lkc" THEN MaxLines ELSE 1

\* The height of a window that shows n lines (Widget::draw of each widget);
\* Widget::render passes through 0 before it measures the text.
HeightOf(n) == IF n = 0 THEN 0 ELSE FontHeight * n + Border

Heights(win) == {HeightOf(n) : n \in 0..MaxLinesOf(win)}

Sizes(win) == [w : Widths, h : Heights(win)]

\* Mutated forms of the placement: the width counted twice, the flip that
\* forgets the height, the limit that forgets the gap.
PlaceXTwice(x, width) ==
    LET over_x == x + width - (Xres - Margin)
    IN  IF over_x > 0 THEN x - over_x - width ELSE x

PlaceYFlipsShort(y, height, gap) ==
    LET over_y == y + height - (Yres - Margin)
    IN  IF over_y + gap > 0 THEN y - gap ELSE y + gap

PlaceYLimitWithoutGap(y, height, gap) ==
    LET over_y == y + height - (Yres - Margin)
    IN  IF over_y > 0 THEN y - gap - height ELSE y + gap

\* Shift::update in one direction: the cursor's coordinate, the length of the
\* window, the limit it must not pass and the gap.
PlaceX(x, width) ==
    LET over_x == x + width - (Xres - Margin)
    IN  IF over_x > 0 THEN x - over_x ELSE x

PlaceY(y, height, gap) ==
    LET over_y == y + height - (Yres - Margin)
    IN  IF over_y + gap > 0 THEN y - gap - height ELSE y + gap

Place(win, cur, siz) ==
    [x |-> PlaceX(cur.x, siz.w), y |-> PlaceY(cur.y, siz.h, Gap(win))]

\* The screens on which every window fits: wide enough for the widest one, high
\* enough for the longest candidate list on either side of the cursor.
RoomyScreen ==
    /\ \A w \in Widths : w + Margin <= Xres
    /\ 2 * (HeightOf(MaxLines) + Gap("lkc")) + Margin <= Yres + 1
    /\ \A x \in CursorXs : x < Xres
    /\ \A y \in CursorYs : y < Yres
=============================================================================
