--------------------------- MODULE GeometryProofs ---------------------------
(***************************************************************************)
(* Lemmas about the operators of Geometry, for every font, screen and       *)
(* candidate list: what sizes and places are, and that no two windows       *)
(* placed for one cursor share a row.  PlacementProofs and CwmProofs both   *)
(* rest on them.                                                           *)
(***************************************************************************)
EXTENDS Geometry, TLAPS

\* The height of n lines is a natural number, whatever the font.
LEMMA HeightNat == \A n \in Nat : HeightOf(n) \in Nat
<1> SUFFICES ASSUME NEW n \in Nat PROVE HeightOf(n) \in Nat
  OBVIOUS
<1>1. FontHeight * n \in Nat
  BY MetricsAssumption
<1> QED BY <1>1, MetricsAssumption DEF HeightOf

\* A window of one line is lower than the distance between two gaps.
LEMMA OneLine ==
    ASSUME NEW win \in {"stts", "prdt"}, NEW s \in Sizes(win)
    PROVE  s.h \in 0..(FontHeight + Border)
<1>1. PICK n \in 0..1 : s.h = HeightOf(n)
  BY DEF Sizes, Heights, MaxLinesOf
<1>2. CASE n = 0
  BY <1>1, <1>2, MetricsAssumption DEF HeightOf
<1>3. CASE n = 1
  BY <1>1, <1>3, MetricsAssumption DEF HeightOf
<1> QED BY <1>1, <1>2, <1>3

\* Widths and heights are natural numbers.
LEMMA SizesType ==
    ASSUME NEW win \in Windows, NEW s \in Sizes(win)
    PROVE  s \in [w : Nat, h : Nat]
<1>1. PICK n \in 0..MaxLinesOf(win) : s.h = HeightOf(n)
  BY DEF Sizes, Heights
<1>2. n \in Nat
  BY MetricsAssumption DEF MaxLinesOf
<1>3. s.h \in Nat
  BY <1>1, <1>2, HeightNat
<1> QED BY <1>3, MetricsAssumption DEF Sizes

\* Every gap is a natural number.
LEMMA GapType == \A win \in Windows : Gap(win) \in Nat
BY MetricsAssumption DEF Gap, Windows

\* The coordinates of a cursor are natural numbers.
LEMMA CursorType == \A cur \in Cursors : cur.x \in Nat /\ cur.y \in Nat
BY MetricsAssumption DEF Cursors

\* A placed window has an integer column, which may be negative.
LEMMA PlaceXType == \A x, w \in Int : PlaceX(x, w) \in Int
BY MetricsAssumption DEF PlaceX

\* A placed window has an integer row, which may be negative.
LEMMA PlaceYType == \A y, h, g \in Int : PlaceY(y, h, g) \in Int
BY MetricsAssumption DEF PlaceY

\* A placed window has a position.
LEMMA PlaceType ==
    ASSUME NEW win \in Windows, NEW cur \in Cursors, NEW s \in Sizes(win)
    PROVE  Place(win, cur, s) \in [x : Int, y : Int]
<1>1. s.w \in Int /\ s.h \in Int /\ Gap(win) \in Int
  BY SizesType, GapType
<1>2. cur.x \in Int /\ cur.y \in Int
  BY CursorType
<1> QED BY <1>1, <1>2, PlaceXType, PlaceYType DEF Place

\* Rows of one column: y, height and gap of the upper window, then of the lower.
LEMMA RowsApart ==
    ASSUME NEW y \in Int, NEW h1 \in Nat, NEW h2 \in Nat,
           NEW g1 \in Nat, NEW g2 \in Nat, g1 + h1 < g2, h1 < g1
    PROVE  \/ PlaceY(y, h1, g1) + h1 < PlaceY(y, h2, g2)
           \/ PlaceY(y, h2, g2) + h2 < PlaceY(y, h1, g1)
BY MetricsAssumption DEF PlaceY

\* No window is higher than the longest candidate list.
LEMMA HeightBound ==
    ASSUME NEW win \in Windows, NEW s \in Sizes(win)
    PROVE  s.h \in Nat /\ s.h <= HeightOf(MaxLines)
<1>1. PICK n \in 0..MaxLinesOf(win) : s.h = HeightOf(n)
  BY DEF Sizes, Heights
<1>2. n \in Nat /\ n <= MaxLines
  BY MetricsAssumption DEF MaxLinesOf
<1>3. FontHeight * (MaxLines - n) \in Nat
  BY <1>2, MetricsAssumption
<1>4. FontHeight * MaxLines = FontHeight * n + FontHeight * (MaxLines - n)
  BY <1>2, MetricsAssumption
<1>5. FontHeight * n \in Nat /\ FontHeight * MaxLines \in Nat
  BY <1>2, MetricsAssumption
<1>6. HeightOf(n) <= FontHeight * n + Border /\ HeightOf(MaxLines) = FontHeight * MaxLines + Border
  BY <1>5, MetricsAssumption DEF HeightOf
<1> QED BY <1>1, <1>2, <1>3, <1>4, <1>5, <1>6, HeightNat, MetricsAssumption

\* How far apart the gaps of two windows are: a window of one line is lower than
\* what separates its gap from that of any window below it.
LEMMA GapsApart ==
    ASSUME NEW s \in Sizes("stts"), NEW p \in Sizes("prdt")
    PROVE  /\ Gap("stts") + s.h < Gap("prdt") /\ Gap("stts") + s.h < Gap("lkc")
           /\ s.h < Gap("stts")
           /\ Gap("prdt") + p.h < Gap("lkc") /\ p.h < Gap("prdt")
<1>1. s.h \in 0..(FontHeight + Border) /\ p.h \in 0..(FontHeight + Border)
  BY OneLine
<1>2. /\ Gap("stts") = FontHeight + Slack
      /\ Gap("prdt") = (FontHeight + Slack) * 2
      /\ Gap("lkc") = (FontHeight + Slack) * 3
  BY DEF Gap
<1> QED BY <1>1, <1>2, MetricsAssumption

\* Two windows placed for one cursor share no row, whatever they show and
\* whichever of them has flipped above the cursor.
LEMMA PlacedApart ==
    ASSUME NEW v \in Windows, NEW w \in Windows, v # w, NEW cur \in Cursors,
           NEW s \in Sizes(v), NEW t \in Sizes(w)
    PROVE  \/ Place(v, cur, s).y + s.h < Place(w, cur, t).y
           \/ Place(w, cur, t).y + t.h < Place(v, cur, s).y
<1>1. cur.y \in Int /\ s.h \in Nat /\ t.h \in Nat /\ Gap(v) \in Nat /\ Gap(w) \in Nat
  BY CursorType, SizesType, GapType
<1>2. /\ Place(v, cur, s).y = PlaceY(cur.y, s.h, Gap(v))
      /\ Place(w, cur, t).y = PlaceY(cur.y, t.h, Gap(w))
  BY DEF Place
<1>3. ASSUME Gap(v) + s.h < Gap(w), s.h < Gap(v)
      PROVE  \/ Place(v, cur, s).y + s.h < Place(w, cur, t).y
             \/ Place(w, cur, t).y + t.h < Place(v, cur, s).y
  BY <1>1, <1>2, <1>3, RowsApart
<1>4. ASSUME Gap(w) + t.h < Gap(v), t.h < Gap(w)
      PROVE  \/ Place(v, cur, s).y + s.h < Place(w, cur, t).y
             \/ Place(w, cur, t).y + t.h < Place(v, cur, s).y
  BY <1>1, <1>2, <1>4, RowsApart
<1>5. \/ Gap(v) + s.h < Gap(w) /\ s.h < Gap(v)
      \/ Gap(w) + t.h < Gap(v) /\ t.h < Gap(w)
  <2>1. /\ [w |-> 0, h |-> 0] \in Sizes("stts")
        /\ [w |-> 0, h |-> 0] \in Sizes("prdt")
    BY MetricsAssumption DEF Sizes, Heights, MaxLinesOf, HeightOf
  <2>2. CASE v = "stts" /\ w = "prdt"
    BY <2>2, GapsApart
  <2>3. CASE v = "prdt" /\ w = "stts"
    BY <2>3, GapsApart
  <2>4. CASE v = "stts" /\ w = "lkc"
    BY <2>1, <2>4, GapsApart
  <2>5. CASE v = "lkc" /\ w = "stts"
    BY <2>1, <2>5, GapsApart
  <2>6. CASE v = "prdt" /\ w = "lkc"
    BY <2>1, <2>6, GapsApart
  <2>7. CASE v = "lkc" /\ w = "prdt"
    BY <2>1, <2>7, GapsApart
  <2> QED BY <2>2, <2>3, <2>4, <2>5, <2>6, <2>7 DEF Windows
<1> QED BY <1>3, <1>4, <1>5

\* On a roomy screen a placed window is inside.
LEMMA RoomyPlaced ==
    ASSUME RoomyScreen, NEW win \in Windows, NEW cur \in Cursors, NEW s \in Sizes(win)
    PROVE  /\ Place(win, cur, s).x >= 0 /\ Place(win, cur, s).x + s.w < Xres
           /\ Place(win, cur, s).y >= 0 /\ Place(win, cur, s).y + s.h < Yres
<1>1. cur.x \in Nat /\ cur.x < Xres /\ cur.y \in Nat /\ cur.y < Yres
  BY CursorType, MetricsAssumption DEF RoomyScreen, Cursors
<1>2. Place(win, cur, s).x >= 0 /\ Place(win, cur, s).x + s.w < Xres
  <2>1. s.w \in Nat /\ s.w + Margin <= Xres
    BY MetricsAssumption DEF Sizes, RoomyScreen
  <2>2. Place(win, cur, s).x = PlaceX(cur.x, s.w)
    BY DEF Place
  <2> QED BY <1>1, <2>1, <2>2, MetricsAssumption DEF PlaceX
<1>3. Place(win, cur, s).y >= 0 /\ Place(win, cur, s).y + s.h < Yres
  <2>1. Place(win, cur, s).y = PlaceY(cur.y, s.h, Gap(win))
    BY DEF Place
  <2>2. Gap(win) \in Nat /\ Gap(win) <= Gap("lkc") /\ Gap("lkc") \in Nat
    BY MetricsAssumption DEF Gap, Windows
  <2>3. s.h \in Nat /\ s.h <= HeightOf(MaxLines)
    BY HeightBound
  <2>4. HeightOf(MaxLines) \in Nat
    BY HeightNat, MetricsAssumption
  <2>5. 2 * (s.h + Gap(win)) + Margin <= Yres + 1
    BY <2>2, <2>3, <2>4, MetricsAssumption DEF RoomyScreen
  <2> QED BY <2>1, <2>2, <2>3, <2>5, <1>1, MetricsAssumption DEF PlaceY
<1> QED BY <1>2, <1>3
=============================================================================
