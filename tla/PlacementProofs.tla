-------------------------- MODULE PlacementProofs --------------------------
(***************************************************************************)
(* Proofs about Placement, for every font, screen and candidate list.  The  *)
(* inductive invariant says that every window stands where its Shift would  *)
(* put it now; the geometric facts follow from it by linear arithmetic on   *)
(* the four ways two windows can have flipped.                              *)
(***************************************************************************)
EXTENDS Placement, GeometryProofs

IInv == TypeOK /\ Placed

\* The windows are placed at the start.
LEMMA InitIInv == Init => IInv
<1> SUFFICES ASSUME Init PROVE IInv
  OBVIOUS
<1>1. cursor \in Cursors
  BY MetricsAssumption DEF Init, Cursors
<1>2. \A win \in Windows : size[win] \in Sizes(win)
  <2>1. \A win \in Windows : HeightOf(0) \in Heights(win)
    BY MetricsAssumption DEF Heights, MaxLinesOf
  <2>2. HeightOf(1) \in Heights("stts")
    BY DEF Heights, MaxLinesOf
  <2>3. HeightOf(0) = 0
    BY DEF HeightOf
  <2> QED BY <2>1, <2>2, <2>3, MetricsAssumption DEF Init, Sizes, Windows
<1>3. size \in [Windows -> [w : Nat, h : Nat]]
  BY <1>2, SizesType DEF Init
<1>4. pos \in [Windows -> [x : Int, y : Int]]
  BY <1>1, <1>2, PlaceType DEF Init
<1> QED BY <1>1, <1>2, <1>3, <1>4 DEF Init, IInv, TypeOK, Placed

\* A new cursor and a new size both place the windows they concern.
LEMMA NextIInv == IInv /\ [Next]_vars => IInv'
<1> SUFFICES ASSUME IInv, [Next]_vars PROVE IInv'
  OBVIOUS
<1>1. ASSUME NEW new \in Cursors, SetPosition(new) PROVE IInv'
  <2>1. \A win \in Windows : Place(win, new, size[win]) \in [x : Int, y : Int]
    BY PlaceType DEF IInv, TypeOK
  <2> QED BY <1>1, <2>1 DEF SetPosition, IInv, TypeOK, Placed
<1>2. ASSUME NEW win \in Windows, NEW new \in Sizes(win), Resize(win, new)
      PROVE  IInv'
  <2>1. Place(win, cursor, new) \in [x : Int, y : Int]
    BY PlaceType DEF IInv, TypeOK
  <2>2. new \in [w : Nat, h : Nat]
    BY SizesType
  <2> QED BY <1>2, <2>1, <2>2 DEF Resize, IInv, TypeOK, Placed
<1>3. CASE UNCHANGED vars
  BY <1>3 DEF vars, IInv, TypeOK, Placed
<1> QED BY <1>1, <1>2, <1>3 DEF Next

\* The sizes and positions keep their types.
THEOREM TypeCorrect == Spec => []TypeOK
<1>1. IInv => TypeOK
  BY DEF IInv
<1> QED BY <1>1, InitIInv, NextIInv, PTL DEF Spec

\* Placed windows do not meet.
LEMMA IInvDisjoint == IInv => Disjoint
<1> SUFFICES ASSUME IInv, NEW v \in Windows, NEW w \in Windows, v # w
             PROVE  Above(v, w) \/ Above(w, v)
  BY DEF Disjoint
<1>1. /\ cursor \in Cursors
      /\ size[v] \in Sizes(v) /\ pos[v] = Place(v, cursor, size[v])
      /\ size[w] \in Sizes(w) /\ pos[w] = Place(w, cursor, size[w])
  BY DEF IInv, TypeOK, Placed
<1> QED BY <1>1, PlacedApart DEF Above

\* No two windows ever share a row, for every font, screen size, cursor and
\* number of candidates.
THEOREM WindowsDisjoint == Spec => []Disjoint
BY InitIInv, NextIInv, IInvDisjoint, PTL DEF Spec

\* A placed window is above or below the line of the cursor.
LEMMA IInvCursorLineFree == IInv => CursorLineFree
<1> SUFFICES ASSUME IInv, NEW win \in Windows
             PROVE  \/ pos[win].y + size[win].h < cursor.y
                    \/ pos[win].y >= cursor.y + FontHeight
  BY DEF CursorLineFree
<1>1. /\ cursor.y \in Int
      /\ size[win].h \in Nat
      /\ pos[win].y = PlaceY(cursor.y, size[win].h, Gap(win))
  BY CursorType DEF IInv, TypeOK, Placed, Place
<1>2. Gap(win) \in Nat /\ Gap(win) >= FontHeight /\ Gap(win) > 0
  BY MetricsAssumption DEF Gap, Windows
<1> QED BY <1>1, <1>2, MetricsAssumption DEF PlaceY

\* No window ever covers the line the user is typing on.
THEOREM CursorLineVisible == Spec => []CursorLineFree
BY InitIInv, NextIInv, IInvCursorLineFree, PTL DEF Spec

\* Placed windows share the cursor's column, or the last one inside the margin.
LEMMA IInvCommonColumn == IInv => CommonColumn
<1> SUFFICES ASSUME IInv PROVE CommonColumn
  OBVIOUS
<1> DEFINE W(win) == size[win].w
<1>1. /\ cursor.x \in Int
      /\ \A win \in Windows : /\ W(win) \in Nat
                              /\ pos[win].x = PlaceX(cursor.x, W(win))
  BY CursorType DEF IInv, TypeOK, Placed, Place
<1> DEFINE Contains(c) == \A win \in Windows : pos[win].x <= c /\ c <= pos[win].x + W(win)
<1>2. CASE cursor.x <= Xres - Margin
  <2>1. Contains(cursor.x)
    BY <1>1, <1>2, MetricsAssumption DEF PlaceX
  <2> QED BY <2>1 DEF CommonColumn
<1>3. CASE cursor.x > Xres - Margin
  <2>1. Contains(Xres - Margin)
    BY <1>1, <1>3, MetricsAssumption DEF PlaceX
  <2> QED BY <2>1 DEF CommonColumn
<1> QED BY <1>1, <1>2, <1>3, MetricsAssumption

\* The three windows always have a column of pixels in common.
THEOREM ColumnShared == Spec => []CommonColumn
BY InitIInv, NextIInv, IInvCommonColumn, PTL DEF Spec

\* On a roomy screen a placed window is inside.
LEMMA IInvRoomyOnScreen == IInv => RoomyOnScreen
<1> SUFFICES ASSUME IInv, RoomyScreen, NEW win \in Windows
             PROVE  /\ pos[win].x >= 0 /\ pos[win].x + size[win].w < Xres
                    /\ pos[win].y >= 0 /\ pos[win].y + size[win].h < Yres
  BY DEF RoomyOnScreen, OnScreen
<1>1. /\ cursor \in Cursors
      /\ size[win] \in Sizes(win) /\ pos[win] = Place(win, cursor, size[win])
  BY DEF IInv, TypeOK, Placed
<1> QED BY <1>1, RoomyPlaced

\* On a screen with room for the widest window, and for the longest candidate
\* list above or below the cursor, no rectangle handed to a display driver
\* leaves the screen.
THEOREM NoAssertFails == Spec => []RoomyOnScreen
BY InitIInv, NextIInv, IInvRoomyOnScreen, PTL DEF Spec
=============================================================================
