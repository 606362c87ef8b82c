----------------------------- MODULE Placement -----------------------------
(***************************************************************************)
(* What the window manager (libucimf/src/cwm.cpp, window.cpp) promises      *)
(* about where the windows stand, to the code that saves and restores the   *)
(* pixels under them: every window is always where its Shift puts it, so no *)
(* two ever share a row.  The module keeps no pixels; Cwm does, and         *)
(* implements it.                                                          *)
(***************************************************************************)
EXTENDS Geometry

VARIABLES
    cursor,         \* Cwm::_cursor_x, _cursor_y
    size,           \* Window::width, height
    pos             \* Window::pos_x, pos_y

vars == <<cursor, size, pos>>

\* Once every window has been rendered: the name of the input method shown,
\* nothing typed, the cursor where the constructor of Cwm puts it.
Init ==
    /\ cursor = [x |-> 0, y |-> 0]
    /\ \E w \in Widths :
         size = [win \in Windows |->
                   IF win = "stts" THEN [w |-> w, h |-> HeightOf(1)]
                                   ELSE [w |-> 0, h |-> 0]]
    /\ pos = [win \in Windows |-> Place(win, cursor, size[win])]

\* Cwm::set_position: a new cursor moves every window.
SetPosition(new) ==
    /\ new # cursor
    /\ cursor' = new
    /\ pos' = [win \in Windows |-> Place(win, new, size[win])]
    /\ UNCHANGED size

\* Window::wh with the call of Cwm::update in it: a new size moves the window.
Resize(win, new) ==
    /\ size' = [size EXCEPT ![win] = new]
    /\ pos' = [pos EXCEPT ![win] = Place(win, cursor, new)]
    /\ UNCHANGED cursor

Next ==
    \/ \E new \in Cursors : SetPosition(new)
    \/ \E win \in Windows : \E new \in Sizes(win) : Resize(win, new)

Spec == Init /\ [][Next]_vars

-----------------------------------------------------------------------------
\* Every window is as large as its text allows and stands where its Shift puts it.
TypeOK ==
    /\ cursor \in Cursors
    /\ size \in [Windows -> [w : Nat, h : Nat]]
    /\ \A win \in Windows : size[win] \in Sizes(win)
    /\ pos \in [Windows -> [x : Int, y : Int]]

\* A window is always where the Shift attached to it puts a window of its size
\* at the current cursor: no handler leaves a window behind.
Placed ==
    \A win \in Windows : pos[win] = Place(win, cursor, size[win])

Rows(win) == pos[win].y .. (pos[win].y + size[win].h)

Above(v, w) == pos[v].y + size[v].h < pos[w].y

\* No two windows share a row, whichever of them have flipped above the cursor
\* and however long the candidate list is.  The save-under buffers of cwm.cpp
\* are only right because of it.
Disjoint ==
    \A v, w \in Windows : v # w => Above(v, w) \/ Above(w, v)

\* No window covers the line of text the user is typing on.
CursorLineFree ==
    \A win \in Windows :
        \/ pos[win].y + size[win].h < cursor.y
        \/ pos[win].y >= cursor.y + FontHeight

\* There is a column of pixels all three windows contain, so a model that
\* keeps one column of the screen sees every overlap there can be.
CommonColumn ==
    \E c \in {cursor.x, Xres - Margin} :
        \A win \in Windows : pos[win].x <= c /\ c <= pos[win].x + size[win].w

\* The asserts at the head of SaveRect, RstrRect and FillRect of the display
\* drivers (fblinear16.cpp:100): the rectangle lies on the screen.
OnScreen ==
    \A win \in Windows :
        /\ pos[win].x >= 0 /\ pos[win].x + size[win].w < Xres
        /\ pos[win].y >= 0 /\ pos[win].y + size[win].h < Yres

\* On a roomy screen no call of the display drivers fails its assert.
RoomyOnScreen == RoomyScreen => OnScreen
=============================================================================
