-------------------------------- MODULE Cwm --------------------------------
(***************************************************************************)
(* The save-under windows of the input method (libucimf/src/cwm.cpp,        *)
(* window.cpp, graphport.cpp, widget.cpp) on the frame buffer they share    *)
(* with the terminal.  A shown window keeps the pixels it covers in its bg  *)
(* buffer, a hidden one keeps its own picture in its fg buffer; show, hide, *)
(* xy, wh and render exchange the two.  Nothing in the code repaints the    *)
(* screen: it is right only if every exchange finds what an earlier one     *)
(* left.                                                                   *)
(*                                                                         *)
(* The screen is one column of pixels, the one Placement shows all three    *)
(* windows to contain (CommonColumn).  One thread runs the whole host, so   *)
(* an operation is one step.  The host brackets its own drawing with        *)
(* ucimf_refresh_begin and ucimf_refresh_end, as the jfbterm and bogl       *)
(* patches make it do.                                                      *)
(***************************************************************************)
EXTENDS Geometry

CONSTANTS
    Contents,       \* the texts each widget may hold: sets of [lines, w, tag]
    TermPixels,     \* what the terminal may draw in a row
    Regions         \* the sets of rows a redraw of the terminal touches

Rows == 0..(Yres - 1)

NoBuf == [w |-> -1, px |-> <<>>]

Garbage == [win |-> "none"]

Empty(win) ==
    IF win = "stts" THEN [lines |-> 1, w |-> 0, tag |-> "empty"]
                    ELSE [lines |-> 0, w |-> 0, tag |-> "empty"]

ContentsOf(win) == Contents[win] \cup {Empty(win)}

ASSUME ContentsAssumption ==
    \A win \in Windows : \A c \in Contents[win] :
      c.lines \in 1..MaxLinesOf(win) /\ c.w \in Widths

\* The size Widget::draw measures for a content.
SizeOf(content) == [w |-> content.w, h |-> HeightOf(content.lines)]

\* The rectangles handed to the drivers lie on the screen: their assert ends the
\* program otherwise (fblinear16.cpp:100), which PlacementVGA.cfg shows to happen
\* on a screen that is too low.  A RoomyScreen is high enough.
ASSUME ScreenAssumption ==
    \A win \in Windows : \A cur \in Cursors : \A c \in ContentsOf(win) :
      LET top == Place(win, cur, SizeOf(c)).y
      IN  top >= 0 /\ top + SizeOf(c).h < Yres

\* The i-th row of the picture of a content.
Image(w, content, i) == [win |-> w, content |-> content, row |-> i]

\* The whole picture, as a buffer.
PictureOf(w, content) ==
    [w  |-> SizeOf(content).w,
     px |-> [i \in 0..SizeOf(content).h |-> Image(w, content, i)]]

\* The order of the map of windows is the order of their addresses.
Orders == {o \in [1..3 -> Windows] : \A i, j \in 1..3 : o[i] = o[j] => i = j}

VARIABLES
    screen,         \* the frame buffer
    term,           \* what it would show without the input method
    win,            \* the three windows
    cursor,         \* Cwm::_cursor_x, _cursor_y
    focus,          \* Cwm::_focus
    prev_focus,     \* the global of ucimf.cpp:50
    refreshing,     \* the host is between refresh_begin and refresh_end
    order           \* the iteration order of Cwm::cwmmap

vars == <<screen, term, win, cursor, focus, prev_focus, refreshing, order>>

-----------------------------------------------------------------------------
(* Operators on a display [screen, win, cursor, focus]: one for each C++     *)
(* function, composed the way the functions call one another.                *)

Display == [screen |-> screen, win |-> win, cursor |-> cursor, focus |-> focus]

Becomes(d) ==
    /\ screen' = d.screen
    /\ win' = d.win
    /\ cursor' = d.cursor
    /\ focus' = d.focus

Top(d, w) == d.win[w].pos.y
Bottom(d, w) == d.win[w].pos.y + d.win[w].size.h

\* GraphDev::SaveRect of the rectangle of a window.
SaveRect(d, w) ==
    [w  |-> d.win[w].size.w,
     px |-> [i \in 0..d.win[w].size.h |-> d.screen[Top(d, w) + i]]]

\* GraphDev::RstrRect: a buffer of another shape puts other pixels on the screen.
RstrRect(d, w, buf) ==
    LET Pixel(i) == IF buf.w = d.win[w].size.w /\ i \in DOMAIN buf.px
                    THEN buf.px[i] ELSE Garbage
    IN  [d EXCEPT !.screen =
           [r \in Rows |-> IF r \in Top(d, w)..Bottom(d, w)
                           THEN Pixel(r - Top(d, w)) ELSE @[r]]]

\* Mutated form of push_fg_buf: the old picture is not replaced.
PushFgKeepsOld(d, w) ==
    IF d.win[w].fg = NoBuf THEN [d EXCEPT !.win[w].fg = SaveRect(d, w)] ELSE d

\* push_bg_buf and push_fg_buf.
PushBg(d, w) == [d EXCEPT !.win[w].bg = SaveRect(d, w)]
PushFg(d, w) == [d EXCEPT !.win[w].fg = SaveRect(d, w)]

\* pop_bg_buf and pop_fg_buf; RstrRect frees the buffer.
PopBg(d, w) ==
    IF d.win[w].bg = NoBuf THEN d
    ELSE [RstrRect(d, w, d.win[w].bg) EXCEPT !.win[w].bg = NoBuf]

PopFg(d, w) ==
    IF d.win[w].fg = NoBuf THEN d
    ELSE [RstrRect(d, w, d.win[w].fg) EXCEPT !.win[w].fg = NoBuf]

\* Window::show and hide.
Show(d, w) ==
    IF d.win[w].visible THEN d
    ELSE PopFg(PushBg([d EXCEPT !.win[w].visible = TRUE], w), w)

Hide(d, w) ==
    IF ~d.win[w].visible THEN d
    ELSE PopBg(PushFg([d EXCEPT !.win[w].visible = FALSE], w), w)

\* Window::xy and wh hide the window for the change and show it again.
WhileHidden(Change(_), d, w) ==
    LET changed == Change(Hide(d, w))
    IN  IF d.win[w].visible THEN Show(changed, w) ELSE changed

\* Window::xy.
XY(d, w, new) ==
    LET Move(e) == [e EXCEPT !.win[w].pos = new]
    IN  WhileHidden(Move, d, w)

\* Cwm::update and the update of the Shift attached to the window.
Update(d, w) == XY(d, w, Place(w, d.cursor, d.win[w].size))

\* Mutated form of wh: the window manager is not told of the new size.
WHWithoutUpdate(d, w, new) ==
    LET Grow(e) == [e EXCEPT !.win[w].size = new]
    IN  WhileHidden(Grow, d, w)

\* Window::wh.
WH(d, w, new) ==
    LET Grow(e) == Update([e EXCEPT !.win[w].size = new], w)
    IN  WhileHidden(Grow, d, w)

\* Window::measure: a window grows to what is drawn in it, and never shrinks.
Measure(d, w, new) ==
    LET old == d.win[w].size
        max == [w |-> IF new.w > old.w THEN new.w ELSE old.w,
                h |-> IF new.h > old.h THEN new.h ELSE old.h]
    IN  IF max = old THEN d ELSE WH(d, w, max)

\* Mutated form of setPseudo: the window keeps its old size for the measuring.
SetPseudoKeepsSize(d, w, flag) == [d EXCEPT !.win[w].pseudo = flag]

\* GraphPort::setPseudo: entering the measuring pass empties the window.
SetPseudo(d, w, flag) ==
    LET e == IF flag /\ ~d.win[w].pseudo THEN WH(d, w, [w |-> 0, h |-> 0]) ELSE d
    IN  [e EXCEPT !.win[w].pseudo = flag]

\* Widget::draw: its filled rectangle, of the size of the content, is measured
\* in the first pass and painted in the second.
Draw(d, w) ==
    LET content == d.win[w].content
    IN  IF d.win[w].pseudo THEN Measure(d, w, SizeOf(content))
        ELSE [d EXCEPT !.screen =
                [r \in Rows |->
                   IF r \in Top(d, w)..(Top(d, w) + SizeOf(content).h)
                   THEN Image(w, content, r - Top(d, w)) ELSE @[r]]]

\* Widget::render between its hide and its show: measure, place, save what is
\* under the new rectangle, draw, keep the picture, give the pixels back.
Redraw(d, w) ==
    LET measured == Draw(SetPseudo(d, w, TRUE), w)
        drawn    == Draw(SetPseudo(PushBg(measured, w), w, FALSE), w)
        kept     == PopBg(PushFg(drawn, w), w)
    IN  [kept EXCEPT !.win[w].drawn = kept.win[w].content]

\* Mutated forms of render: the picture is drawn over the shown window, or the
\* window is not shown again.
RenderWhileShown(d, w) == Redraw(d, w)
RenderStaysHidden(d, w) == Redraw(Hide(d, w), w)

\* Widget::render.
Render(d, w) ==
    LET done == Redraw(Hide(d, w), w)
    IN  IF d.win[w].visible THEN Show(done, w) ELSE done

SetContent(d, w, content) == [d EXCEPT !.win[w].content = content]

\* The loops over Cwm::cwmmap.
ForEachWindow(Op(_, _), d) == Op(Op(Op(d, order[1]), order[2]), order[3])

\* Cwm::set_position.
SetPosition(d, new) ==
    IF new = d.cursor THEN d
    ELSE ForEachWindow(Update, [d EXCEPT !.cursor = new])

\* Cwm::set_focus.
SetFocus(d, new) ==
    IF new = d.focus THEN d
    ELSE LET e == [d EXCEPT !.focus = new]
         IN  IF new THEN ForEachWindow(Show, e) ELSE ForEachWindow(Hide, e)

-----------------------------------------------------------------------------
\* A window when its engine has been constructed (ovimf.cpp:219-221): every
\* widget has been rendered once and none is shown.
FirstWindow(w, content) ==
    [visible |-> FALSE, pseudo |-> FALSE,
     pos |-> Place(w, [x |-> 0, y |-> 0], SizeOf(content)),
     size |-> SizeOf(content),
     content |-> content, drawn |-> content,
     bg |-> NoBuf, fg |-> PictureOf(w, content)]

Init ==
    /\ \E px \in TermPixels : term = [r \in Rows |-> px]
    /\ screen = term
    /\ \E name \in ContentsOf("stts") :
         win = [w \in Windows |->
                  FirstWindow(w, IF w = "stts" THEN name ELSE Empty(w))]
    /\ cursor = [x |-> 0, y |-> 0]
    /\ focus = FALSE
    /\ prev_focus = FALSE
    /\ refreshing = FALSE
    /\ order \in Orders

\* What an engine and the front end call while the host is not drawing.
CallOutsideRefresh(d) ==
    /\ ~refreshing
    /\ Becomes(d)
    /\ UNCHANGED <<term, prev_focus, refreshing, order>>

\* Imf::refresh: Status::set_imf_status with the name of the input method.
SetImfStatus(d, name) == Render(SetContent(d, "stts", name), "stts")

\* ucimf_switch with F12: toggle the focus, then let the engine refresh.
SwitchFocus ==
    \E name \in ContentsOf("stts") :
      CallOutsideRefresh(SetImfStatus(SetFocus(Display, ~focus), name))

\* Status::set_imf_status and Status::clear.
ChangeStatus ==
    \E name \in ContentsOf("stts") : CallOutsideRefresh(SetImfStatus(Display, name))

\* Preedit::append, LookupChoice::append and append_next: text, no picture.
Append ==
    \E w \in {"prdt", "lkc"} : \E content \in ContentsOf(w) \ {Empty(w)} :
      CallOutsideRefresh(SetContent(Display, w, content))

\* Preedit::clear and LookupChoice::clear.
Clear ==
    \E w \in {"prdt", "lkc"} :
      CallOutsideRefresh(Render(SetContent(Display, w, Empty(w)), w))

\* Widget::render, called by an engine to show what it has appended.
RenderWidget == \E w \in Windows : CallOutsideRefresh(Render(Display, w))

-----------------------------------------------------------------------------
(* A host that brackets its drawing (jfbterm-0.4.7-ucimf.patch,              *)
(* ucimf_for_boglterm.patch).                                                *)

\* Mutated forms: the focus is read after the windows have been hidden, or the
\* windows stay on the screen.
RefreshBeginReadsLate ==
    /\ ~refreshing
    /\ refreshing' = TRUE
    /\ prev_focus' = FALSE
    /\ Becomes(SetFocus(Display, FALSE))
    /\ UNCHANGED <<term, order>>

RefreshBeginKeepsShown ==
    /\ ~refreshing
    /\ refreshing' = TRUE
    /\ prev_focus' = focus
    /\ UNCHANGED <<screen, win, cursor, focus, term, order>>

\* ucimf_refresh_begin.
RefreshBegin ==
    /\ ~refreshing
    /\ refreshing' = TRUE
    /\ prev_focus' = focus
    /\ Becomes(SetFocus(Display, FALSE))
    /\ UNCHANGED <<term, order>>

\* The terminal draws into some rows, whatever the frame buffer shows there.
TerminalDraws ==
    \E region \in Regions : \E px \in TermPixels :
      /\ term' = [r \in Rows |-> IF r \in region THEN px ELSE term[r]]
      /\ screen' = [r \in Rows |-> IF r \in region THEN px ELSE screen[r]]
      /\ UNCHANGED <<win, cursor, focus, prev_focus, refreshing, order>>

\* ucimf_cursor_position.
CursorPosition ==
    \E new \in Cursors :
      /\ Becomes(SetPosition(Display, new))
      /\ UNCHANGED <<term, prev_focus, refreshing, order>>

\* ucimf_refresh_end.
RefreshEnd ==
    /\ refreshing
    /\ refreshing' = FALSE
    /\ Becomes(SetFocus(Display, prev_focus))
    /\ UNCHANGED <<term, prev_focus, order>>

EngineNext == SwitchFocus \/ ChangeStatus \/ Append \/ Clear \/ RenderWidget

Next ==
    \/ EngineNext
    \/ RefreshBegin
    \/ refreshing /\ TerminalDraws
    \/ refreshing /\ CursorPosition
    \/ RefreshEnd

Spec == Init /\ [][Next]_vars

-----------------------------------------------------------------------------
RowsOf(w) == win[w].pos.y .. (win[w].pos.y + win[w].size.h)

Picture(w) == PictureOf(w, win[w].drawn)

\* A buffer that is kept always has the shape of the rectangle it will be
\* restored to, and every window has finished its two drawing passes.
TypeOK ==
    /\ DOMAIN screen = Rows
    /\ term \in [Rows -> TermPixels]
    /\ cursor \in Cursors
    /\ {focus, prev_focus, refreshing} \subseteq BOOLEAN
    /\ order \in Orders
    /\ \A w \in Windows :
         /\ win[w].visible \in BOOLEAN
         /\ win[w].pseudo = FALSE
         /\ {win[w].content, win[w].drawn} \subseteq ContentsOf(w)
         /\ win[w].size = SizeOf(win[w].drawn)

\* All windows follow the focus of the window manager, in the brackets too:
\* no render, move or resize leaves one window shown or hidden on its own.
FocusVisible == \A w \in Windows : win[w].visible = focus

\* Where no window is shown the screen is the terminal's: no picture of a
\* hidden or moved window is left behind and nothing the terminal drew is lost.
NoGhost ==
    \A r \in Rows :
      (\A w \in Windows : win[w].visible => r \notin RowsOf(w))
        => screen[r] = term[r]

\* A shown window keeps exactly what the terminal has under it.
SavedBackground ==
    \A w \in Windows :
      win[w].visible =>
        win[w].bg = [w  |-> win[w].size.w,
                     px |-> [i \in 0..win[w].size.h |-> term[win[w].pos.y + i]]]

\* A shown window shows what it last rendered, complete and nothing else; a
\* hidden one keeps that picture for the next show.
ImageIntact ==
    \A w \in Windows :
      IF win[w].visible
      THEN \A r \in RowsOf(w) : screen[r] = Picture(w).px[r - win[w].pos.y]
      ELSE win[w].fg = Picture(w)

\* The focus the windows have, or will have once the host has drawn.
FocusToKeep == IF refreshing THEN prev_focus ELSE focus

\* Only the user's switch turns the input method on or off: a redraw of the
\* host, which hides everything for a moment, gives back what it found.
FocusKept == [][FocusToKeep' # FocusToKeep => SwitchFocus]_vars

\* The window manager implements Placement: hiding, rendering twice and moving
\* one by one never leaves a window where its Shift would not put it.
P == INSTANCE Placement WITH size <- [w \in Windows |-> win[w].size],
                             pos <- [w \in Windows |-> win[w].pos]

ImplementsPlacement == P!Spec
=============================================================================
