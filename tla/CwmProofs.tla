------------------------------ MODULE CwmProofs ------------------------------
(***************************************************************************)
(* Proofs about Cwm.  The operators of Cwm map a display to a display, so   *)
(* most lemmas speak of one display d and of what an operator makes of it.  *)
(*                                                                         *)
(* First come equations: which screen and which window record an operator   *)
(* yields (Yields), from the pushes and pops of one buffer up to a whole    *)
(* render.  Then the predicate Sound(d, T), true of a display on which      *)
(*   - every window stands where its Shift puts the size of its picture,    *)
(*   - a shown window saves what T has under it and shows its picture, a    *)
(*     hidden one keeps that picture,                                       *)
(*   - every row no shown window covers is T's,                             *)
(* where T is the screen of the terminal alone.  Every operation that the   *)
(* steps are made of keeps a display sound: show, hide, render, set_focus,  *)
(* set_position.  It is here that the windows must not share a row: what a  *)
(* show saves, and what a hide gives back, is T's only because no other     *)
(* window is on those rows (StandingApart, from PlacedApart of              *)
(* GeometryProofs).                                                        *)
(*                                                                         *)
(* The invariant IInv says that the display is sound for term, and that no  *)
(* window is shown while the host draws.  Each action keeps it, and does to *)
(* the places of the windows what a step of Placement does.                 *)
(***************************************************************************)
EXTENDS Cwm, GeometryProofs

(***************************************************************************)
(* Displays.                                                               *)
(***************************************************************************)

\* The record of a window from its fields.
Window(visible, pseudo, pos, size, content, drawn, bg, fg) ==
    [visible |-> visible, pseudo |-> pseudo, pos |-> pos, size |-> size,
     content |-> content, drawn |-> drawn, bg |-> bg, fg |-> fg]

IsWindow(x) ==
    /\ x = Window(x.visible, x.pseudo, x.pos, x.size, x.content, x.drawn, x.bg, x.fg)
    /\ x.visible \in BOOLEAN
    /\ x.pseudo \in BOOLEAN

IsScreen(s) == s = [r \in Rows |-> s[r]]

IsDisplay(d) ==
    /\ d = [screen |-> d.screen, win |-> d.win, cursor |-> d.cursor, focus |-> d.focus]
    /\ IsScreen(d.screen)
    /\ d.win = [w \in Windows |-> d.win[w]]
    /\ \A w \in Windows : IsWindow(d.win[w])

\* e is the display d after an operation on the window w, which leaves the
\* screen s and the window x.
Yields(d, w, e, s, x) ==
    /\ IsDisplay(e)
    /\ e.screen = s
    /\ e.win[w] = x
    /\ e.cursor = d.cursor
    /\ e.focus = d.focus
    /\ \A v \in Windows : v # w => e.win[v] = d.win[v]

\* One operation after another.
LEMMA YieldsTwice ==
    ASSUME NEW d, NEW w, NEW e, NEW s, NEW x, NEW f, NEW t, NEW y,
           Yields(d, w, e, s, x), Yields(e, w, f, t, y)
    PROVE  Yields(d, w, f, t, y)
BY DEF Yields

\* A new record for a window.
LEMMA WindowYields ==
    ASSUME NEW d, IsDisplay(d), NEW w \in Windows, NEW x, IsWindow(x)
    PROVE  Yields(d, w, [d EXCEPT !.win[w] = x], d.screen, x)
<1> DEFINE e == [screen |-> d.screen, win |-> [d.win EXCEPT ![w] = x],
                 cursor |-> d.cursor, focus |-> d.focus]
<1>1. [d EXCEPT !.win[w] = x] = e
  BY DEF IsDisplay
<1>2. e.win = [d.win EXCEPT ![w] = x]
  OBVIOUS
<1>3. /\ e.win[w] = x
      /\ \A v \in Windows : v # w => e.win[v] = d.win[v]
      /\ e.win = [v \in Windows |-> e.win[v]]
  BY <1>2 DEF IsDisplay
<1>4. e.screen = d.screen /\ e.cursor = d.cursor /\ e.focus = d.focus
  OBVIOUS
<1>5. e = [screen |-> e.screen, win |-> e.win, cursor |-> e.cursor, focus |-> e.focus]
  OBVIOUS
<1> HIDE DEF e
<1>6. IsDisplay(e)
  BY <1>3, <1>4, <1>5 DEF IsDisplay
<1> QED BY <1>1, <1>3, <1>4, <1>6 DEF Yields

\* New pixels on the screen.
LEMMA ScreenYields ==
    ASSUME NEW d, IsDisplay(d), NEW w \in Windows, NEW s, IsScreen(s)
    PROVE  Yields(d, w, [d EXCEPT !.screen = s], s, d.win[w])
<1> DEFINE e == [screen |-> s, win |-> d.win, cursor |-> d.cursor, focus |-> d.focus]
<1>1. [d EXCEPT !.screen = s] = e
  BY DEF IsDisplay
<1>2. e.screen = s /\ e.win = d.win /\ e.cursor = d.cursor /\ e.focus = d.focus
  OBVIOUS
<1>3. e = [screen |-> e.screen, win |-> e.win, cursor |-> e.cursor, focus |-> e.focus]
  OBVIOUS
<1> HIDE DEF e
<1>4. IsDisplay(e)
  BY <1>2, <1>3 DEF IsDisplay
<1> QED BY <1>1, <1>2, <1>4 DEF Yields

\* A window record with a new value in one of its fields.
LEMMA FieldIs ==
    ASSUME NEW x, IsWindow(x), NEW v
    PROVE  /\ [x EXCEPT !.visible = v] = Window(v, x.pseudo, x.pos, x.size, x.content, x.drawn, x.bg, x.fg)
           /\ [x EXCEPT !.pseudo = v] = Window(x.visible, v, x.pos, x.size, x.content, x.drawn, x.bg, x.fg)
           /\ [x EXCEPT !.pos = v] = Window(x.visible, x.pseudo, v, x.size, x.content, x.drawn, x.bg, x.fg)
           /\ [x EXCEPT !.size = v] = Window(x.visible, x.pseudo, x.pos, v, x.content, x.drawn, x.bg, x.fg)
           /\ [x EXCEPT !.content = v] = Window(x.visible, x.pseudo, x.pos, x.size, v, x.drawn, x.bg, x.fg)
           /\ [x EXCEPT !.drawn = v] = Window(x.visible, x.pseudo, x.pos, x.size, x.content, v, x.bg, x.fg)
           /\ [x EXCEPT !.bg = v] = Window(x.visible, x.pseudo, x.pos, x.size, x.content, x.drawn, v, x.fg)
           /\ [x EXCEPT !.fg = v] = Window(x.visible, x.pseudo, x.pos, x.size, x.content, x.drawn, x.bg, v)
<1>1. [x EXCEPT !.visible = v] = Window(v, x.pseudo, x.pos, x.size, x.content, x.drawn, x.bg, x.fg)
  BY DEF IsWindow, Window
<1>2. [x EXCEPT !.pseudo = v] = Window(x.visible, v, x.pos, x.size, x.content, x.drawn, x.bg, x.fg)
  BY DEF IsWindow, Window
<1>3. [x EXCEPT !.pos = v] = Window(x.visible, x.pseudo, v, x.size, x.content, x.drawn, x.bg, x.fg)
  BY DEF IsWindow, Window
<1>4. [x EXCEPT !.size = v] = Window(x.visible, x.pseudo, x.pos, v, x.content, x.drawn, x.bg, x.fg)
  BY DEF IsWindow, Window
<1>5. [x EXCEPT !.content = v] = Window(x.visible, x.pseudo, x.pos, x.size, v, x.drawn, x.bg, x.fg)
  BY DEF IsWindow, Window
<1>6. [x EXCEPT !.drawn = v] = Window(x.visible, x.pseudo, x.pos, x.size, x.content, v, x.bg, x.fg)
  BY DEF IsWindow, Window
<1>7. [x EXCEPT !.bg = v] = Window(x.visible, x.pseudo, x.pos, x.size, x.content, x.drawn, v, x.fg)
  BY DEF IsWindow, Window
<1>8. [x EXCEPT !.fg = v] = Window(x.visible, x.pseudo, x.pos, x.size, x.content, x.drawn, x.bg, v)
  BY DEF IsWindow, Window
<1> QED BY <1>1, <1>2, <1>3, <1>4, <1>5, <1>6, <1>7, <1>8

\* It is a window record again.
LEMMA FieldType ==
    ASSUME NEW x, IsWindow(x), NEW v
    PROVE  /\ v \in BOOLEAN => IsWindow([x EXCEPT !.visible = v])
           /\ v \in BOOLEAN => IsWindow([x EXCEPT !.pseudo = v])
           /\ IsWindow([x EXCEPT !.pos = v])
           /\ IsWindow([x EXCEPT !.size = v])
           /\ IsWindow([x EXCEPT !.content = v])
           /\ IsWindow([x EXCEPT !.drawn = v])
           /\ IsWindow([x EXCEPT !.bg = v])
           /\ IsWindow([x EXCEPT !.fg = v])
<1>1. v \in BOOLEAN => IsWindow([x EXCEPT !.visible = v])
  BY DEF IsWindow, Window
<1>2. v \in BOOLEAN => IsWindow([x EXCEPT !.pseudo = v])
  BY DEF IsWindow, Window
<1>3. IsWindow([x EXCEPT !.pos = v])
  BY DEF IsWindow, Window
<1>4. IsWindow([x EXCEPT !.size = v])
  BY DEF IsWindow, Window
<1>5. IsWindow([x EXCEPT !.content = v])
  BY DEF IsWindow, Window
<1>6. IsWindow([x EXCEPT !.drawn = v])
  BY DEF IsWindow, Window
<1>7. IsWindow([x EXCEPT !.bg = v])
  BY DEF IsWindow, Window
<1>8. IsWindow([x EXCEPT !.fg = v])
  BY DEF IsWindow, Window
<1> QED BY <1>1, <1>2, <1>3, <1>4, <1>5, <1>6, <1>7, <1>8

-----------------------------------------------------------------------------
(* What an operation does to a screen s and the record x of its window.      *)

\* The rectangle of a window as a buffer.
Saved(s, x) == [w |-> x.size.w, px |-> [i \in 0..x.size.h |-> s[x.pos.y + i]]]

\* The screen with a buffer put back on the rectangle of a window.
Restored(s, x, buf) ==
    [r \in Rows |->
       IF r \in x.pos.y..(x.pos.y + x.size.h)
       THEN IF buf.w = x.size.w /\ r - x.pos.y \in DOMAIN buf.px
            THEN buf.px[r - x.pos.y] ELSE Garbage
       ELSE s[r]]

\* A window after show, and after hide.
ShownWindow(s, x) ==
    Window(TRUE, x.pseudo, x.pos, x.size, x.content, x.drawn, Saved(s, x), NoBuf)

HiddenWindow(s, x) ==
    Window(FALSE, x.pseudo, x.pos, x.size, x.content, x.drawn, NoBuf, Saved(s, x))

\* push_bg_buf and push_fg_buf touch their buffer only.
LEMMA PushYields ==
    ASSUME NEW d, IsDisplay(d), NEW w \in Windows
    PROVE  /\ Yields(d, w, PushBg(d, w), d.screen,
                     [d.win[w] EXCEPT !.bg = Saved(d.screen, d.win[w])])
           /\ Yields(d, w, PushFg(d, w), d.screen,
                     [d.win[w] EXCEPT !.fg = Saved(d.screen, d.win[w])])
<1> DEFINE b == SaveRect(d, w)
<1>1. b = Saved(d.screen, d.win[w])
  BY DEF SaveRect, Saved, Top
<1> HIDE DEF b
<1>2. /\ IsWindow([d.win[w] EXCEPT !.bg = b])
      /\ IsWindow([d.win[w] EXCEPT !.fg = b])
  BY FieldType DEF IsDisplay
<1>3. Yields(d, w, [d EXCEPT !.win[w] = [d.win[w] EXCEPT !.bg = b]],
             d.screen, [d.win[w] EXCEPT !.bg = b])
  BY <1>2, WindowYields
<1>4. Yields(d, w, [d EXCEPT !.win[w] = [d.win[w] EXCEPT !.fg = b]],
             d.screen, [d.win[w] EXCEPT !.fg = b])
  BY <1>2, WindowYields
<1>5. /\ PushBg(d, w) = [d EXCEPT !.win[w] = [d.win[w] EXCEPT !.bg = b]]
      /\ PushFg(d, w) = [d EXCEPT !.win[w] = [d.win[w] EXCEPT !.fg = b]]
  BY DEF PushBg, PushFg, b
<1> QED BY <1>1, <1>3, <1>4, <1>5

\* RstrRect touches the rectangle only.
LEMMA RstrRectYields ==
    ASSUME NEW d, IsDisplay(d), NEW w \in Windows, NEW buf
    PROVE  Yields(d, w, RstrRect(d, w, buf), Restored(d.screen, d.win[w], buf), d.win[w])
<1> DEFINE s == Restored(d.screen, d.win[w], buf)
<1>1. RstrRect(d, w, buf) = [d EXCEPT !.screen = s]
  BY DEF RstrRect, Restored, Top, Bottom
<1>2. IsScreen(s)
  BY DEF IsScreen, Restored
<1> HIDE DEF s
<1>3. Yields(d, w, RstrRect(d, w, buf), s, d.win[w])
  BY <1>1, <1>2, ScreenYields
<1> QED BY <1>3 DEF s

\* pop_bg_buf and pop_fg_buf put a buffer back and free it.
LEMMA PopYields ==
    ASSUME NEW d, IsDisplay(d), NEW w \in Windows
    PROVE  /\ d.win[w].bg # NoBuf =>
                Yields(d, w, PopBg(d, w), Restored(d.screen, d.win[w], d.win[w].bg),
                       [d.win[w] EXCEPT !.bg = NoBuf])
           /\ d.win[w].fg # NoBuf =>
                Yields(d, w, PopFg(d, w), Restored(d.screen, d.win[w], d.win[w].fg),
                       [d.win[w] EXCEPT !.fg = NoBuf])
<1> DEFINE e == RstrRect(d, w, d.win[w].bg)
           f == RstrRect(d, w, d.win[w].fg)
<1>1. /\ Yields(d, w, e, Restored(d.screen, d.win[w], d.win[w].bg), d.win[w])
      /\ Yields(d, w, f, Restored(d.screen, d.win[w], d.win[w].fg), d.win[w])
  BY RstrRectYields
<1>2. /\ d.win[w].bg # NoBuf => PopBg(d, w) = [e EXCEPT !.win[w] = [e.win[w] EXCEPT !.bg = NoBuf]]
      /\ d.win[w].fg # NoBuf => PopFg(d, w) = [f EXCEPT !.win[w] = [f.win[w] EXCEPT !.fg = NoBuf]]
  BY DEF PopBg, PopFg
<1> HIDE DEF e, f
<1>3. /\ IsDisplay(e) /\ e.win[w] = d.win[w]
      /\ IsDisplay(f) /\ f.win[w] = d.win[w]
  BY <1>1 DEF Yields
<1>4. /\ IsWindow([e.win[w] EXCEPT !.bg = NoBuf])
      /\ IsWindow([f.win[w] EXCEPT !.fg = NoBuf])
  BY <1>3, FieldType DEF IsDisplay
<1>5. /\ Yields(e, w, [e EXCEPT !.win[w] = [e.win[w] EXCEPT !.bg = NoBuf]],
                e.screen, [e.win[w] EXCEPT !.bg = NoBuf])
      /\ Yields(f, w, [f EXCEPT !.win[w] = [f.win[w] EXCEPT !.fg = NoBuf]],
                f.screen, [f.win[w] EXCEPT !.fg = NoBuf])
  BY <1>3, <1>4, WindowYields
<1>6. /\ e.screen = Restored(d.screen, d.win[w], d.win[w].bg)
      /\ f.screen = Restored(d.screen, d.win[w], d.win[w].fg)
  BY <1>1 DEF Yields
<1> QED BY <1>1, <1>2, <1>3, <1>5, <1>6, YieldsTwice

\* Window::show of a hidden window.
LEMMA ShowYields ==
    ASSUME NEW d, IsDisplay(d), NEW w \in Windows,
           ~d.win[w].visible, d.win[w].fg # NoBuf
    PROVE  Yields(d, w, Show(d, w), Restored(d.screen, d.win[w], d.win[w].fg),
                  ShownWindow(d.screen, d.win[w]))
<1> DEFINE s  == d.screen
           x  == d.win[w]
           x1 == [x EXCEPT !.visible = TRUE]
           d1 == [d EXCEPT !.win[w] = x1]
           x2 == [x1 EXCEPT !.bg = Saved(s, x1)]
           d2 == PushBg(d1, w)
           x3 == [x2 EXCEPT !.fg = NoBuf]
<1>1. Show(d, w) = PopFg(d2, w)
  BY DEF Show
<1>2. IsWindow(x) /\ x.pseudo \in BOOLEAN
  BY DEF IsDisplay, IsWindow
<1>3. IsWindow(x1)
  BY <1>2, FieldType
<1>4. Yields(d, w, d1, s, x1)
  BY <1>3, WindowYields
<1> HIDE DEF d1
<1>5. IsDisplay(d1) /\ d1.screen = s /\ d1.win[w] = x1
  BY <1>4 DEF Yields
<1>6. Yields(d1, w, d2, s, x2)
  BY <1>5, PushYields
<1>7. IsDisplay(d2) /\ d2.screen = s /\ d2.win[w] = x2
  BY <1>6 DEF Yields
<1> HIDE DEF d2, x
<1>8. x1 = Window(TRUE, x.pseudo, x.pos, x.size, x.content, x.drawn, x.bg, x.fg)
  BY <1>2, FieldIs
<1> HIDE DEF x1
<1>9. /\ x1.visible /\ x1.pseudo = x.pseudo /\ x1.pos = x.pos /\ x1.size = x.size
      /\ x1.content = x.content /\ x1.drawn = x.drawn /\ x1.fg = x.fg
  BY <1>8 DEF Window
<1>10. Saved(s, x1) = Saved(s, x)
  BY <1>9 DEF Saved
<1>11. x2 = Window(x1.visible, x1.pseudo, x1.pos, x1.size, x1.content, x1.drawn, Saved(s, x1), x1.fg)
  BY <1>3, FieldIs
<1>12. IsWindow(x2)
  BY <1>3, FieldType
<1> HIDE DEF x2
<1>13. /\ x2.visible /\ x2.pseudo = x.pseudo /\ x2.pos = x.pos /\ x2.size = x.size
      /\ x2.content = x.content /\ x2.drawn = x.drawn /\ x2.bg = Saved(s, x) /\ x2.fg = x.fg
  BY <1>9, <1>10, <1>11 DEF Window
<1>14. x3 = ShownWindow(s, x)
  <2>1. x3 = Window(x2.visible, x2.pseudo, x2.pos, x2.size, x2.content, x2.drawn, x2.bg, NoBuf)
    BY <1>12, FieldIs
  <2>2. x2.visible = TRUE
    BY <1>12, <1>13 DEF IsWindow
  <2> QED BY <1>13, <2>1, <2>2 DEF ShownWindow
<1>15. Restored(s, x2, x.fg) = Restored(s, x, x.fg)
  BY <1>13 DEF Restored
<1>16. Yields(d2, w, PopFg(d2, w), Restored(s, x2, x.fg), x3)
  BY <1>7, <1>13, PopYields DEF x
<1>17. Yields(d, w, PopFg(d2, w), Restored(s, x2, x.fg), x3)
  BY <1>4, <1>6, <1>16, YieldsTwice
<1> QED BY <1>1, <1>14, <1>15, <1>17 DEF x

\* Window::hide of a shown window.
LEMMA HideYields ==
    ASSUME NEW d, IsDisplay(d), NEW w \in Windows,
           d.win[w].visible, d.win[w].bg # NoBuf
    PROVE  Yields(d, w, Hide(d, w), Restored(d.screen, d.win[w], d.win[w].bg),
                  HiddenWindow(d.screen, d.win[w]))
<1> DEFINE s  == d.screen
           x  == d.win[w]
           x1 == [x EXCEPT !.visible = FALSE]
           d1 == [d EXCEPT !.win[w] = x1]
           x2 == [x1 EXCEPT !.fg = Saved(s, x1)]
           d2 == PushFg(d1, w)
           x3 == [x2 EXCEPT !.bg = NoBuf]
<1>1. Hide(d, w) = PopBg(d2, w)
  BY DEF Hide
<1>2. IsWindow(x) /\ x.pseudo \in BOOLEAN
  BY DEF IsDisplay, IsWindow
<1>3. IsWindow(x1)
  BY <1>2, FieldType
<1>4. Yields(d, w, d1, s, x1)
  BY <1>3, WindowYields
<1> HIDE DEF d1
<1>5. IsDisplay(d1) /\ d1.screen = s /\ d1.win[w] = x1
  BY <1>4 DEF Yields
<1>6. Yields(d1, w, d2, s, x2)
  BY <1>5, PushYields
<1>7. IsDisplay(d2) /\ d2.screen = s /\ d2.win[w] = x2
  BY <1>6 DEF Yields
<1> HIDE DEF d2, x
<1>8. x1 = Window(FALSE, x.pseudo, x.pos, x.size, x.content, x.drawn, x.bg, x.fg)
  BY <1>2, FieldIs
<1> HIDE DEF x1
<1>9. /\ ~x1.visible /\ x1.pseudo = x.pseudo /\ x1.pos = x.pos /\ x1.size = x.size
      /\ x1.content = x.content /\ x1.drawn = x.drawn /\ x1.bg = x.bg
  BY <1>8 DEF Window
<1>10. Saved(s, x1) = Saved(s, x)
  BY <1>9 DEF Saved
<1>11. x2 = Window(x1.visible, x1.pseudo, x1.pos, x1.size, x1.content, x1.drawn, x1.bg, Saved(s, x1))
  BY <1>3, FieldIs
<1>12. IsWindow(x2)
  BY <1>3, FieldType
<1> HIDE DEF x2
<1>13. /\ ~x2.visible /\ x2.pseudo = x.pseudo /\ x2.pos = x.pos /\ x2.size = x.size
      /\ x2.content = x.content /\ x2.drawn = x.drawn /\ x2.bg = x.bg /\ x2.fg = Saved(s, x)
  BY <1>9, <1>10, <1>11 DEF Window
<1>14. x3 = HiddenWindow(s, x)
  <2>1. x3 = Window(x2.visible, x2.pseudo, x2.pos, x2.size, x2.content, x2.drawn, NoBuf, x2.fg)
    BY <1>12, FieldIs
  <2>2. x2.visible = FALSE
    BY <1>12, <1>13 DEF IsWindow
  <2> QED BY <1>13, <2>1, <2>2 DEF HiddenWindow
<1>15. Restored(s, x2, x.bg) = Restored(s, x, x.bg)
  BY <1>13 DEF Restored
<1>16. Yields(d2, w, PopBg(d2, w), Restored(s, x2, x.bg), x3)
  BY <1>7, <1>13, PopYields DEF x
<1>17. Yields(d, w, PopBg(d2, w), Restored(s, x2, x.bg), x3)
  BY <1>4, <1>6, <1>16, YieldsTwice
<1> QED BY <1>1, <1>14, <1>15, <1>17 DEF x

-----------------------------------------------------------------------------
(* A hidden window is moved, resized and drawn without being shown.          *)

\* A hidden window, of this size and place, drawn or about to be.
Resized(x, new, place) ==
    Window(x.visible, x.pseudo, place, new, x.content, x.drawn, x.bg, x.fg)

\* Cwm::update of a hidden window places it.
LEMMA UpdateYields ==
    ASSUME NEW d, IsDisplay(d), NEW w \in Windows, ~d.win[w].visible
    PROVE  Yields(d, w, Update(d, w), d.screen,
                  Resized(d.win[w], d.win[w].size, Place(w, d.cursor, d.win[w].size)))
<1> DEFINE x  == d.win[w]
           at == Place(w, d.cursor, x.size)
           y  == [x EXCEPT !.pos = at]
<1>1. Hide(d, w) = d
  BY DEF Hide
<1>2. Update(d, w) = [d EXCEPT !.win[w] = y]
  BY <1>1 DEF Update, XY, WhileHidden
<1>3. IsWindow(x)
  BY DEF IsDisplay
<1>4. IsWindow(y)
  BY <1>3, FieldType
<1>5. Yields(d, w, [d EXCEPT !.win[w] = y], d.screen, y)
  BY <1>4, WindowYields
<1> HIDE DEF x, at
<1>6. y = Resized(x, x.size, at)
  BY <1>3, FieldIs DEF Resized
<1> QED BY <1>2, <1>5, <1>6 DEF x, at

\* Window::wh of a hidden window resizes and places it.
LEMMA WHYields ==
    ASSUME NEW d, IsDisplay(d), NEW w \in Windows, ~d.win[w].visible, NEW new
    PROVE  Yields(d, w, WH(d, w, new), d.screen,
                  Resized(d.win[w], new, Place(w, d.cursor, new)))
<1> DEFINE x  == d.win[w]
           at == Place(w, d.cursor, new)
           y  == [x EXCEPT !.size = new]
           e  == [d EXCEPT !.win[w] = y]
<1>1. Hide(d, w) = d
  BY DEF Hide
<1>2. WH(d, w, new) = Update(e, w)
  BY <1>1 DEF WH, WhileHidden
<1>3. IsWindow(x)
  BY DEF IsDisplay
<1>4. IsWindow(y)
  BY <1>3, FieldType
<1>5. Yields(d, w, e, d.screen, y)
  BY <1>4, WindowYields
<1> HIDE DEF e
<1>6. IsDisplay(e) /\ e.screen = d.screen /\ e.win[w] = y /\ e.cursor = d.cursor
  BY <1>5 DEF Yields
<1> HIDE DEF x
<1>7. y = Window(x.visible, x.pseudo, x.pos, new, x.content, x.drawn, x.bg, x.fg)
  BY <1>3, FieldIs
<1> HIDE DEF y
<1>8. /\ y.visible = x.visible /\ y.pseudo = x.pseudo /\ y.size = new
      /\ y.content = x.content /\ y.drawn = x.drawn /\ y.bg = x.bg /\ y.fg = x.fg
  BY <1>7 DEF Window
<1>9. ~e.win[w].visible
  BY <1>6, <1>8 DEF x
<1>10. Yields(e, w, Update(e, w), d.screen, Resized(y, new, at))
  BY <1>6, <1>8, <1>9, UpdateYields
<1>11. Resized(y, new, at) = Resized(x, new, at)
  BY <1>8 DEF Resized
<1> QED BY <1>2, <1>5, <1>10, <1>11, YieldsTwice DEF x

\* The size a content needs is one of the sizes of its window.
LEMMA SizeOfType ==
    ASSUME NEW w \in Windows, NEW c \in ContentsOf(w)
    PROVE  SizeOf(c) \in Sizes(w) /\ SizeOf(c).w \in Nat /\ SizeOf(c).h \in Nat
<1>1. c.lines \in 0..MaxLinesOf(w) /\ c.w \in Widths
  <2>1. CASE c \in Contents[w]
    BY <2>1, ContentsAssumption, MetricsAssumption DEF MaxLinesOf
  <2>2. CASE c = Empty(w)
    BY <2>2, MetricsAssumption DEF Empty, MaxLinesOf
  <2> QED BY <2>1, <2>2 DEF ContentsOf
<1>2. SizeOf(c) \in Sizes(w)
  BY <1>1 DEF SizeOf, Sizes, Heights
<1> QED BY <1>2, SizesType

\* Widget::render up to its save: the measuring pass leaves the window with the
\* size of its content, in its place.
LEMMA MeasureYields ==
    ASSUME NEW d, IsDisplay(d), NEW w \in Windows, ~d.win[w].visible, ~d.win[w].pseudo,
           d.win[w].content \in ContentsOf(w)
    PROVE  LET x   == d.win[w]
               new == SizeOf(x.content)
           IN  Yields(d, w, Draw(SetPseudo(d, w, TRUE), w), d.screen,
                      Window(FALSE, TRUE, Place(w, d.cursor, new), new,
                             x.content, x.drawn, x.bg, x.fg))
<1> DEFINE s    == d.screen
           x    == d.win[w]
           new  == SizeOf(x.content)
           zero == [w |-> 0, h |-> 0]
           d1   == WH(d, w, zero)
           x1   == Resized(x, zero, Place(w, d.cursor, zero))
           x2   == [x1 EXCEPT !.pseudo = TRUE]
           d2   == [d1 EXCEPT !.win[w] = x2]
           y    == Window(FALSE, TRUE, Place(w, d.cursor, new), new, x.content, x.drawn, x.bg, x.fg)
<1>1. Yields(d, w, d1, s, x1)
  BY WHYields
<1>2. IsDisplay(d1) /\ d1.screen = s /\ d1.win[w] = x1 /\ d1.cursor = d.cursor
  BY <1>1 DEF Yields
<1>3. SetPseudo(d, w, TRUE) = [d1 EXCEPT !.win[w] = [d1.win[w] EXCEPT !.pseudo = TRUE]]
  BY DEF SetPseudo
<1> HIDE DEF d1
<1>4. SetPseudo(d, w, TRUE) = d2
  BY <1>2, <1>3
<1>5. IsWindow(x) /\ IsWindow(x1)
  BY <1>2 DEF IsDisplay
<1>6. IsWindow(x2)
  BY <1>5, FieldType
<1>7. Yields(d1, w, d2, s, x2)
  BY <1>2, <1>6, WindowYields
<1> HIDE DEF d2
<1>8. Yields(d, w, d2, s, x2)
  BY <1>1, <1>7, YieldsTwice
<1>9. IsDisplay(d2) /\ d2.screen = s /\ d2.win[w] = x2 /\ d2.cursor = d.cursor
  BY <1>8 DEF Yields
<1>10. ~x.visible /\ x.content \in ContentsOf(w)
  OBVIOUS
<1>11. new.w \in Nat /\ new.h \in Nat /\ new = [w |-> new.w, h |-> new.h]
  BY <1>10, SizeOfType DEF SizeOf
<1> HIDE DEF x
<1>12. /\ ~x1.visible /\ x1.size = zero /\ x1.pos = Place(w, d.cursor, zero)
       /\ x1.content = x.content /\ x1.drawn = x.drawn /\ x1.bg = x.bg /\ x1.fg = x.fg
  BY <1>10 DEF Resized, Window
<1> HIDE DEF x1
<1>13. x2 = Window(x1.visible, TRUE, x1.pos, x1.size, x1.content, x1.drawn, x1.bg, x1.fg)
  BY <1>5, FieldIs
<1> HIDE DEF x2
<1>14. /\ ~x2.visible /\ x2.pseudo /\ x2.size = zero /\ x2.pos = Place(w, d.cursor, zero)
       /\ x2.content = x.content /\ x2.drawn = x.drawn /\ x2.bg = x.bg /\ x2.fg = x.fg
  BY <1>12, <1>13 DEF Window
<1>15. Draw(d2, w) = Measure(d2, w, new)
  BY <1>9, <1>14 DEF Draw
<1> HIDE DEF new
<1>16. CASE new = zero
  <2>1. Measure(d2, w, new) = d2
    BY <1>9, <1>14, <1>16 DEF Measure
  <2>2. x2 = y
    BY <1>6, <1>14, <1>16 DEF IsWindow
  <2> QED BY <1>4, <1>8, <1>15, <2>1, <2>2 DEF x, new
<1>17. CASE new # zero
  <2>1. Measure(d2, w, new) = WH(d2, w, new)
    BY <1>9, <1>11, <1>14, <1>17 DEF Measure
  <2>2. Yields(d2, w, WH(d2, w, new), s, Resized(x2, new, Place(w, d.cursor, new)))
    BY <1>9, <1>14, WHYields
  <2>3. Resized(x2, new, Place(w, d.cursor, new)) = y
    BY <1>6, <1>14 DEF Resized, IsWindow
  <2> HIDE DEF y
  <2>4. Yields(d, w, WH(d2, w, new), s, y)
    BY <1>8, <2>2, <2>3, YieldsTwice
  <2> QED BY <1>4, <1>15, <2>1, <2>4 DEF x, new, y
<1> QED BY <1>16, <1>17

\* The screen with the picture of a content at some row, over what was there.
Painted(s, w, content, top) ==
    [r \in Rows |-> IF r \in top..(top + SizeOf(content).h)
                    THEN Image(w, content, r - top) ELSE s[r]]

\* The second pass: save what is under the window, leave the measuring, draw.
LEMMA PaintYields ==
    ASSUME NEW d, IsDisplay(d), NEW w \in Windows, ~d.win[w].visible,
           d.win[w].size = SizeOf(d.win[w].content)
    PROVE  LET x == d.win[w]
           IN  Yields(d, w, Draw(SetPseudo(PushBg(d, w), w, FALSE), w),
                      Painted(d.screen, w, x.content, x.pos.y),
                      Window(FALSE, FALSE, x.pos, x.size, x.content, x.drawn,
                             Saved(d.screen, x), x.fg))
<1> DEFINE s  == d.screen
           x  == d.win[w]
           d1 == PushBg(d, w)
           x1 == [x EXCEPT !.bg = Saved(s, x)]
           x2 == [x1 EXCEPT !.pseudo = FALSE]
           d2 == [d1 EXCEPT !.win[w] = x2]
           t  == Painted(s, w, x.content, x.pos.y)
           d3 == [d2 EXCEPT !.screen = t]
<1>1. Yields(d, w, d1, s, x1)
  BY PushYields
<1>2. IsDisplay(d1) /\ d1.screen = s /\ d1.win[w] = x1
  BY <1>1 DEF Yields
<1>3. SetPseudo(d1, w, FALSE) = [d1 EXCEPT !.win[w] = [d1.win[w] EXCEPT !.pseudo = FALSE]]
  BY DEF SetPseudo
<1> HIDE DEF d1
<1>4. SetPseudo(d1, w, FALSE) = d2
  BY <1>2, <1>3
<1>5. IsWindow(x) /\ IsWindow(x1)
  BY <1>2 DEF IsDisplay
<1>6. IsWindow(x2)
  BY <1>5, FieldType
<1>7. Yields(d1, w, d2, s, x2)
  BY <1>2, <1>6, WindowYields
<1> HIDE DEF d2
<1>8. IsDisplay(d2) /\ d2.screen = s /\ d2.win[w] = x2
  BY <1>7 DEF Yields
<1>9. ~x.visible /\ x.size = SizeOf(x.content)
  OBVIOUS
<1> HIDE DEF x
<1>10. x1 = Window(x.visible, x.pseudo, x.pos, x.size, x.content, x.drawn, Saved(s, x), x.fg)
  BY <1>5, FieldIs
<1> HIDE DEF x1
<1>11. /\ ~x1.visible /\ x1.pos = x.pos /\ x1.size = x.size /\ x1.content = x.content
       /\ x1.drawn = x.drawn /\ x1.bg = Saved(s, x) /\ x1.fg = x.fg
  BY <1>9, <1>10 DEF Window
<1>12. x2 = Window(x1.visible, FALSE, x1.pos, x1.size, x1.content, x1.drawn, x1.bg, x1.fg)
  BY <1>5, FieldIs
<1> HIDE DEF x2
<1>13. /\ ~x2.visible /\ ~x2.pseudo /\ x2.pos = x.pos /\ x2.size = x.size
       /\ x2.content = x.content /\ x2.drawn = x.drawn /\ x2.bg = Saved(s, x) /\ x2.fg = x.fg
  BY <1>11, <1>12 DEF Window
<1>14. Draw(d2, w) = d3
  BY <1>8, <1>13 DEF Draw, Painted, Top
<1>15. IsScreen(t)
  BY DEF IsScreen, Painted
<1>16. Yields(d2, w, d3, t, x2)
  BY <1>8, <1>15, ScreenYields
<1> HIDE DEF d3, t
<1>17. Yields(d, w, d3, t, x2)
  BY <1>1, <1>7, <1>16, YieldsTwice
<1>18. x2 = Window(FALSE, FALSE, x.pos, x.size, x.content, x.drawn, Saved(s, x), x.fg)
  BY <1>6, <1>13 DEF IsWindow
<1> QED BY <1>4, <1>14, <1>17, <1>18 DEF x, t, d1

\* The picture is kept and what was under it put back.
LEMMA KeepYields ==
    ASSUME NEW d, IsDisplay(d), NEW w \in Windows, d.win[w].bg # NoBuf
    PROVE  LET x == d.win[w]
           IN  Yields(d, w, PopBg(PushFg(d, w), w), Restored(d.screen, x, x.bg),
                      Window(x.visible, x.pseudo, x.pos, x.size, x.content, x.drawn,
                             NoBuf, Saved(d.screen, x)))
<1> DEFINE s  == d.screen
           x  == d.win[w]
           x1 == [x EXCEPT !.fg = Saved(s, x)]
           d1 == PushFg(d, w)
           x2 == [x1 EXCEPT !.bg = NoBuf]
<1>1. Yields(d, w, d1, s, x1)
  BY PushYields
<1> HIDE DEF d1
<1>2. IsDisplay(d1) /\ d1.screen = s /\ d1.win[w] = x1
  BY <1>1 DEF Yields
<1>3. IsWindow(x)
  BY DEF IsDisplay
<1>10. IsWindow(x1)
  BY <1>2 DEF IsDisplay
<1>11. x.bg # NoBuf
  OBVIOUS
<1> HIDE DEF x
<1> DEFINE b == Saved(s, x)
<1> HIDE DEF b
<1>4. x1 = Window(x.visible, x.pseudo, x.pos, x.size, x.content, x.drawn, x.bg, b)
  BY <1>3 DEF b, IsWindow, Window
<1> HIDE DEF x1
<1>5. /\ x1.visible = x.visible /\ x1.pseudo = x.pseudo /\ x1.pos = x.pos /\ x1.size = x.size
      /\ x1.content = x.content /\ x1.drawn = x.drawn /\ x1.bg = x.bg /\ x1.fg = b
  BY <1>4 DEF Window
<1>6. x2 = Window(x1.visible, x1.pseudo, x1.pos, x1.size, x1.content, x1.drawn, NoBuf, x1.fg)
  BY <1>10, FieldIs
<1>7. Yields(d1, w, PopBg(d1, w), Restored(s, x1, x.bg), x2)
  BY <1>2, <1>11, <1>5, PopYields
<1>8. Restored(s, x1, x.bg) = Restored(s, x, x.bg)
  BY <1>5 DEF Restored
<1> HIDE DEF x2
<1>9. Yields(d, w, PopBg(d1, w), Restored(s, x1, x.bg), x2)
  BY <1>1, <1>7, YieldsTwice
<1> QED BY <1>5, <1>6, <1>8, <1>9 DEF x, d1, b

\* A rectangle on the screen that has been painted gives the picture when it is
\* saved, and the old screen when what was under it is put back.
LEMMA PaintedIs ==
    ASSUME NEW s, IsScreen(s), NEW w \in Windows, NEW c \in ContentsOf(w), NEW x, NEW y,
           x.size = SizeOf(c), x.pos.y \in Int, x.pos.y >= 0, x.pos.y + x.size.h < Yres,
           y.size = x.size, y.pos = x.pos
    PROVE  /\ Saved(Painted(s, w, c, x.pos.y), y) = PictureOf(w, c)
           /\ Restored(Painted(s, w, c, x.pos.y), y, Saved(s, x)) = s
<1> DEFINE t   == Painted(s, w, c, x.pos.y)
           top == x.pos.y
           h   == SizeOf(c).h
<1>1. h \in Nat /\ top \in Nat /\ Yres \in Nat /\ top + h < Yres
  BY SizeOfType, MetricsAssumption
<1>2. \A i \in 0..h : top + i \in Rows /\ (top + i) - top = i /\ top + i \in top..(top + h)
  BY <1>1 DEF Rows
<1> HIDE DEF top, h
<1>3. \A i \in 0..h : t[top + i] = Image(w, c, i)
  BY <1>2 DEF Painted, top, h
<1>4. Saved(t, y) = PictureOf(w, c)
  BY <1>3 DEF Saved, PictureOf, top, h
<1>5. \A r \in Rows : r \in top..(top + h) => r - top \in 0..h /\ top + (r - top) = r
  BY <1>1 DEF Rows
<1>6. /\ Saved(s, x).w = y.size.w
      /\ DOMAIN Saved(s, x).px = 0..h
      /\ \A i \in 0..h : Saved(s, x).px[i] = s[top + i]
  BY DEF Saved, top, h
<1>7. Restored(t, y, Saved(s, x)) = [r \in Rows |-> s[r]]
  <2> DEFINE b == Saved(s, x)
  <2> HIDE DEF b
  <2>1. ASSUME NEW r \in Rows
        PROVE  (IF r \in top..(top + h)
                THEN IF b.w = y.size.w /\ r - top \in DOMAIN b.px THEN b.px[r - top] ELSE Garbage
                ELSE t[r]) = s[r]
    <3>1. CASE r \in top..(top + h)
      BY <1>5, <1>6, <3>1 DEF b
    <3>2. CASE ~(r \in top..(top + h))
      BY <3>2 DEF Painted, top, h
    <3> QED BY <3>1, <3>2
  <2>2. y.pos.y = top /\ y.size.h = h
    BY DEF top, h
  <2> HIDE DEF t
  <2>3. Restored(t, y, b)
          = [r \in Rows |->
               IF r \in top..(top + h)
               THEN IF b.w = y.size.w /\ r - top \in DOMAIN b.px THEN b.px[r - top] ELSE Garbage
               ELSE t[r]]
    BY <2>2 DEF Restored
  <2> QED BY <2>1, <2>3 DEF b
<1> QED BY <1>4, <1>7 DEF IsScreen, top

\* Widget::render of a hidden window: the screen is what it was, the window has
\* the size, the place and the picture of its content.
LEMMA RedrawYields ==
    ASSUME NEW d, IsDisplay(d), NEW w \in Windows, ~d.win[w].visible, ~d.win[w].pseudo,
           d.win[w].content \in ContentsOf(w), d.cursor \in Cursors
    PROVE  LET c   == d.win[w].content
               new == SizeOf(c)
           IN  Yields(d, w, Redraw(d, w), d.screen,
                      Window(FALSE, FALSE, Place(w, d.cursor, new), new, c, c,
                             NoBuf, PictureOf(w, c)))
<1> DEFINE s   == d.screen
           x   == d.win[w]
           c   == x.content
           new == SizeOf(c)
           at  == Place(w, d.cursor, new)
           m   == Draw(SetPseudo(d, w, TRUE), w)
           xm  == Window(FALSE, TRUE, at, new, c, x.drawn, x.bg, x.fg)
           p   == Draw(SetPseudo(PushBg(m, w), w, FALSE), w)
           t   == Painted(s, w, c, at.y)
           xp  == Window(FALSE, FALSE, at, new, c, x.drawn, Saved(s, xm), x.fg)
           k   == PopBg(PushFg(p, w), w)
           xk  == Window(FALSE, FALSE, at, new, c, x.drawn, NoBuf, PictureOf(w, c))
           xd  == [xk EXCEPT !.drawn = c]
<1>1. /\ at.y \in Int /\ at.y >= 0 /\ at.y + new.h < Yres
      /\ new \in Sizes(w)
  BY SizeOfType, PlaceType, ScreenAssumption
<1>2. Yields(d, w, m, s, xm)
  BY MeasureYields
<1>3. IsDisplay(m) /\ m.screen = s /\ m.win[w] = xm
  BY <1>2 DEF Yields
<1> HIDE DEF m
<1>4. /\ ~xm.visible /\ xm.size = new /\ xm.pos = at /\ xm.content = c
      /\ xm.drawn = x.drawn /\ xm.fg = x.fg
  BY DEF Window
<1>5. IsScreen(s) /\ c \in ContentsOf(w)
  BY DEF IsDisplay
<1> HIDE DEF xm, x, at, new, c, s
<1>6. Yields(m, w, p, t, xp)
  BY <1>3, <1>4, PaintYields DEF new
<1>7. IsDisplay(p) /\ p.screen = t /\ p.win[w] = xp
  BY <1>6 DEF Yields
<1> HIDE DEF p
<1>8. /\ ~xp.visible /\ ~xp.pseudo /\ xp.size = new /\ xp.pos = at /\ xp.content = c
      /\ xp.drawn = x.drawn /\ xp.bg = Saved(s, xm)
  BY DEF Window
<1> HIDE DEF xp
<1>9. Saved(t, xp) = PictureOf(w, c) /\ Restored(t, xp, Saved(s, xm)) = s
  BY <1>1, <1>4, <1>5, <1>8, PaintedIs DEF new
<1>10. xp.bg # NoBuf
  <2>1. Saved(s, xm).w \in Nat /\ NoBuf.w = -1
    BY <1>4, <1>5, SizeOfType DEF Saved, NoBuf, new
  <2> QED BY <1>8, <2>1
<1>11. Yields(p, w, k, s, xk)
  <2>1. xp.visible = FALSE /\ xp.pseudo = FALSE
    BY <1>7, <1>8 DEF IsDisplay, IsWindow
  <2> QED BY <1>7, <1>8, <1>9, <1>10, <2>1, KeepYields
<1>12. /\ xk.visible = FALSE /\ xk.pseudo = FALSE /\ xk.pos = at /\ xk.size = new
       /\ xk.content = c /\ xk.bg = NoBuf /\ xk.fg = PictureOf(w, c)
  BY DEF Window
<1> HIDE DEF xk
<1>13. Yields(d, w, k, s, xk)
  BY <1>2, <1>6, <1>11, YieldsTwice
<1>14. IsDisplay(k) /\ k.screen = s /\ k.win[w] = xk
  BY <1>13 DEF Yields
<1>15. IsWindow(xk)
  BY <1>14 DEF IsDisplay
<1>16. Redraw(d, w) = [k EXCEPT !.win[w] = [k.win[w] EXCEPT !.drawn = k.win[w].content]]
  BY DEF Redraw, k, p, m
<1> HIDE DEF k
<1>17. Redraw(d, w) = [k EXCEPT !.win[w] = xd]
  BY <1>12, <1>14, <1>16
<1>18. IsWindow(xd)
  BY <1>15, FieldType
<1>19. xd = Window(xk.visible, xk.pseudo, xk.pos, xk.size, xk.content, c, xk.bg, xk.fg)
  BY <1>15, FieldIs
<1> HIDE DEF xd
<1>20. Yields(k, w, [k EXCEPT !.win[w] = xd], s, xd)
  BY <1>14, <1>18, WindowYields
<1>21. Yields(d, w, Redraw(d, w), s, xd)
  BY <1>13, <1>17, <1>20, YieldsTwice
<1>22. xd = Window(FALSE, FALSE, at, new, c, c, NoBuf, PictureOf(w, c))
  BY <1>12, <1>19
<1> QED BY <1>21, <1>22 DEF x, at, new, c, s

-----------------------------------------------------------------------------
(* What every operation keeps, of a display and the screen T the terminal    *)
(* would have without the input method.                                      *)

RowsIn(x) == x.pos.y..(x.pos.y + x.size.h)

\* The window w with the record x has been drawn, where its Shift puts it.
Standing(x, w, cur) ==
    /\ ~x.pseudo
    /\ x.content \in ContentsOf(w) /\ x.drawn \in ContentsOf(w)
    /\ x.size = SizeOf(x.drawn)
    /\ x.pos = Place(w, cur, x.size)

\* A shown window shows its picture and keeps what the terminal has under it, a
\* hidden one keeps its picture.
Intact(s, x, w, T) ==
    /\ x.visible => /\ x.bg = Saved(T, x)
                    /\ \A r \in RowsIn(x) : s[r] = Image(w, x.drawn, r - x.pos.y)
    /\ ~x.visible => x.fg = PictureOf(w, x.drawn)

Covered(d, r) == \E w \in Windows : d.win[w].visible /\ r \in RowsIn(d.win[w])

Sound(d, T) ==
    /\ IsDisplay(d)
    /\ d.cursor \in Cursors
    /\ \A w \in Windows : Standing(d.win[w], w, d.cursor)
    /\ \A w \in Windows : Intact(d.screen, d.win[w], w, T)
    /\ \A r \in Rows : ~Covered(d, r) => d.screen[r] = T[r]

\* What showing and hiding a window leave as it was.
SamePlaces(d, e) ==
    /\ e.cursor = d.cursor
    /\ e.focus = d.focus
    /\ \A w \in Windows : /\ e.win[w].pos = d.win[w].pos
                          /\ e.win[w].size = d.win[w].size
                          /\ e.win[w].content = d.win[w].content
                          /\ e.win[w].drawn = d.win[w].drawn

\* The rectangle of a standing window lies on the screen.
LEMMA StandingRows ==
    ASSUME NEW w \in Windows, NEW cur \in Cursors, NEW x, Standing(x, w, cur)
    PROVE  /\ x.pos.y \in Nat /\ x.size.w \in Nat /\ x.size.h \in Nat
           /\ x.size \in Sizes(w)
           /\ x.pos.y + x.size.h < Yres
           /\ RowsIn(x) \subseteq Rows
<1>1. /\ x.size.h \in Nat /\ x.size.w \in Nat /\ x.size \in Sizes(w)
      /\ x.pos.y \in Int /\ x.pos.y >= 0 /\ x.pos.y + x.size.h < Yres
  BY SizeOfType, PlaceType, ScreenAssumption DEF Standing
<1> QED BY <1>1, MetricsAssumption DEF RowsIn, Rows

\* Two standing windows share no row.
LEMMA StandingApart ==
    ASSUME NEW v \in Windows, NEW w \in Windows, v # w, NEW cur \in Cursors,
           NEW x, Standing(x, v, cur), NEW y, Standing(y, w, cur)
    PROVE  \A r \in RowsIn(x) : r \notin RowsIn(y)
<1>1. /\ x.size \in Sizes(v) /\ x.pos.y \in Int /\ x.size.h \in Int /\ x.pos = Place(v, cur, x.size)
      /\ y.size \in Sizes(w) /\ y.pos.y \in Int /\ y.size.h \in Int /\ y.pos = Place(w, cur, y.size)
  BY StandingRows DEF Standing
<1>2. x.pos.y + x.size.h < y.pos.y \/ y.pos.y + y.size.h < x.pos.y
  BY <1>1, PlacedApart
<1> QED BY <1>1, <1>2 DEF RowsIn

\* A buffer of the right shape replaces the pixels of its rectangle.
LEMMA RestoredIs ==
    ASSUME NEW w \in Windows, NEW cur \in Cursors, NEW x, Standing(x, w, cur),
           NEW s, NEW buf, buf.w = x.size.w, DOMAIN buf.px = 0..x.size.h
    PROVE  /\ \A r \in RowsIn(x) : Restored(s, x, buf)[r] = buf.px[r - x.pos.y]
           /\ \A r \in Rows : r \notin RowsIn(x) => Restored(s, x, buf)[r] = s[r]
<1> DEFINE top == x.pos.y
           h == x.size.h
<1>1. top \in Nat /\ h \in Nat /\ RowsIn(x) \subseteq Rows /\ RowsIn(x) = top..(top + h)
  BY StandingRows DEF RowsIn
<1>2. Restored(s, x, buf)
        = [r \in Rows |->
             IF r \in RowsIn(x)
             THEN IF buf.w = x.size.w /\ r - top \in DOMAIN buf.px THEN buf.px[r - top] ELSE Garbage
             ELSE s[r]]
  BY DEF Restored, RowsIn
<1> HIDE DEF top, h
<1>3. \A r \in RowsIn(x) : r - top \in 0..h
  BY <1>1
<1>4. DOMAIN buf.px = 0..h
  BY DEF h
<1>5. \A r \in RowsIn(x) : Restored(s, x, buf)[r] = buf.px[r - top]
  BY <1>1, <1>2, <1>3, <1>4
<1>6. \A r \in Rows : r \notin RowsIn(x) => Restored(s, x, buf)[r] = s[r]
  BY <1>2
<1> QED BY <1>5, <1>6 DEF top

\* The pixels of a standing window that shows or saves are those of its rows.
LEMMA SavedIs ==
    ASSUME NEW x, NEW s, NEW T, x.pos.y \in Nat, x.size.h \in Nat,
           \A r \in RowsIn(x) : s[r] = T[r]
    PROVE  Saved(s, x) = Saved(T, x)
<1> DEFINE top == x.pos.y
           h == x.size.h
<1>1. \A i \in 0..h : top + i \in RowsIn(x)
  BY DEF RowsIn
<1>2. \A i \in 0..h : s[top + i] = T[top + i]
  BY <1>1
<1> QED BY <1>2 DEF Saved

\* Showing a window.
LEMMA ShowSound ==
    ASSUME NEW d, NEW T, Sound(d, T), NEW w \in Windows
    PROVE  /\ Sound(Show(d, w), T)
           /\ SamePlaces(d, Show(d, w))
           /\ Show(d, w).win[w].visible
           /\ \A v \in Windows : v # w => Show(d, w).win[v] = d.win[v]
<1>1. CASE d.win[w].visible
  BY <1>1 DEF Show, SamePlaces
<1>2. CASE ~d.win[w].visible
  <2> DEFINE s == d.screen
             x == d.win[w]
             e == Show(d, w)
             y == ShownWindow(s, x)
  <2>1. /\ IsDisplay(d) /\ d.cursor \in Cursors
        /\ Standing(x, w, d.cursor)
        /\ x.fg = PictureOf(w, x.drawn)
    BY <1>2 DEF Sound, Intact
  <2>2. /\ x.pos.y \in Nat /\ x.size.h \in Nat /\ x.size.w \in Nat /\ RowsIn(x) \subseteq Rows
        /\ x.size = SizeOf(x.drawn)
    BY <2>1, StandingRows DEF Standing
  <2>3. /\ x.fg.w = x.size.w /\ DOMAIN x.fg.px = 0..x.size.h
        /\ \A i \in 0..x.size.h : x.fg.px[i] = Image(w, x.drawn, i)
    BY <2>1, <2>2 DEF PictureOf
  <2>4. x.fg # NoBuf
    BY <2>2, <2>3 DEF NoBuf
  <2>5. Yields(d, w, e, Restored(s, x, x.fg), y)
    BY <1>2, <2>1, <2>4, ShowYields
  <2>6. /\ IsDisplay(e) /\ e.win[w] = y /\ e.cursor = d.cursor /\ e.focus = d.focus
        /\ e.screen = Restored(s, x, x.fg)
        /\ \A v \in Windows : v # w => e.win[v] = d.win[v]
    BY <2>5 DEF Yields
  <2>7. /\ y.visible /\ y.pseudo = x.pseudo /\ y.pos = x.pos /\ y.size = x.size
        /\ y.content = x.content /\ y.drawn = x.drawn /\ y.bg = Saved(s, x)
    BY DEF ShownWindow, Window
  <2> HIDE DEF e, y
  <2>8. SamePlaces(d, e)
    BY <2>6, <2>7 DEF SamePlaces
  <2>9. /\ \A r \in RowsIn(x) : e.screen[r] = Image(w, x.drawn, r - x.pos.y)
        /\ \A r \in Rows : r \notin RowsIn(x) => e.screen[r] = s[r]
    <3>1. /\ \A r \in RowsIn(x) : e.screen[r] = x.fg.px[r - x.pos.y]
          /\ \A r \in Rows : r \notin RowsIn(x) => e.screen[r] = s[r]
      BY <2>1, <2>3, <2>6, RestoredIs
    <3>2. \A r \in RowsIn(x) : r - x.pos.y \in 0..x.size.h
      BY <2>2 DEF RowsIn
    <3> QED BY <2>3, <3>1, <3>2
  <2>10. \A v \in Windows : v # w => \A r \in RowsIn(d.win[v]) : r \in Rows /\ r \notin RowsIn(x)
    BY <2>1, StandingApart, StandingRows DEF Sound
  <2>11. RowsIn(y) = RowsIn(x)
    BY <2>7 DEF RowsIn
  <2>12. \A r \in RowsIn(x) : r \in Rows /\ ~Covered(d, r)
    BY <1>2, <2>2, <2>10 DEF Covered
  <2>13. y.bg = Saved(T, y)
    <3>1. \A r \in RowsIn(x) : s[r] = T[r]
      BY <2>12 DEF Sound
    <3>2. Saved(s, x) = Saved(T, x)
      BY <2>2, <3>1, SavedIs
    <3> QED BY <2>7, <3>2 DEF Saved
  <2>14. Standing(y, w, e.cursor)
    BY <2>1, <2>6, <2>7 DEF Standing
  <2>15. Intact(e.screen, y, w, T)
    BY <2>7, <2>9, <2>11, <2>13 DEF Intact
  <2>16. ASSUME NEW v \in Windows, v # w
         PROVE  Standing(e.win[v], v, e.cursor) /\ Intact(e.screen, e.win[v], v, T)
    <3>1. Standing(d.win[v], v, d.cursor) /\ Intact(s, d.win[v], v, T)
      BY DEF Sound
    <3>2. \A r \in RowsIn(d.win[v]) : e.screen[r] = s[r]
      BY <2>9, <2>10, <2>16
    <3> QED BY <2>6, <2>16, <3>1, <3>2 DEF Intact
  <2>17. \A r \in Rows : ~Covered(e, r) => e.screen[r] = T[r]
    <3> SUFFICES ASSUME NEW r \in Rows, ~Covered(e, r) PROVE e.screen[r] = T[r]
      OBVIOUS
    <3>1. r \notin RowsIn(x)
      BY <2>6, <2>7, <2>11 DEF Covered
    <3>2. ~Covered(d, r)
      BY <1>2, <2>6 DEF Covered
    <3> QED BY <2>9, <3>1, <3>2 DEF Sound
  <2>18. Sound(e, T)
    <3>1. \A v \in Windows : Standing(e.win[v], v, e.cursor) /\ Intact(e.screen, e.win[v], v, T)
      BY <2>6, <2>14, <2>15, <2>16
    <3> QED BY <2>1, <2>6, <2>17, <3>1 DEF Sound
  <2> QED BY <2>6, <2>7, <2>8, <2>18 DEF e
<1> QED BY <1>1, <1>2

\* Hiding a window.
LEMMA HideSound ==
    ASSUME NEW d, NEW T, Sound(d, T), NEW w \in Windows
    PROVE  /\ Sound(Hide(d, w), T)
           /\ SamePlaces(d, Hide(d, w))
           /\ ~Hide(d, w).win[w].visible
           /\ \A v \in Windows : v # w => Hide(d, w).win[v] = d.win[v]
<1>1. CASE ~d.win[w].visible
  BY <1>1 DEF Hide, SamePlaces
<1>2. CASE d.win[w].visible
  <2> DEFINE s == d.screen
             x == d.win[w]
             e == Hide(d, w)
             y == HiddenWindow(s, x)
  <2>1. /\ IsDisplay(d) /\ d.cursor \in Cursors
        /\ Standing(x, w, d.cursor)
        /\ x.bg = Saved(T, x)
        /\ \A r \in RowsIn(x) : s[r] = Image(w, x.drawn, r - x.pos.y)
    BY <1>2 DEF Sound, Intact
  <2>2. /\ x.pos.y \in Nat /\ x.size.h \in Nat /\ x.size.w \in Nat /\ RowsIn(x) \subseteq Rows
        /\ x.size = SizeOf(x.drawn)
    BY <2>1, StandingRows DEF Standing
  <2>3. /\ x.bg.w = x.size.w /\ DOMAIN x.bg.px = 0..x.size.h
        /\ \A i \in 0..x.size.h : x.bg.px[i] = T[x.pos.y + i]
    BY <2>1 DEF Saved
  <2>4. x.bg # NoBuf
    BY <2>2, <2>3 DEF NoBuf
  <2>5. Yields(d, w, e, Restored(s, x, x.bg), y)
    BY <1>2, <2>1, <2>4, HideYields
  <2>6. /\ IsDisplay(e) /\ e.win[w] = y /\ e.cursor = d.cursor /\ e.focus = d.focus
        /\ e.screen = Restored(s, x, x.bg)
        /\ \A v \in Windows : v # w => e.win[v] = d.win[v]
    BY <2>5 DEF Yields
  <2>7. /\ ~y.visible /\ y.pseudo = x.pseudo /\ y.pos = x.pos /\ y.size = x.size
        /\ y.content = x.content /\ y.drawn = x.drawn /\ y.fg = Saved(s, x)
    BY DEF HiddenWindow, Window
  <2> HIDE DEF e, y
  <2>8. SamePlaces(d, e)
    BY <2>6, <2>7 DEF SamePlaces
  <2>9. /\ \A r \in RowsIn(x) : e.screen[r] = T[r]
        /\ \A r \in Rows : r \notin RowsIn(x) => e.screen[r] = s[r]
    <3>1. /\ \A r \in RowsIn(x) : e.screen[r] = x.bg.px[r - x.pos.y]
          /\ \A r \in Rows : r \notin RowsIn(x) => e.screen[r] = s[r]
      BY <2>1, <2>3, <2>6, RestoredIs
    <3>2. \A r \in RowsIn(x) : r - x.pos.y \in 0..x.size.h /\ x.pos.y + (r - x.pos.y) = r
      BY <2>2 DEF RowsIn
    <3> QED BY <2>3, <3>1, <3>2
  <2>10. \A v \in Windows : v # w => \A r \in RowsIn(d.win[v]) : r \in Rows /\ r \notin RowsIn(x)
    BY <2>1, StandingApart, StandingRows DEF Sound
  <2>11. y.fg = PictureOf(w, y.drawn)
    <3> DEFINE h == x.size.h
               top == x.pos.y
    <3>1. \A i \in 0..h : top + i \in RowsIn(x) /\ (top + i) - top = i
      BY <2>2 DEF RowsIn
    <3>2. \A i \in 0..h : s[top + i] = Image(w, x.drawn, i)
      BY <2>1, <3>1
    <3>3. Saved(s, x) = PictureOf(w, x.drawn)
      BY <2>2, <3>2 DEF Saved, PictureOf
    <3> QED BY <2>7, <3>3
  <2>12. Standing(y, w, e.cursor) /\ Intact(e.screen, y, w, T)
    BY <2>1, <2>6, <2>7, <2>11 DEF Standing, Intact
  <2>13. ASSUME NEW v \in Windows, v # w
         PROVE  Standing(e.win[v], v, e.cursor) /\ Intact(e.screen, e.win[v], v, T)
    <3>1. Standing(d.win[v], v, d.cursor) /\ Intact(s, d.win[v], v, T)
      BY DEF Sound
    <3>2. \A r \in RowsIn(d.win[v]) : e.screen[r] = s[r]
      BY <2>9, <2>10, <2>13
    <3> QED BY <2>6, <2>13, <3>1, <3>2 DEF Intact
  <2>14. \A r \in Rows : ~Covered(e, r) => e.screen[r] = T[r]
    <3> SUFFICES ASSUME NEW r \in Rows, ~Covered(e, r) PROVE e.screen[r] = T[r]
      OBVIOUS
    <3>1. CASE r \in RowsIn(x)
      BY <2>9, <3>1
    <3>2. CASE r \notin RowsIn(x)
      <4>1. ~Covered(d, r)
        BY <2>6, <3>2 DEF Covered
      <4> QED BY <2>9, <3>2, <4>1 DEF Sound
    <3> QED BY <3>1, <3>2
  <2>15. Sound(e, T)
    <3>1. \A v \in Windows : Standing(e.win[v], v, e.cursor) /\ Intact(e.screen, e.win[v], v, T)
      BY <2>6, <2>12, <2>13
    <3> QED BY <2>1, <2>6, <2>14, <3>1 DEF Sound
  <2> QED BY <2>6, <2>7, <2>8, <2>15 DEF e
<1> QED BY <1>1, <1>2

\* Drawing a hidden window anew.
LEMMA RedrawSound ==
    ASSUME NEW d, NEW T, Sound(d, T), NEW w \in Windows, ~d.win[w].visible
    PROVE  LET e   == Redraw(d, w)
               new == SizeOf(d.win[w].content)
           IN  /\ Sound(e, T)
               /\ ~e.win[w].visible
               /\ e.win[w].size = new
               /\ e.win[w].pos = Place(w, d.cursor, new)
               /\ e.cursor = d.cursor /\ e.focus = d.focus
               /\ \A v \in Windows : v # w => e.win[v] = d.win[v]
<1> DEFINE e   == Redraw(d, w)
           c   == d.win[w].content
           new == SizeOf(c)
           y   == Window(FALSE, FALSE, Place(w, d.cursor, new), new, c, c, NoBuf, PictureOf(w, c))
<1>1. /\ IsDisplay(d) /\ d.cursor \in Cursors
      /\ ~d.win[w].pseudo /\ c \in ContentsOf(w)
  BY DEF Sound, Standing
<1>2. Yields(d, w, e, d.screen, y)
  BY <1>1, RedrawYields
<1>3. /\ ~y.visible /\ ~y.pseudo /\ y.pos = Place(w, d.cursor, new) /\ y.size = new
      /\ y.content = c /\ y.drawn = c /\ y.fg = PictureOf(w, c)
  BY DEF Window
<1> HIDE DEF e, y, c, new
<1>4. /\ IsDisplay(e) /\ e.screen = d.screen /\ e.win[w] = y
      /\ e.cursor = d.cursor /\ e.focus = d.focus
      /\ \A v \in Windows : v # w => e.win[v] = d.win[v]
  BY <1>2 DEF Yields
<1>5. Standing(y, w, d.cursor) /\ Intact(e.screen, y, w, T)
  BY <1>1, <1>3 DEF Standing, Intact, new
<1>6. \A v \in Windows : Standing(e.win[v], v, e.cursor) /\ Intact(e.screen, e.win[v], v, T)
  BY <1>4, <1>5 DEF Sound
<1>7. \A r \in Rows : Covered(e, r) <=> Covered(d, r)
  BY <1>3, <1>4 DEF Covered
<1>8. Sound(e, T)
  BY <1>1, <1>4, <1>6, <1>7 DEF Sound
<1> QED BY <1>3, <1>4, <1>8 DEF e, c, new

\* Widget::render of any window: it is as visible as before, of the size and in
\* the place of its content.
LEMMA RenderSound ==
    ASSUME NEW d, NEW T, Sound(d, T), NEW w \in Windows
    PROVE  LET e   == Render(d, w)
               new == SizeOf(d.win[w].content)
           IN  /\ Sound(e, T)
               /\ e.win[w].visible <=> d.win[w].visible
               /\ e.win[w].size = new
               /\ e.win[w].pos = Place(w, d.cursor, new)
               /\ e.cursor = d.cursor /\ e.focus = d.focus
               /\ \A v \in Windows : v # w => e.win[v] = d.win[v]
<1> DEFINE h    == Hide(d, w)
           done == Redraw(h, w)
           e    == Render(d, w)
           new  == SizeOf(d.win[w].content)
<1>1. /\ Sound(h, T) /\ ~h.win[w].visible
      /\ h.cursor = d.cursor /\ h.focus = d.focus
      /\ h.win[w].content = d.win[w].content
      /\ \A v \in Windows : v # w => h.win[v] = d.win[v]
  BY HideSound DEF SamePlaces
<1>2. e = IF d.win[w].visible THEN Show(done, w) ELSE done
  BY DEF Render
<1> HIDE DEF h, e
<1>3. /\ Sound(done, T) /\ ~done.win[w].visible
      /\ done.win[w].size = new /\ done.win[w].pos = Place(w, d.cursor, new)
      /\ done.cursor = d.cursor /\ done.focus = d.focus
      /\ \A v \in Windows : v # w => done.win[v] = d.win[v]
  BY <1>1, RedrawSound
<1> HIDE DEF done
<1>4. CASE d.win[w].visible
  <2>1. /\ Sound(Show(done, w), T) /\ Show(done, w).win[w].visible
        /\ SamePlaces(done, Show(done, w))
        /\ \A v \in Windows : v # w => Show(done, w).win[v] = done.win[v]
    BY <1>3, ShowSound
  <2> QED BY <1>2, <1>3, <1>4, <2>1 DEF SamePlaces, e
<1>5. CASE ~d.win[w].visible
  BY <1>2, <1>3, <1>5 DEF e
<1> QED BY <1>4, <1>5

\* A widget is given another text.
LEMMA ContentSound ==
    ASSUME NEW d, NEW T, Sound(d, T), NEW w \in Windows, NEW c \in ContentsOf(w)
    PROVE  LET e == SetContent(d, w, c)
           IN  /\ Sound(e, T)
               /\ e.win[w].visible <=> d.win[w].visible
               /\ e.win[w].size = d.win[w].size /\ e.win[w].pos = d.win[w].pos
               /\ e.win[w].content = c
               /\ e.cursor = d.cursor /\ e.focus = d.focus
               /\ \A v \in Windows : v # w => e.win[v] = d.win[v]
<1> DEFINE e == SetContent(d, w, c)
           x == d.win[w]
           y == [x EXCEPT !.content = c]
<1>1. IsDisplay(d) /\ IsWindow(x) /\ Standing(x, w, d.cursor) /\ Intact(d.screen, x, w, T)
  BY DEF Sound, IsDisplay
<1>2. IsWindow(y)
  BY <1>1, FieldType
<1>3. e = [d EXCEPT !.win[w] = y]
  BY DEF SetContent
<1>4. Yields(d, w, [d EXCEPT !.win[w] = y], d.screen, y)
  BY <1>1, <1>2, WindowYields
<1> HIDE DEF x, e
<1>5. y = Window(x.visible, x.pseudo, x.pos, x.size, c, x.drawn, x.bg, x.fg)
  BY <1>1, FieldIs
<1> HIDE DEF y
<1>6. /\ y.visible = x.visible /\ y.pseudo = x.pseudo /\ y.pos = x.pos /\ y.size = x.size
      /\ y.content = c /\ y.drawn = x.drawn /\ y.bg = x.bg /\ y.fg = x.fg
  BY <1>5 DEF Window
<1>7. /\ IsDisplay(e) /\ e.screen = d.screen /\ e.win[w] = y
      /\ e.cursor = d.cursor /\ e.focus = d.focus
      /\ \A v \in Windows : v # w => e.win[v] = d.win[v]
  BY <1>3, <1>4 DEF Yields
<1>8. RowsIn(y) = RowsIn(x) /\ Saved(T, y) = Saved(T, x)
  BY <1>6 DEF RowsIn, Saved
<1>9. Standing(y, w, d.cursor) /\ Intact(e.screen, y, w, T)
  BY <1>1, <1>6, <1>7, <1>8 DEF Standing, Intact
<1>10. \A v \in Windows : Standing(e.win[v], v, e.cursor) /\ Intact(e.screen, e.win[v], v, T)
  BY <1>7, <1>9 DEF Sound
<1>11. \A r \in Rows : Covered(e, r) <=> Covered(d, r)
  BY <1>6, <1>7, <1>8 DEF Covered, x
<1>12. Sound(e, T)
  BY <1>1, <1>7, <1>10, <1>11 DEF Sound
<1> QED BY <1>6, <1>7, <1>12 DEF e, x

\* The loops reach every window.
LEMMA OrderIs ==
    ASSUME order \in Orders
    PROVE  /\ order[1] \in Windows /\ order[2] \in Windows /\ order[3] \in Windows
           /\ order[1] # order[2] /\ order[1] # order[3] /\ order[2] # order[3]
           /\ \A w \in Windows : w = order[1] \/ w = order[2] \/ w = order[3]
<1>1. /\ order[1] \in Windows /\ order[2] \in Windows /\ order[3] \in Windows
      /\ order[1] # order[2] /\ order[1] # order[3] /\ order[2] # order[3]
  BY DEF Orders
<1>2. \A w \in Windows : w = order[1] \/ w = order[2] \/ w = order[3]
  BY <1>1 DEF Windows
<1> QED BY <1>1, <1>2

\* Cwm::_focus alone is not seen on the display.
LEMMA FocusFieldSound ==
    ASSUME NEW d, NEW T, Sound(d, T), NEW new
    PROVE  LET e == [d EXCEPT !.focus = new]
           IN  /\ Sound(e, T)
               /\ e.win = d.win /\ e.cursor = d.cursor /\ e.focus = new
<1> DEFINE e == [screen |-> d.screen, win |-> d.win, cursor |-> d.cursor, focus |-> new]
<1>1. [d EXCEPT !.focus = new] = e
  BY DEF Sound, IsDisplay
<1>2. e.screen = d.screen /\ e.win = d.win /\ e.cursor = d.cursor /\ e.focus = new
  OBVIOUS
<1>3. e = [screen |-> e.screen, win |-> e.win, cursor |-> e.cursor, focus |-> e.focus]
  OBVIOUS
<1> HIDE DEF e
<1>4. IsDisplay(e)
  BY <1>2, <1>3 DEF IsDisplay, Sound
<1>5. \A r \in Rows : Covered(e, r) <=> Covered(d, r)
  BY <1>2 DEF Covered
<1>6. Sound(e, T)
  BY <1>2, <1>4, <1>5 DEF Sound
<1> QED BY <1>1, <1>2, <1>6

\* Cwm::set_focus: all windows follow.
LEMMA FocusSound ==
    ASSUME NEW d, NEW T, Sound(d, T), order \in Orders, NEW new \in BOOLEAN, new # d.focus
    PROVE  LET e == SetFocus(d, new)
           IN  /\ Sound(e, T)
               /\ e.cursor = d.cursor
               /\ e.focus = new
               /\ \A w \in Windows : /\ e.win[w].visible <=> new
                                     /\ e.win[w].size = d.win[w].size
                                     /\ e.win[w].pos = d.win[w].pos
                                     /\ e.win[w].content = d.win[w].content
<1> DEFINE f == [d EXCEPT !.focus = new]
<1>1. Sound(f, T) /\ f.win = d.win /\ f.cursor = d.cursor /\ f.focus = new
  BY FocusFieldSound
<1>2. SetFocus(d, new) = IF new THEN Show(Show(Show(f, order[1]), order[2]), order[3])
                                ELSE Hide(Hide(Hide(f, order[1]), order[2]), order[3])
  BY DEF SetFocus, ForEachWindow
<1> HIDE DEF f
<1>3. CASE new
  <2> DEFINE f1 == Show(f, order[1])
             f2 == Show(f1, order[2])
             f3 == Show(f2, order[3])
  <2>1. /\ Sound(f1, T) /\ SamePlaces(f, f1) /\ f1.win[order[1]].visible
        /\ \A v \in Windows : v # order[1] => f1.win[v] = f.win[v]
    BY <1>1, OrderIs, ShowSound
  <2> HIDE DEF f1
  <2>2. /\ Sound(f2, T) /\ SamePlaces(f1, f2) /\ f2.win[order[2]].visible
        /\ \A v \in Windows : v # order[2] => f2.win[v] = f1.win[v]
    BY <2>1, OrderIs, ShowSound
  <2> HIDE DEF f2
  <2>3. /\ Sound(f3, T) /\ SamePlaces(f2, f3) /\ f3.win[order[3]].visible
        /\ \A v \in Windows : v # order[3] => f3.win[v] = f2.win[v]
    BY <2>2, OrderIs, ShowSound
  <2> HIDE DEF f3
  <2>4. f3.win[order[1]].visible /\ f3.win[order[2]].visible
    BY <2>1, <2>2, <2>3, OrderIs
  <2>5. \A w \in Windows : f3.win[w].visible
    BY <2>3, <2>4, OrderIs
  <2>6. SetFocus(d, new) = f3
    BY <1>2, <1>3 DEF f1, f2, f3
  <2>7. /\ f3.cursor = d.cursor /\ f3.focus = new
        /\ \A w \in Windows : /\ f3.win[w].size = d.win[w].size
                              /\ f3.win[w].pos = d.win[w].pos
                              /\ f3.win[w].content = d.win[w].content
    BY <1>1, <2>1, <2>2, <2>3 DEF SamePlaces
  <2>8. \A w \in Windows : f3.win[w].visible <=> new
    BY <1>3, <2>5
  <2>9. Sound(f3, T)
    BY <2>3
  <2> DEFINE e == SetFocus(d, new)
  <2>10. e = f3
    BY <2>6
  <2> HIDE DEF e
  <2>11. /\ Sound(e, T) /\ e.cursor = d.cursor /\ e.focus = new
         /\ \A w \in Windows : /\ e.win[w].visible <=> new
                               /\ e.win[w].size = d.win[w].size
                               /\ e.win[w].pos = d.win[w].pos
                               /\ e.win[w].content = d.win[w].content
    BY <2>7, <2>8, <2>9, <2>10, ZenonT(30)
  <2> QED BY <2>11, Zenon DEF e
<1>4. CASE ~new
  <2> DEFINE f1 == Hide(f, order[1])
             f2 == Hide(f1, order[2])
             f3 == Hide(f2, order[3])
  <2>1. /\ Sound(f1, T) /\ SamePlaces(f, f1) /\ ~f1.win[order[1]].visible
        /\ \A v \in Windows : v # order[1] => f1.win[v] = f.win[v]
    BY <1>1, OrderIs, HideSound
  <2> HIDE DEF f1
  <2>2. /\ Sound(f2, T) /\ SamePlaces(f1, f2) /\ ~f2.win[order[2]].visible
        /\ \A v \in Windows : v # order[2] => f2.win[v] = f1.win[v]
    BY <2>1, OrderIs, HideSound
  <2> HIDE DEF f2
  <2>3. /\ Sound(f3, T) /\ SamePlaces(f2, f3) /\ ~f3.win[order[3]].visible
        /\ \A v \in Windows : v # order[3] => f3.win[v] = f2.win[v]
    BY <2>2, OrderIs, HideSound
  <2> HIDE DEF f3
  <2>4. ~f3.win[order[1]].visible /\ ~f3.win[order[2]].visible
    BY <2>1, <2>2, <2>3, OrderIs
  <2>5. \A w \in Windows : ~f3.win[w].visible
    BY <2>3, <2>4, OrderIs
  <2>6. SetFocus(d, new) = f3
    BY <1>2, <1>4 DEF f1, f2, f3
  <2>7. /\ f3.cursor = d.cursor /\ f3.focus = new
        /\ \A w \in Windows : /\ f3.win[w].size = d.win[w].size
                              /\ f3.win[w].pos = d.win[w].pos
                              /\ f3.win[w].content = d.win[w].content
    BY <1>1, <2>1, <2>2, <2>3 DEF SamePlaces
  <2>8. \A w \in Windows : f3.win[w].visible <=> new
    BY <1>4, <2>5
  <2>9. Sound(f3, T)
    BY <2>3
  <2> DEFINE e == SetFocus(d, new)
  <2>10. e = f3
    BY <2>6
  <2> HIDE DEF e
  <2>11. /\ Sound(e, T) /\ e.cursor = d.cursor /\ e.focus = new
         /\ \A w \in Windows : /\ e.win[w].visible <=> new
                               /\ e.win[w].size = d.win[w].size
                               /\ e.win[w].pos = d.win[w].pos
                               /\ e.win[w].content = d.win[w].content
    BY <2>7, <2>8, <2>9, <2>10, ZenonT(30)
  <2> QED BY <2>11, Zenon DEF e
<1> QED BY <1>3, <1>4

\* What a window that is moved keeps.
LEMMA ResizedIs ==
    ASSUME NEW x, NEW new, NEW place
    PROVE  LET y == Resized(x, new, place)
           IN  /\ y.visible = x.visible /\ y.pseudo = x.pseudo
               /\ y.size = new /\ y.pos = place
               /\ y.content = x.content /\ y.drawn = x.drawn
               /\ y.bg = x.bg /\ y.fg = x.fg
BY DEF Resized, Window

\* Cwm::update of a hidden window: it is moved to its place, nothing is drawn.
LEMMA HiddenMoves ==
    ASSUME NEW d, IsDisplay(d), NEW w \in Windows, ~d.win[w].visible
    PROVE  LET e == Update(d, w)
               x == d.win[w]
           IN  /\ IsDisplay(e)
               /\ e.screen = d.screen /\ e.cursor = d.cursor /\ e.focus = d.focus
               /\ e.win[w] = Resized(x, x.size, Place(w, d.cursor, x.size))
               /\ \A v \in Windows : v # w => e.win[v] = d.win[v]
BY UpdateYields DEF Yields

\* Cwm::set_position while every window is hidden: each goes to its place at
\* the new cursor.
LEMMA PositionSound ==
    ASSUME NEW d, NEW T, Sound(d, T), order \in Orders, NEW new \in Cursors,
           \A w \in Windows : ~d.win[w].visible
    PROVE  LET e == SetPosition(d, new)
           IN  /\ Sound(e, T)
               /\ e.screen = d.screen /\ e.cursor = new /\ e.focus = d.focus
               /\ \A w \in Windows : /\ ~e.win[w].visible
                                     /\ e.win[w].size = d.win[w].size
                                     /\ e.win[w].pos = Place(w, new, d.win[w].size)
<1>1. CASE new = d.cursor
  <2>1. SetPosition(d, new) = d
    BY <1>1 DEF SetPosition
  <2>2. \A w \in Windows : d.win[w].pos = Place(w, new, d.win[w].size)
    BY <1>1 DEF Sound, Standing
  <2> QED BY <1>1, <2>1, <2>2
<1>2. CASE new # d.cursor
  <2> DEFINE f  == [d EXCEPT !.cursor = new]
             g  == [screen |-> d.screen, win |-> d.win, cursor |-> new, focus |-> d.focus]
             f1 == Update(f, order[1])
             f2 == Update(f1, order[2])
             f3 == Update(f2, order[3])
  <2>1. f = g
    BY DEF Sound, IsDisplay
  <2>2. f.screen = d.screen /\ f.win = d.win /\ f.cursor = new /\ f.focus = d.focus
    BY <2>1
  <2>3. f = [screen |-> f.screen, win |-> f.win, cursor |-> f.cursor, focus |-> f.focus]
    BY <2>1
  <2>4. SetPosition(d, new) = f3
    BY <1>2 DEF SetPosition, ForEachWindow
  <2> HIDE DEF f
  <2>5. IsDisplay(f)
    BY <2>2, <2>3 DEF IsDisplay, Sound
  <2>6. /\ IsDisplay(f1)
        /\ f1.screen = d.screen /\ f1.cursor = new /\ f1.focus = d.focus
        /\ f1.win[order[1]] = Resized(d.win[order[1]], d.win[order[1]].size, Place(order[1], new, d.win[order[1]].size))
        /\ \A v \in Windows : v # order[1] => f1.win[v] = d.win[v]
    BY <2>2, <2>5, OrderIs, HiddenMoves
  <2> HIDE DEF f1
  <2>7. /\ IsDisplay(f2)
        /\ f2.screen = d.screen /\ f2.cursor = new /\ f2.focus = d.focus
        /\ f2.win[order[2]] = Resized(d.win[order[2]], d.win[order[2]].size, Place(order[2], new, d.win[order[2]].size))
        /\ \A v \in Windows : v # order[2] => f2.win[v] = f1.win[v]
    BY <2>6, OrderIs, HiddenMoves
  <2> HIDE DEF f2
  <2>8. /\ IsDisplay(f3)
        /\ f3.screen = d.screen /\ f3.cursor = new /\ f3.focus = d.focus
        /\ f3.win[order[3]] = Resized(d.win[order[3]], d.win[order[3]].size, Place(order[3], new, d.win[order[3]].size))
        /\ \A v \in Windows : v # order[3] => f3.win[v] = f2.win[v]
    BY <2>6, <2>7, OrderIs, HiddenMoves
  <2> HIDE DEF f3
  <2>9. \A w \in Windows : f3.win[w] = Resized(d.win[w], d.win[w].size, Place(w, new, d.win[w].size))
    BY <2>6, <2>7, <2>8, OrderIs
  <2>10. \A w \in Windows : /\ ~f3.win[w].visible
                            /\ f3.win[w].pseudo = d.win[w].pseudo
                            /\ f3.win[w].size = d.win[w].size
                            /\ f3.win[w].pos = Place(w, new, d.win[w].size)
                            /\ f3.win[w].content = d.win[w].content
                            /\ f3.win[w].drawn = d.win[w].drawn
                            /\ f3.win[w].fg = d.win[w].fg
    <3> TAKE w \in Windows
    <3>1. f3.win[w].visible = d.win[w].visible
      BY <2>9, ResizedIs
    <3> QED BY <2>9, <3>1, ResizedIs
  <2>11. \A w \in Windows : Standing(f3.win[w], w, new) /\ Intact(f3.screen, f3.win[w], w, T)
    BY <2>10 DEF Sound, Standing, Intact
  <2>12. \A r \in Rows : d.screen[r] = T[r]
    BY DEF Sound, Covered
  <2>13. Sound(f3, T)
    BY <2>8, <2>11, <2>12 DEF Sound
  <2> QED BY <2>4, <2>8, <2>10, <2>13
<1> QED BY <1>1, <1>2

\* Cwm::set_focus, called with the focus that is on or with the other one.
LEMMA FocusFollowed ==
    ASSUME NEW d, NEW T, Sound(d, T), order \in Orders, NEW new \in BOOLEAN,
           d.focus \in BOOLEAN, \A w \in Windows : d.win[w].visible <=> d.focus
    PROVE  LET e == SetFocus(d, new)
           IN  /\ Sound(e, T)
               /\ e.cursor = d.cursor
               /\ e.focus = new
               /\ \A w \in Windows : /\ e.win[w].visible <=> new
                                     /\ e.win[w].size = d.win[w].size
                                     /\ e.win[w].pos = d.win[w].pos
                                     /\ e.win[w].content = d.win[w].content
<1>1. CASE new = d.focus
  <2>1. SetFocus(d, new) = d
    BY <1>1 DEF SetFocus
  <2> QED BY <1>1, <2>1
<1>2. CASE new # d.focus
  BY <1>2, FocusSound
<1> QED BY <1>1, <1>2

\* Widget::render of a window whose text is c: it is as large as c and stands
\* where its Shift puts it; the other windows stay as they are.
Rendered(d, e, w, c, T) ==
    /\ Sound(e, T)
    /\ e.cursor = d.cursor /\ e.focus = d.focus
    /\ e.win[w].size = SizeOf(c) /\ SizeOf(c) \in Sizes(w)
    /\ e.win[w].pos = Place(w, d.cursor, SizeOf(c))
    /\ \A v \in Windows : e.win[v].visible <=> d.win[v].visible
    /\ \A v \in Windows : v # w => e.win[v].size = d.win[v].size /\ e.win[v].pos = d.win[v].pos

LEMMA RenderIs ==
    ASSUME NEW d, NEW T, Sound(d, T), NEW w \in Windows
    PROVE  Rendered(d, Render(d, w), w, d.win[w].content, T)
<1>1. d.win[w].content \in ContentsOf(w)
  BY DEF Sound, Standing
<1>2. SizeOf(d.win[w].content) \in Sizes(w)
  BY <1>1, SizeOfType
<1> DEFINE e == Render(d, w)
<1>3. /\ Sound(e, T)
      /\ e.win[w].visible <=> d.win[w].visible
      /\ e.win[w].size = SizeOf(d.win[w].content)
      /\ e.win[w].pos = Place(w, d.cursor, SizeOf(d.win[w].content))
      /\ e.cursor = d.cursor /\ e.focus = d.focus
      /\ \A v \in Windows : v # w => e.win[v] = d.win[v]
  BY RenderSound
<1> HIDE DEF e
<1>4. \A v \in Windows : e.win[v].visible <=> d.win[v].visible
  BY <1>3
<1>5. Rendered(d, e, w, d.win[w].content, T)
  BY <1>2, <1>3, <1>4 DEF Rendered
<1> QED BY <1>5 DEF e

LEMMA RenderContentIs ==
    ASSUME NEW d, NEW T, Sound(d, T), NEW w \in Windows, NEW c \in ContentsOf(w)
    PROVE  Rendered(d, Render(SetContent(d, w, c), w), w, c, T)
<1> DEFINE f == SetContent(d, w, c)
           e == Render(f, w)
<1>1. /\ Sound(f, T)
      /\ f.win[w].visible <=> d.win[w].visible
      /\ f.win[w].content = c
      /\ f.cursor = d.cursor /\ f.focus = d.focus
      /\ \A v \in Windows : v # w => f.win[v] = d.win[v]
  BY ContentSound
<1> HIDE DEF f
<1>2. Rendered(f, e, w, c, T)
  BY <1>1, RenderIs
<1> HIDE DEF e
<1>3. \A v \in Windows : e.win[v].visible <=> d.win[v].visible
  BY <1>1, <1>2 DEF Rendered
<1>4. Rendered(d, e, w, c, T)
  BY <1>1, <1>2, <1>3 DEF Rendered
<1> QED BY <1>4 DEF e, f

-----------------------------------------------------------------------------
(***************************************************************************)
(* The invariant.                                                          *)
(***************************************************************************)

IInv ==
    /\ Sound(Display, term)
    /\ \A w \in Windows : win[w].visible <=> focus
    /\ refreshing => ~focus
    /\ term \in [Rows -> TermPixels]
    /\ focus \in BOOLEAN
    /\ prev_focus \in BOOLEAN
    /\ refreshing \in BOOLEAN
    /\ order \in Orders

LEMMA DisplayIs ==
    /\ Display.screen = screen /\ Display.win = win
    /\ Display.cursor = cursor /\ Display.focus = focus
BY DEF Display

\* The display after an operation is what the operation leaves.
LEMMA BecomesIs ==
    ASSUME NEW STATE d, IsDisplay(d), Becomes(d)
    PROVE  Display' = d /\ win' = d.win /\ cursor' = d.cursor /\ focus' = d.focus
BY DEF IsDisplay, Becomes, Display

\* The windows of Init are sound: nothing is shown, every picture is kept.
LEMMA FirstWindowIs ==
    ASSUME NEW w \in Windows, NEW c \in ContentsOf(w)
    PROVE  LET x == FirstWindow(w, c)
           IN  /\ IsWindow(x)
               /\ ~x.visible
               /\ x.size = SizeOf(c)
               /\ x.pos = Place(w, [x |-> 0, y |-> 0], SizeOf(c))
               /\ Standing(x, w, [x |-> 0, y |-> 0])
               /\ \A s, T : Intact(s, x, w, T)
<1> DEFINE x == FirstWindow(w, c)
<1>1. /\ x.visible = FALSE /\ x.pseudo = FALSE
      /\ x.size = SizeOf(c)
      /\ x.pos = Place(w, [x |-> 0, y |-> 0], SizeOf(c))
      /\ x.content = c /\ x.drawn = c /\ x.fg = PictureOf(w, c)
  BY DEF FirstWindow
<1>2. x = Window(x.visible, x.pseudo, x.pos, x.size, x.content, x.drawn, x.bg, x.fg)
  BY DEF FirstWindow, Window
<1> HIDE DEF x
<1>3. IsWindow(x)
  BY <1>1, <1>2 DEF IsWindow
<1>4. Standing(x, w, [x |-> 0, y |-> 0])
  BY <1>1 DEF Standing
<1>5. ~x.visible /\ \A s, T : Intact(s, x, w, T)
  BY <1>1 DEF Intact
<1>6. x.size = SizeOf(c) /\ x.pos = Place(w, [x |-> 0, y |-> 0], SizeOf(c))
  BY <1>1
<1> QED BY <1>3, <1>4, <1>5, <1>6 DEF x

\* A step that leaves a sound display keeps the invariant.
LEMMA StepIInv ==
    ASSUME IInv, NEW STATE e, Becomes(e), Sound(e, term'),
           \A w \in Windows : e.win[w].visible <=> e.focus,
           refreshing' => ~e.focus, e.focus \in BOOLEAN,
           term' \in [Rows -> TermPixels],
           prev_focus' \in BOOLEAN, refreshing' \in BOOLEAN, UNCHANGED order
    PROVE  IInv'
<1>1. Display' = e /\ win' = e.win /\ focus' = e.focus
  BY BecomesIs DEF Sound
<1>2. Sound(Display', term')
  BY <1>1
<1>3. \A w \in Windows : win'[w].visible <=> focus'
  BY <1>1
<1> QED BY <1>1, <1>2, <1>3 DEF IInv

LEMMA InitIInv == Init => IInv
<1> SUFFICES ASSUME Init PROVE IInv
  OBVIOUS
<1>1. PICK name \in ContentsOf("stts") :
        win = [w \in Windows |-> FirstWindow(w, IF w = "stts" THEN name ELSE Empty(w))]
  BY DEF Init
<1>2. \A w \in Windows : \E c \in ContentsOf(w) : win[w] = FirstWindow(w, c)
  BY <1>1 DEF ContentsOf
<1>3. cursor = [x |-> 0, y |-> 0] /\ cursor \in Cursors
  BY MetricsAssumption DEF Init, Cursors
<1>4. \A w \in Windows : /\ IsWindow(win[w])
                         /\ ~win[w].visible
                         /\ Standing(win[w], w, cursor)
                         /\ Intact(screen, win[w], w, term)
  BY <1>2, <1>3, FirstWindowIs
<1>5. IsScreen(screen) /\ screen = term
  BY DEF Init, IsScreen
<1>6. win = [w \in Windows |-> win[w]]
  BY <1>1
<1>7. IsDisplay(Display)
  BY <1>4, <1>5, <1>6, DisplayIs DEF IsDisplay, Display
<1>8. Sound(Display, term)
  BY <1>3, <1>4, <1>5, <1>7, DisplayIs DEF Sound
<1>9. term \in [Rows -> TermPixels]
  BY DEF Init
<1> QED BY <1>4, <1>8, <1>9 DEF IInv, Init

\* What a step does to the places of the windows: one of them is measured anew,
\* all of them follow the cursor, or none is touched.
Resizes(w) ==
    /\ cursor' = cursor
    /\ \E new \in Sizes(w) : win'[w].size = new /\ win'[w].pos = Place(w, cursor, new)
    /\ \A v \in Windows : v # w => win'[v].size = win[v].size /\ win'[v].pos = win[v].pos

Follows(new) ==
    /\ cursor' = new
    /\ \A v \in Windows : /\ win'[v].size = win[v].size
                          /\ win'[v].pos = Place(v, new, win[v].size)

StaysPut ==
    /\ cursor' = cursor
    /\ \A v \in Windows : win'[v].size = win[v].size /\ win'[v].pos = win[v].pos

\* An engine renders a window: Status::set_imf_status, clear, Widget::render.
LEMMA RenderStep ==
    ASSUME IInv, NEW STATE d, NEW STATE e, NEW w \in Windows, NEW c,
           Rendered(d, e, w, c, term), Becomes(e),
           d.cursor = cursor, d.focus \in BOOLEAN, refreshing => ~d.focus,
           \A v \in Windows : /\ d.win[v].visible <=> d.focus
                              /\ d.win[v].size = win[v].size
                              /\ d.win[v].pos = win[v].pos,
           UNCHANGED <<term, prev_focus, refreshing, order>>
    PROVE  /\ IInv'
           /\ focus' = d.focus
           /\ Resizes(w)
<1>1. /\ Sound(e, term) /\ e.cursor = cursor /\ e.focus = d.focus
      /\ e.win[w].size = SizeOf(c) /\ SizeOf(c) \in Sizes(w)
      /\ e.win[w].pos = Place(w, cursor, SizeOf(c))
      /\ \A v \in Windows : v # w => e.win[v].size = win[v].size /\ e.win[v].pos = win[v].pos
  BY DEF Rendered
<1>2. \A v \in Windows : e.win[v].visible <=> e.focus
  BY DEF Rendered
<1>3. win' = e.win /\ cursor' = e.cursor /\ focus' = e.focus
  BY DEF Becomes
<1>4. IInv'
  BY <1>1, <1>2, StepIInv DEF IInv
<1>5. Resizes(w)
  BY <1>1, <1>3 DEF Resizes
<1> QED BY <1>1, <1>3, <1>4, <1>5

\* The pieces of the invariant the steps start from.
LEMMA IInvIs ==
    ASSUME IInv
    PROVE  /\ Sound(Display, term)
           /\ Display.focus \in BOOLEAN
           /\ order \in Orders
           /\ \A w \in Windows : Display.win[w].visible <=> Display.focus
BY DisplayIs DEF IInv

LEMMA SwitchFocusStep ==
    ASSUME IInv, SwitchFocus
    PROVE  IInv' /\ \E w \in Windows : Resizes(w)
<1>1. PICK name \in ContentsOf("stts") :
        CallOutsideRefresh(SetImfStatus(SetFocus(Display, ~focus), name))
  BY DEF SwitchFocus
<1> DEFINE new == ~focus
           f == SetFocus(Display, new)
           e == Render(SetContent(f, "stts", name), "stts")
<1>2. Becomes(e) /\ ~refreshing /\ UNCHANGED <<term, prev_focus, refreshing, order>>
  BY <1>1 DEF CallOutsideRefresh, SetImfStatus
<1>3. new \in BOOLEAN
  OBVIOUS
<1> HIDE DEF new
<1>4. /\ Sound(f, term) /\ f.cursor = Display.cursor /\ f.focus = new
      /\ \A w \in Windows : /\ f.win[w].visible <=> new
                            /\ f.win[w].size = Display.win[w].size
                            /\ f.win[w].pos = Display.win[w].pos
  BY <1>3, IInvIs, FocusFollowed
<1> HIDE DEF f
<1>5. "stts" \in Windows
  BY DEF Windows
<1>6. Rendered(f, e, "stts", name, term)
  BY <1>4, <1>5, RenderContentIs
<1> HIDE DEF e
<1>7. f.cursor = cursor /\ f.focus \in BOOLEAN /\ (refreshing => ~f.focus)
  BY <1>2, <1>3, <1>4, DisplayIs
<1>8. \A v \in Windows : /\ f.win[v].visible <=> f.focus
                         /\ f.win[v].size = win[v].size
                         /\ f.win[v].pos = win[v].pos
  BY <1>4, DisplayIs
<1>9. IInv' /\ Resizes("stts")
  BY <1>2, <1>5, <1>6, <1>7, <1>8, RenderStep
<1> QED BY <1>5, <1>9

\* An engine renders a window whose text it may have set.
LEMMA EngineRenders ==
    ASSUME IInv, NEW w \in Windows, NEW STATE e, NEW c,
           Rendered(Display, e, w, c, term), CallOutsideRefresh(e)
    PROVE  IInv' /\ Resizes(w) /\ FocusToKeep' = FocusToKeep
<1>1. Becomes(e) /\ UNCHANGED <<term, prev_focus, refreshing, order>>
  BY DEF CallOutsideRefresh
<1>2. /\ Display.cursor = cursor /\ Display.focus \in BOOLEAN /\ (refreshing => ~Display.focus)
      /\ \A v \in Windows : /\ Display.win[v].visible <=> Display.focus
                            /\ Display.win[v].size = win[v].size
                            /\ Display.win[v].pos = win[v].pos
  BY IInvIs, DisplayIs DEF IInv
<1>3. IInv' /\ focus' = Display.focus /\ Resizes(w)
  BY <1>1, <1>2, RenderStep
<1>4. FocusToKeep' = FocusToKeep
  BY <1>1, <1>3, DisplayIs DEF FocusToKeep
<1> QED BY <1>3, <1>4

LEMMA EngineStep ==
    ASSUME IInv, ChangeStatus \/ Clear \/ RenderWidget
    PROVE  IInv' /\ FocusToKeep' = FocusToKeep /\ \E w \in Windows : Resizes(w)
<1>1. ASSUME NEW w \in Windows, NEW c \in ContentsOf(w),
             CallOutsideRefresh(Render(SetContent(Display, w, c), w))
      PROVE  IInv' /\ FocusToKeep' = FocusToKeep /\ Resizes(w)
  <2> DEFINE e == Render(SetContent(Display, w, c), w)
  <2>1. Rendered(Display, e, w, c, term)
    BY IInvIs, RenderContentIs
  <2>2. CallOutsideRefresh(e)
    BY <1>1
  <2> HIDE DEF e
  <2> QED BY <2>1, <2>2, EngineRenders
<1>2. CASE ChangeStatus
  BY <1>1, <1>2 DEF ChangeStatus, SetImfStatus, Windows
<1>3. CASE Clear
  BY <1>1, <1>3 DEF Clear, Windows, ContentsOf
<1>4. CASE RenderWidget
  <2>1. PICK w \in Windows : CallOutsideRefresh(Render(Display, w))
    BY <1>4 DEF RenderWidget
  <2> DEFINE e == Render(Display, w)
  <2>2. Rendered(Display, e, w, Display.win[w].content, term)
    BY IInvIs, RenderIs
  <2>3. CallOutsideRefresh(e)
    BY <2>1
  <2> HIDE DEF e
  <2> QED BY <2>2, <2>3, EngineRenders
<1> QED BY <1>2, <1>3, <1>4

\* Text without a picture.
LEMMA AppendStep ==
    ASSUME IInv, Append
    PROVE  IInv' /\ FocusToKeep' = FocusToKeep /\ StaysPut
<1>0. PICK w \in {"prdt", "lkc"} : \E c \in ContentsOf(w) \ {Empty(w)} :
        CallOutsideRefresh(SetContent(Display, w, c))
  BY DEF Append
<1>1. PICK c \in ContentsOf(w) : CallOutsideRefresh(SetContent(Display, w, c))
  BY <1>0
<1>2. w \in Windows
  BY DEF Windows
<1> DEFINE e == SetContent(Display, w, c)
<1>3. /\ Sound(e, term)
      /\ e.win[w].visible <=> Display.win[w].visible
      /\ e.win[w].size = Display.win[w].size /\ e.win[w].pos = Display.win[w].pos
      /\ e.cursor = Display.cursor /\ e.focus = Display.focus
      /\ \A v \in Windows : v # w => e.win[v] = Display.win[v]
  BY <1>2, IInvIs, ContentSound
<1>4. Becomes(e) /\ UNCHANGED <<term, prev_focus, refreshing, order>>
  BY <1>1 DEF CallOutsideRefresh
<1> HIDE DEF e
<1>5. \A v \in Windows : /\ e.win[v].visible <=> e.focus
                         /\ e.win[v].size = win[v].size /\ e.win[v].pos = win[v].pos
  BY <1>2, <1>3, IInvIs, DisplayIs
<1>6. e.focus = focus /\ e.cursor = cursor
  BY <1>3, DisplayIs
<1>7. IInv'
  BY <1>3, <1>4, <1>5, <1>6, StepIInv DEF IInv
<1>8. win' = e.win /\ cursor' = e.cursor /\ focus' = e.focus
  BY <1>4 DEF Becomes
<1>9. StaysPut
  BY <1>5, <1>6, <1>8 DEF StaysPut
<1>10. FocusToKeep' = FocusToKeep
  BY <1>4, <1>6, <1>8 DEF FocusToKeep
<1> QED BY <1>7, <1>9, <1>10

\* The host hides every window and shows them again.
LEMMA BracketStep ==
    ASSUME IInv, NEW STATE new, new \in BOOLEAN, Becomes(SetFocus(Display, new)),
           refreshing' \in BOOLEAN, refreshing' => ~new, prev_focus' \in BOOLEAN,
           UNCHANGED <<term, order>>
    PROVE  IInv' /\ focus' = new /\ StaysPut
<1> DEFINE e == SetFocus(Display, new)
<1>1. /\ Sound(e, term) /\ e.cursor = Display.cursor /\ e.focus = new
      /\ \A w \in Windows : /\ e.win[w].visible <=> new
                            /\ e.win[w].size = Display.win[w].size
                            /\ e.win[w].pos = Display.win[w].pos
  BY IInvIs, FocusFollowed
<1>2. Becomes(e)
  OBVIOUS
<1> HIDE DEF e
<1>3. \A w \in Windows : e.win[w].visible <=> e.focus
  BY <1>1
<1>4. IInv'
  BY <1>1, <1>2, <1>3, StepIInv DEF IInv
<1>5. win' = e.win /\ cursor' = e.cursor /\ focus' = e.focus
  BY <1>2 DEF Becomes
<1>6. StaysPut
  BY <1>1, <1>5, DisplayIs DEF StaysPut
<1> QED BY <1>1, <1>4, <1>5, <1>6

LEMMA RefreshBeginStep ==
    ASSUME IInv, RefreshBegin
    PROVE  IInv' /\ FocusToKeep' = FocusToKeep /\ StaysPut
<1> DEFINE new == FALSE
<1>1. Becomes(SetFocus(Display, new)) /\ ~new /\ new \in BOOLEAN
  BY DEF RefreshBegin
<1> HIDE DEF new
<1>2. /\ ~refreshing /\ refreshing' = TRUE /\ prev_focus' = focus
      /\ UNCHANGED <<term, order>>
  BY DEF RefreshBegin
<1>3. refreshing' \in BOOLEAN /\ prev_focus' \in BOOLEAN
  BY <1>2 DEF IInv
<1>4. IInv' /\ StaysPut
  BY <1>1, <1>2, <1>3, BracketStep
<1>5. FocusToKeep' = FocusToKeep
  BY <1>2 DEF FocusToKeep
<1> QED BY <1>4, <1>5

LEMMA RefreshEndStep ==
    ASSUME IInv, RefreshEnd
    PROVE  IInv' /\ FocusToKeep' = FocusToKeep /\ StaysPut
<1>1. /\ refreshing /\ ~refreshing' /\ refreshing' \in BOOLEAN
      /\ UNCHANGED <<term, prev_focus, order>>
      /\ Becomes(SetFocus(Display, prev_focus))
  BY DEF RefreshEnd
<1>2. prev_focus \in BOOLEAN /\ prev_focus' \in BOOLEAN
  BY <1>1 DEF IInv
<1>3. IInv' /\ StaysPut /\ focus' = prev_focus
  BY <1>1, <1>2, BracketStep
<1>4. FocusToKeep' = FocusToKeep
  BY <1>1, <1>3 DEF FocusToKeep
<1> QED BY <1>3, <1>4

\* While the host draws no window is shown, so the screen is the terminal's.
LEMMA HiddenScreen ==
    ASSUME IInv, refreshing
    PROVE  /\ \A w \in Windows : ~win[w].visible
           /\ \A r \in Rows : screen[r] = term[r]
<1>1. \A w \in Windows : ~win[w].visible
  BY DEF IInv
<1>2. \A r \in Rows : ~Covered(Display, r)
  BY <1>1, DisplayIs DEF Covered
<1>3. \A r \in Rows : screen[r] = term[r]
  BY <1>2, DisplayIs DEF IInv, Sound
<1> QED BY <1>1, <1>3

LEMMA TerminalDrawsStep ==
    ASSUME IInv, refreshing, TerminalDraws
    PROVE  IInv' /\ FocusToKeep' = FocusToKeep /\ StaysPut
<1>1. PICK region \in Regions, px \in TermPixels :
        /\ term' = [r \in Rows |-> IF r \in region THEN px ELSE term[r]]
        /\ screen' = [r \in Rows |-> IF r \in region THEN px ELSE screen[r]]
  BY DEF TerminalDraws
<1>2. UNCHANGED <<win, cursor, focus, prev_focus, refreshing, order>>
  BY DEF TerminalDraws
<1>3. \A w \in Windows : ~win[w].visible
  BY HiddenScreen
<1>4. \A r \in Rows : screen'[r] = term'[r]
  BY <1>1, HiddenScreen
<1>5. term' \in [Rows -> TermPixels]
  BY <1>1 DEF IInv
<1>6. IsScreen(screen')
  BY <1>1 DEF IsScreen
<1>7. /\ IsDisplay(Display) /\ cursor \in Cursors
      /\ \A w \in Windows : Standing(win[w], w, cursor) /\ Intact(screen, win[w], w, term)
  BY IInvIs, DisplayIs DEF Sound
<1>8. \A w \in Windows : Intact(screen', win[w], w, term')
  BY <1>3, <1>7 DEF Intact
<1> DEFINE e == [screen |-> screen', win |-> win, cursor |-> cursor, focus |-> focus]
<1>9. Display' = e
  BY <1>2 DEF Display
<1>10. e.screen = screen' /\ e.win = win /\ e.cursor = cursor /\ e.focus = focus
  OBVIOUS
<1>11. e = [screen |-> e.screen, win |-> e.win, cursor |-> e.cursor, focus |-> e.focus]
  OBVIOUS
<1> HIDE DEF e
<1>12. IsDisplay(e)
  BY <1>6, <1>7, <1>10, <1>11, DisplayIs DEF IsDisplay
<1>13. Sound(e, term')
  BY <1>4, <1>7, <1>8, <1>10, <1>12 DEF Sound
<1>14. Sound(Display', term')
  BY <1>9, <1>13
<1>15. IInv'
  BY <1>2, <1>5, <1>14 DEF IInv
<1> QED BY <1>2, <1>15 DEF FocusToKeep, StaysPut

LEMMA CursorPositionStep ==
    ASSUME IInv, refreshing, CursorPosition
    PROVE  IInv' /\ FocusToKeep' = FocusToKeep /\ \E new \in Cursors : Follows(new)
<1>1. PICK new \in Cursors : Becomes(SetPosition(Display, new))
  BY DEF CursorPosition
<1>2. UNCHANGED <<term, prev_focus, refreshing, order>>
  BY DEF CursorPosition
<1> DEFINE e == SetPosition(Display, new)
<1>3. \A w \in Windows : ~Display.win[w].visible
  BY HiddenScreen, DisplayIs
<1>4. /\ Sound(e, term)
      /\ e.cursor = new /\ e.focus = Display.focus
      /\ \A w \in Windows : /\ ~e.win[w].visible
                            /\ e.win[w].size = Display.win[w].size
                            /\ e.win[w].pos = Place(w, new, Display.win[w].size)
  BY <1>3, IInvIs, PositionSound
<1>5. Becomes(e)
  BY <1>1
<1> HIDE DEF e
<1>6. ~focus /\ focus \in BOOLEAN
  BY DEF IInv
<1>7. \A w \in Windows : e.win[w].visible <=> e.focus
  BY <1>4, <1>6, DisplayIs
<1>8. IInv'
  BY <1>2, <1>4, <1>5, <1>6, <1>7, StepIInv, DisplayIs DEF IInv
<1>9. win' = e.win /\ cursor' = e.cursor /\ focus' = e.focus
  BY <1>5 DEF Becomes
<1>10. Follows(new)
  BY <1>4, <1>9, DisplayIs DEF Follows
<1>11. FocusToKeep' = FocusToKeep
  BY <1>2, <1>4, <1>9, DisplayIs DEF FocusToKeep
<1> QED BY <1>8, <1>10, <1>11

-----------------------------------------------------------------------------
(***************************************************************************)
(* The theorems.                                                           *)
(***************************************************************************)

\* ScreenAssumption holds on every screen that is high enough: it asks for no
\* more than RoomyScreen, the condition Placement states.
LEMMA RoomyScreenSuffices ==
    RoomyScreen =>
      \A w \in Windows : \A cur \in Cursors : \A c \in ContentsOf(w) :
        LET top == Place(w, cur, SizeOf(c)).y
        IN  top >= 0 /\ top + SizeOf(c).h < Yres
BY SizeOfType, RoomyPlaced

\* What each step does, but for the focus.
LEMMA NextStep ==
    ASSUME IInv, Next
    PROVE  /\ IInv'
           /\ \/ \E w \in Windows : Resizes(w)
              \/ \E new \in Cursors : Follows(new)
              \/ StaysPut
<1>1. CASE SwitchFocus
  BY <1>1, SwitchFocusStep
<1>2. CASE ChangeStatus \/ Clear \/ RenderWidget
  BY <1>2, EngineStep
<1>3. CASE Append
  BY <1>3, AppendStep
<1>4. CASE RefreshBegin
  BY <1>4, RefreshBeginStep
<1>5. CASE refreshing /\ TerminalDraws
  BY <1>5, TerminalDrawsStep
<1>6. CASE refreshing /\ CursorPosition
  BY <1>6, CursorPositionStep
<1>7. CASE RefreshEnd
  BY <1>7, RefreshEndStep
<1> QED BY <1>1, <1>2, <1>3, <1>4, <1>5, <1>6, <1>7 DEF Next, EngineNext

LEMMA StutterIInv ==
    ASSUME IInv, UNCHANGED vars
    PROVE  IInv'
<1>1. Display' = Display /\ UNCHANGED vars
  BY DEF vars, Display
<1>2. Sound(Display', term')
  BY <1>1 DEF IInv, vars
<1> QED BY <1>1, <1>2 DEF IInv, vars

LEMMA NextIInv == IInv /\ [Next]_vars => IInv'
BY NextStep, StutterIInv

\* The types: every window record keeps the shape of its last picture.
LEMMA IInvTypeOK == IInv => TypeOK
<1> SUFFICES ASSUME IInv PROVE TypeOK
  OBVIOUS
<1>1. /\ IsDisplay(Display) /\ cursor \in Cursors
      /\ \A w \in Windows : Standing(win[w], w, cursor)
  BY DisplayIs DEF IInv, Sound
<1>2. DOMAIN screen = Rows
  BY <1>1, DisplayIs DEF IsDisplay, IsScreen
<1>3. ASSUME NEW w \in Windows
      PROVE  /\ win[w].visible \in BOOLEAN
             /\ win[w].pseudo = FALSE
             /\ {win[w].content, win[w].drawn} \subseteq ContentsOf(w)
             /\ win[w].size = SizeOf(win[w].drawn)
  <2>1. IsWindow(win[w]) /\ Standing(win[w], w, cursor)
    BY <1>1, DisplayIs DEF IsDisplay
  <2>2. win[w].visible \in BOOLEAN /\ win[w].pseudo \in BOOLEAN
    BY <2>1 DEF IsWindow
  <2> QED BY <2>1, <2>2 DEF Standing
<1> QED BY <1>1, <1>2, <1>3 DEF TypeOK, IInv

\* Every window keeps the size of its last picture and holds a buffer exactly while
\* it is needed (window.cpp, graphport.cpp).
THEOREM TypeCorrect == Spec => []TypeOK
BY InitIInv, NextIInv, IInvTypeOK, PTL DEF Spec

\* No operation leaves one window shown or hidden on its own.
LEMMA IInvFocusVisible == IInv => FocusVisible
<1> SUFFICES ASSUME IInv, NEW w \in Windows PROVE win[w].visible = focus
  BY DEF FocusVisible
<1>1. IsWindow(win[w])
  BY DisplayIs DEF IInv, Sound, IsDisplay
<1>2. win[w].visible \in BOOLEAN
  BY <1>1 DEF IsWindow
<1>3. win[w].visible <=> focus
  BY DEF IInv
<1>4. focus \in BOOLEAN
  BY DEF IInv
<1> QED BY <1>2, <1>3, <1>4, Zenon

\* Whatever show and hide each other's callers nest, all windows are shown when the
\* focus is on and none when it is off (Cwm::set_focus, Widget::render).
THEOREM WindowsFollowFocus == Spec => []FocusVisible
BY InitIInv, NextIInv, IInvFocusVisible, PTL DEF Spec

\* Where no window is shown the screen is the terminal's, on every screen that
\* holds the windows and whatever the terminal and the engines draw.
LEMMA IInvNoGhost == IInv => NoGhost
<1> SUFFICES ASSUME IInv, NEW r \in Rows,
                    \A w \in Windows : win[w].visible => r \notin RowsOf(w)
             PROVE  screen[r] = term[r]
  BY DEF NoGhost
<1>1. ~Covered(Display, r)
  BY DisplayIs DEF Covered, RowsIn, RowsOf
<1> QED BY <1>1, DisplayIs DEF IInv, Sound

\* Where no window is shown, the screen is what the terminal alone has drawn.
THEOREM ScreenGivenBack == Spec => []NoGhost
BY InitIInv, NextIInv, IInvNoGhost, PTL DEF Spec

\* A shown window keeps exactly what the terminal has under it.
LEMMA IInvSavedBackground == IInv => SavedBackground
BY DisplayIs DEF IInv, Sound, Intact, Saved, SavedBackground

\* What a shown window has saved is what the terminal has under it, also after it
\* was moved and resized (GraphPort::push_bg_buf).
THEOREM BackgroundKept == Spec => []SavedBackground
BY InitIInv, NextIInv, IInvSavedBackground, PTL DEF Spec

\* A shown window shows what it last rendered, a hidden one keeps it.
LEMMA IInvImageIntact == IInv => ImageIntact
<1> SUFFICES ASSUME IInv, NEW w \in Windows
             PROVE  IF win[w].visible
                    THEN \A r \in RowsOf(w) : screen[r] = Picture(w).px[r - win[w].pos.y]
                    ELSE win[w].fg = Picture(w)
  BY DEF ImageIntact
<1>1. Standing(win[w], w, cursor) /\ Intact(screen, win[w], w, term)
  BY DisplayIs DEF IInv, Sound
<1>2. CASE ~win[w].visible
  BY <1>1, <1>2 DEF Intact, Picture
<1>3. ASSUME win[w].visible, NEW r \in RowsOf(w)
      PROVE  screen[r] = Picture(w).px[r - win[w].pos.y]
  <2> DEFINE i == r - win[w].pos.y
  <2>1. screen[r] = Image(w, win[w].drawn, i)
    BY <1>1, <1>3 DEF Intact, RowsIn, RowsOf
  <2>2. /\ win[w].size = SizeOf(win[w].drawn)
        /\ SizeOf(win[w].drawn) \in Sizes(w)
        /\ SizeOf(win[w].drawn).h \in Nat
        /\ win[w].pos = Place(w, cursor, SizeOf(win[w].drawn))
    BY <1>1, SizeOfType DEF Standing
  <2>3. win[w].pos.y \in Int
    BY <2>2, PlaceType DEF IInv, Sound, Display
  <2>4. i \in 0..SizeOf(win[w].drawn).h
    BY <1>3, <2>2, <2>3 DEF RowsOf
  <2> HIDE DEF i
  <2>5. Picture(w).px[i] = Image(w, win[w].drawn, i)
    BY <2>4 DEF Picture, PictureOf
  <2> QED BY <2>1, <2>5 DEF i
<1> QED BY <1>2, <1>3

\* A shown window is on the screen as last rendered, a hidden one keeps that
\* picture whole (GraphPort::push_fg_buf).
THEOREM PicturesIntact == Spec => []ImageIntact
BY InitIInv, NextIInv, IInvImageIntact, PTL DEF Spec

\* Only the user's switch turns the input method on or off; a redraw of the
\* host gives back the focus it found.
LEMMA NextFocusKept == IInv /\ [Next]_vars => [FocusToKeep' # FocusToKeep => SwitchFocus]_vars
<1> SUFFICES ASSUME IInv, Next, FocusToKeep' # FocusToKeep PROVE SwitchFocus
  OBVIOUS
<1>1. ~(ChangeStatus \/ Clear \/ RenderWidget)
  BY EngineStep
<1>2. ~Append /\ ~RefreshBegin /\ ~RefreshEnd
  BY AppendStep, RefreshBeginStep, RefreshEndStep
<1>3. ~(refreshing /\ TerminalDraws) /\ ~(refreshing /\ CursorPosition)
  BY TerminalDrawsStep, CursorPositionStep
<1> QED BY <1>1, <1>2, <1>3 DEF Next, EngineNext

\* A refresh bracket of the host gives back the focus it found: no step but the
\* user's switch changes it (ucimf_refresh_begin, ucimf_refresh_end).
THEOREM FocusPreserved == Spec => FocusKept
BY InitIInv, NextIInv, NextFocusKept, PTL DEF Spec, FocusKept

-----------------------------------------------------------------------------
(***************************************************************************)
(* The window manager implements Placement.                                *)
(***************************************************************************)

\* Placement is instantiated with the constants of this module.
LEMMA SameGeometry ==
    /\ P!Windows = Windows
    /\ P!Cursors = Cursors
    /\ \A n : P!HeightOf(n) = HeightOf(n)
    /\ \A w \in Windows : P!Sizes(w) = Sizes(w)
    /\ \A w \in Windows : \A cur, s : P!Place(w, cur, s) = Place(w, cur, s)
<1>1. P!Windows = Windows /\ P!Cursors = Cursors
  BY DEF P!Windows, Windows, P!Cursors, Cursors
<1>2. \A n : P!HeightOf(n) = HeightOf(n)
  BY DEF P!HeightOf, HeightOf
<1>3. \A w : P!MaxLinesOf(w) = MaxLinesOf(w) /\ P!Gap(w) = Gap(w)
  BY DEF P!MaxLinesOf, MaxLinesOf, P!Gap, Gap
<1>4. \A w : P!Heights(w) = Heights(w)
  BY <1>2, <1>3 DEF P!Heights, Heights
<1>5. \A w \in Windows : P!Sizes(w) = Sizes(w)
  BY <1>4 DEF P!Sizes, Sizes
<1>6. \A x, width : P!PlaceX(x, width) = PlaceX(x, width)
  BY DEF P!PlaceX, PlaceX
<1>7. \A y, height, gap : P!PlaceY(y, height, gap) = PlaceY(y, height, gap)
  BY DEF P!PlaceY, PlaceY
<1>8. \A w \in Windows : \A cur, s : P!Place(w, cur, s) = Place(w, cur, s)
  BY <1>3, <1>6, <1>7 DEF P!Place, Place
<1> QED BY <1>1, <1>2, <1>5, <1>8

\* The sizes and the places as Placement sees them.
SizeMap == [w \in Windows |-> win[w].size]
PosMap == [w \in Windows |-> win[w].pos]

LEMMA InitPlacement == Init => P!Init
<1> SUFFICES ASSUME Init PROVE P!Init
  OBVIOUS
<1>1. PICK name \in ContentsOf("stts") :
        win = [w \in Windows |-> FirstWindow(w, IF w = "stts" THEN name ELSE Empty(w))]
  BY DEF Init
<1>2. name.lines = 1 /\ name.w \in Widths
  <2>1. CASE name \in Contents["stts"]
    <3>1. "stts" \in Windows
      BY DEF Windows
    <3>2. name.lines \in 1..MaxLinesOf("stts") /\ name.w \in Widths
      BY <2>1, <3>1, ContentsAssumption
    <3> QED BY <3>2 DEF MaxLinesOf
  <2>2. CASE name = Empty("stts")
    BY <2>2, MetricsAssumption DEF Empty
  <2> QED BY <2>1, <2>2 DEF ContentsOf
<1>3. ASSUME NEW w \in Windows
      PROVE  /\ win[w].size = IF w = "stts" THEN [w |-> name.w, h |-> HeightOf(1)]
                                            ELSE [w |-> 0, h |-> 0]
             /\ win[w].pos = Place(w, [x |-> 0, y |-> 0], win[w].size)
  <2>1. CASE w = "stts"
    <3>1. win[w] = FirstWindow(w, name)
      BY <1>1, <2>1
    <3>2. win[w].size = SizeOf(name) /\ win[w].pos = Place(w, [x |-> 0, y |-> 0], SizeOf(name))
      BY <2>1, <3>1, FirstWindowIs
    <3> QED BY <1>2, <2>1, <3>2 DEF SizeOf
  <2>2. CASE w # "stts"
    <3>1. win[w] = FirstWindow(w, Empty(w)) /\ Empty(w) \in ContentsOf(w)
      BY <1>1, <2>2 DEF ContentsOf
    <3>2. /\ win[w].size = SizeOf(Empty(w))
          /\ win[w].pos = Place(w, [x |-> 0, y |-> 0], SizeOf(Empty(w)))
      BY <3>1, FirstWindowIs
    <3>3. SizeOf(Empty(w)) = [w |-> 0, h |-> 0]
      BY <2>2 DEF SizeOf, Empty, HeightOf
    <3> QED BY <2>2, <3>2, <3>3
  <2> QED BY <2>1, <2>2
<1>4. cursor = [x |-> 0, y |-> 0]
  BY DEF Init
<1>5. SizeMap = [w \in Windows |-> IF w = "stts" THEN [w |-> name.w, h |-> HeightOf(1)]
                                                 ELSE [w |-> 0, h |-> 0]]
  BY <1>3 DEF SizeMap
<1>6. PosMap = [w \in Windows |-> Place(w, cursor, SizeMap[w])]
  BY <1>3, <1>4 DEF PosMap, SizeMap
<1> QED BY <1>2, <1>4, <1>5, <1>6, SameGeometry DEF P!Init, SizeMap, PosMap

\* The three kinds of steps are steps of Placement or stutter.
LEMMA ResizesPlacement ==
    ASSUME NEW w \in Windows, Resizes(w)
    PROVE  P!Next
<1>1. PICK new \in Sizes(w) : win'[w].size = new /\ win'[w].pos = Place(w, cursor, new)
  BY DEF Resizes
<1>2. SizeMap' = [SizeMap EXCEPT ![w] = new]
  BY <1>1 DEF Resizes, SizeMap
<1>3. PosMap' = [PosMap EXCEPT ![w] = Place(w, cursor, new)]
  BY <1>1 DEF Resizes, PosMap
<1>4. PosMap' = [PosMap EXCEPT ![w] = P!Place(w, cursor, new)]
  BY <1>3, SameGeometry
<1>5. cursor' = cursor
  BY DEF Resizes
<1>6. P!Resize(w, new)
  BY <1>2, <1>4, <1>5 DEF P!Resize, SizeMap, PosMap
<1> QED BY <1>6, SameGeometry DEF P!Next

LEMMA FollowsPlacement ==
    ASSUME IInv, NEW new \in Cursors, Follows(new)
    PROVE  [P!Next]_(P!vars)
<1>1. SizeMap' = SizeMap /\ cursor' = new
  BY DEF Follows, SizeMap
<1>2. PosMap' = [w \in Windows |-> Place(w, new, SizeMap[w])]
  BY DEF Follows, SizeMap, PosMap
<1>3. CASE new = cursor
  <2>1. \A w \in Windows : win[w].pos = Place(w, cursor, win[w].size)
    BY DisplayIs DEF IInv, Sound, Standing
  <2>2. PosMap' = PosMap
    BY <1>2, <1>3, <2>1 DEF PosMap, SizeMap
  <2> QED BY <1>1, <1>3, <2>2 DEF P!vars, SizeMap, PosMap
<1>4. CASE new # cursor
  <2>1. P!SetPosition(new)
    BY <1>1, <1>2, <1>4, SameGeometry DEF P!SetPosition, SizeMap, PosMap
  <2> QED BY <2>1, SameGeometry DEF P!Next
<1> QED BY <1>3, <1>4

LEMMA StaysPutPlacement ==
    ASSUME StaysPut
    PROVE  UNCHANGED P!vars
<1>1. SizeMap' = SizeMap /\ PosMap' = PosMap
  BY DEF StaysPut, SizeMap, PosMap
<1> QED BY <1>1 DEF StaysPut, P!vars, SizeMap, PosMap

LEMMA NextPlacement == IInv /\ [Next]_vars => [P!Next]_(P!vars)
<1> SUFFICES ASSUME IInv, [Next]_vars PROVE [P!Next]_(P!vars)
  OBVIOUS
<1>1. CASE Next
  <2>1. CASE \E w \in Windows : Resizes(w)
    BY <2>1, ResizesPlacement
  <2>2. CASE \E new \in Cursors : Follows(new)
    BY <2>2, FollowsPlacement
  <2>3. CASE StaysPut
    BY <2>3, StaysPutPlacement
  <2> QED BY <1>1, <2>1, <2>2, <2>3, NextStep
<1>2. CASE UNCHANGED vars
  <2>1. StaysPut
    BY <1>2 DEF vars, StaysPut
  <2> QED BY <2>1, StaysPutPlacement
<1> QED BY <1>1, <1>2

\* Hiding, measuring in two passes and moving one by one never leaves a window
\* where its Shift would not put it.
THEOREM PlacementImplemented == Spec => ImplementsPlacement
BY InitIInv, NextIInv, InitPlacement, NextPlacement, PTL DEF Spec, ImplementsPlacement, P!Spec
=============================================================================
