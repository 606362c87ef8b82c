------------------------------- MODULE Drawing -------------------------------
(***************************************************************************)
(* One window of the input method, down to the bytes of the frame buffer:   *)
(* Text (libucimf/src/shape.cpp) estimates how much room its glyphs need,   *)
(* the widgets (widget.cpp) lay out rectangles and texts, Widget::render    *)
(* draws them through the driver into a saved rectangle, Window::show and   *)
(* hide exchange it with the terminal's pixels.                             *)
(*                                                                         *)
(* Cwm has all three windows, their moves and their common screen, with a   *)
(* picture that always fits and a driver that copies exactly; this module   *)
(* is where that comes from.  It has one window, which does not move.       *)
(***************************************************************************)
EXTENDS FrameBuffer, SequencesExt

CONSTANTS
    FontWidth, FontHeight,  \* Font::width() and height()
    Border,                 \* the border of the widgets
    Glyphs,                 \* for each character its Font::Glyph or NoGlyph
    Texts,                  \* for each widget the contents it may be given:
                            \*   sequences of strings
    Positions               \* where the window may be

NoGlyph == [pitch |-> -1]

\* External: what Font::getGlyph may get from FreeType.  The pitch is the width of
\* the bitmap, the other numbers are rounded down from the metrics, and without
\* hinting neither is fitted to the other (font.cpp:249-250, 303-309).
ASSUME FontAssumption ==
    \A ch \in DOMAIN Glyphs : Glyphs[ch] # NoGlyph =>
      LET g == Glyphs[ch]
      IN  /\ {g.pitch, g.width, g.height} \subseteq Nat /\ {g.left, g.top} \subseteq Int
          /\ g.ink \subseteq [x : 0..(g.pitch - 1), y : 0..(g.height - 1)]

ASSUME SizesAssumption ==
    FontWidth \in Nat \ {0, 1} /\ FontHeight \in Nat \ {0} /\ Border \in Nat \ {0}

Widgets == {"stts", "prdt", "lkc"}

\* What a widget has rendered before it has rendered anything: no content.
NothingDrawn == <<"nothing">>

ASSUME TextsAssumption ==
    \A w \in Widgets : \A text \in Texts[w] :
      /\ text \in Seq(Seq(DOMAIN Glyphs)) /\ text # NothingDrawn
      /\ w = "stts" => Len(text) = 2

VARIABLES
    widget,         \* which of the three widgets the window is
    at,             \* Window::pos_x, pos_y
    content,        \* what the widget has been given
    drawn,          \* what it has rendered last
    win             \* [mem, size, visible, bg, fg]: the memory, and the window

vars == <<device, widget, at, content, drawn, win>>

-----------------------------------------------------------------------------
(* Text.                                                                     *)

Larger(a, b) == IF a > b THEN a ELSE b

\* Mutated form of the estimate: the bearing of the glyph is left out.
MeasuredWithoutLeft(ch) ==
    IF Glyphs[ch] = NoGlyph THEN FontWidth
    ELSE Larger(Glyphs[ch].width, FontWidth \div 2)

\* What Text::append_next adds to its estimate for a character ...
Measured(ch) ==
    IF Glyphs[ch] = NoGlyph THEN FontWidth
    ELSE Larger(Glyphs[ch].width, FontWidth \div 2) + Glyphs[ch].left

\* ... and how far GraphDev::OutChar moves on after drawing it.
Advance(ch) ==
    IF Glyphs[ch] = NoGlyph THEN FontWidth
    ELSE Larger(Glyphs[ch].pitch, FontWidth \div 2) + Glyphs[ch].left

\* How wide the first n of a sequence of widths are together, for each n.
Together(widths) ==
    LET total[n \in 0..Len(widths)] == IF n = 0 THEN 0 ELSE total[n - 1] + widths[n]
    IN  total

LineWidth(string) == Together([i \in DOMAIN string |-> Measured(string[i])])[Len(string)]

\* Text::append: the widest line, from 0 on, and the height of all lines.
TextSize(lines) ==
    [w |-> Max({0} \cup {LineWidth(lines[i]) : i \in DOMAIN lines}),
     h |-> FontHeight * Len(lines)]

\* The pixels GraphDev::OutChar sets for a character at a pixel.  Its assertion that
\* a character of the font's width is on the screen (graphdev.cpp:130-131), and the
\* one of PutPixel for each pixel, are left out: a program they stop draws no more.
InkOf(ch, x, y) ==
    IF Glyphs[ch] = NoGlyph THEN {}
    ELSE {[x |-> x + p.x, y |-> y + Glyphs[ch].top + p.y] : p \in Glyphs[ch].ink}

\* A condition on the font, which the code does not check: no glyph moves the pen
\* back, or on by more than was counted for it, and none sets a pixel outside the
\* width counted for it, above the border or below its line.
Fitted ==
    \A ch \in DOMAIN Glyphs : Glyphs[ch] # NoGlyph =>
      /\ Advance(ch) \in 0..Measured(ch)
      /\ \A p \in Glyphs[ch].ink :
           p.x <= Measured(ch) /\ Glyphs[ch].top + p.y \in -Border..FontHeight

Pen(string, j) == Together([i \in DOMAIN string |-> Advance(string[i])])[j - 1]

\* Text::draw: lines are one pixel closer than the font is high.
TextPoints(lines, x, y) ==
    UNION {UNION {InkOf(lines[i][j], x + Pen(lines[i], j), y + (i - 1) * (FontHeight - 1))
                    : j \in DOMAIN lines[i]}
             : i \in DOMAIN lines}

-----------------------------------------------------------------------------
(* What the widgets draw: a black rectangle of the size of the window, frames *)
(* and texts, relative to the window.                                        *)

\* Status::draw: two names side by side, each in its frame.
StatusLayout(names) ==
    LET t  == TextSize(<<names[1]>>)
        t2 == TextSize(<<names[2]>>)
        h  == Larger(t.h, t2.h) + Border
    IN  [size   |-> [w |-> t.w + t2.w + 2 * Border, h |-> h],
         frames |-> {[x |-> 0, y |-> 0, w |-> t.w + Border, h |-> h],
                     [x |-> Border + t.w, y |-> 0, w |-> t2.w + Border, h |-> h]},
         texts  |-> {[x |-> Border, lines |-> <<names[1]>>],
                     [x |-> 2 * Border + t.w, lines |-> <<names[2]>>]}]

\* Preedit::draw and LookupChoice::draw: lines in a frame, which has no border
\* when there are no lines.
LinesLayout(lines) ==
    LET t == TextSize(lines)
        b == IF lines = <<>> THEN 0 ELSE Border
        r == [x |-> 0, y |-> 0, w |-> t.w + b, h |-> t.h + b]
    IN  [size   |-> [w |-> r.w, h |-> r.h],
         frames |-> {r},
         texts  |-> {[x |-> b, lines |-> lines]}]

LayoutOf(w, text) == IF w = "stts" THEN StatusLayout(text) ELSE LinesLayout(text)

Layout(text) == LayoutOf(widget, text)

\* What a widget has been given before its first text, and after a clear.
Nothing(w) == IF w = "stts" THEN <<<<>>, <<>>>> ELSE <<>>

\* The rectangles handed to the drivers lie on the screen (fblinear16.cpp:100).
ASSUME ScreenAssumption ==
    \A w \in Widgets, p \in Positions, f \in Formats :
      \A text \in Texts[w] \union {Nothing(w)} :
      LET size == LayoutOf(w, text).size
      IN  /\ p.x \in Nat /\ p.x + size.w < f.xres
          /\ p.y \in Nat /\ p.y + size.h < f.yres

Rectangle(x, y, size) == [x |-> x, y |-> y, w |-> size.w, h |-> size.h]

Ink(layout) ==
    UNION {TextPoints(t.lines, at.x + t.x, at.y + Border)
             : t \in layout.texts}

\* The frames of a layout on the screen.
FramesOf(layout) ==
    {[r EXCEPT !.x = @ + at.x, !.y = @ + at.y] : r \in layout.frames}

\* The drawing pass.
Draw(mem, layout) ==
    LET filled == FillRect(mem, Rectangle(at.x, at.y, layout.size), "black")
        framed == PutPixels(filled, UNION {FramePoints(r) : r \in FramesOf(layout)}, "border")
    IN  PutPixels(framed, Ink(layout), "text")

-----------------------------------------------------------------------------
(* The window, as in Cwm but for its position.                               *)

Rect == Rectangle(at.x, at.y, win.size)

Saved(w) == SaveRect(w.mem, Rectangle(at.x, at.y, w.size))

Restored(w, buffer) ==
    IF buffer = NULL THEN w.mem
    ELSE RstrRect(w.mem, Rectangle(at.x, at.y, w.size), buffer)

\* Window::show: push_bg_buf, pop_fg_buf.
Shown(w) ==
    IF w.visible THEN w
    ELSE [w EXCEPT !.visible = TRUE, !.bg = Saved(w),
                   !.mem = Restored(w, w.fg), !.fg = NULL]

\* Window::hide: push_fg_buf, pop_bg_buf.
Hidden(w) ==
    IF ~w.visible THEN w
    ELSE [w EXCEPT !.visible = FALSE, !.fg = Saved(w),
                   !.mem = Restored(w, w.bg), !.bg = NULL]

\* Widget::render of a hidden window: measure (the window takes the size of the
\* layout), push_bg_buf, draw, push_fg_buf, pop_bg_buf.
Redrawn(w, text) ==
    LET layout   == Layout(text)
        measured == [w EXCEPT !.size = layout.size]
        pushed   == [measured EXCEPT !.bg = Saved(measured)]
        painted  == [pushed EXCEPT !.mem = Draw(pushed.mem, layout)]
        kept     == [painted EXCEPT !.fg = Saved(painted)]
    IN  [kept EXCEPT !.mem = Restored(kept, kept.bg), !.bg = NULL]

TermBytes == [a \in 0..(format.line_length * format.yres - 1) |-> <<"term", a>>]

Init ==
    /\ DeviceInit
    /\ widget \in Widgets
    /\ at \in Positions
    /\ content = Nothing(widget)
    /\ drawn = NothingDrawn
    /\ win = [mem |-> TermBytes, size |-> [w |-> 0, h |-> 0],
              visible |-> FALSE, bg |-> NULL, fg |-> NULL]

Open == OpenPort /\ UNCHANGED <<widget, at, content, drawn, win>>

\* Status::set_imf_name and set_im_name: new names, not yet drawn.
SetName ==
    /\ Opened
    /\ widget = "stts"
    /\ content' \in Texts["stts"] \ {content}
    /\ UNCHANGED <<device, widget, at, drawn, win>>

\* Preedit::append makes its one line longer, LookupChoice::append_next adds lines.
Extends(new, old) ==
    /\ new # old
    /\ old = <<>> \/ IF widget = "prdt" THEN IsPrefix(old[1], new[1]) ELSE IsPrefix(old, new)

AppendText ==
    /\ Opened
    /\ widget # "stts"
    /\ content' \in {text \in Texts[widget] : Extends(text, content)}
    /\ UNCHANGED <<device, widget, at, drawn, win>>

\* Widget::render of a text.
Renders(text) ==
    /\ win' = IF win.visible THEN Shown(Redrawn(Hidden(win), text)) ELSE Redrawn(win, text)
    /\ drawn' = text
    /\ content' = text
    /\ UNCHANGED <<device, widget, at>>

Render == Opened /\ Renders(content)

\* Preedit::clear and LookupChoice::clear.
Clear == Opened /\ widget # "stts" /\ content # Nothing(widget) /\ Renders(Nothing(widget))

\* Cwm::set_focus on this window.
SetFocus ==
    /\ Opened
    /\ win' = IF win.visible THEN Hidden(win) ELSE Shown(win)
    /\ UNCHANGED <<device, widget, at, content, drawn>>

Next == Open \/ SetName \/ AppendText \/ Render \/ Clear \/ SetFocus

Spec == Init /\ [][Next]_vars

-----------------------------------------------------------------------------
\* A buffer exists when there is something to put back, and has a byte for each
\* byte of the rectangle it will be put back to.
BufferFits(buffer) == DOMAIN buffer = 0..((win.size.h + 1) * RowBytes(Rect) - 1)

TypeOK ==
    /\ format \in Formats
    /\ ports \in 0..AllPorts
    /\ mNextLine \in Nat /\ mXres \in Nat
    /\ DOMAIN win.mem = DOMAIN TermBytes
    /\ win.visible \in BOOLEAN
    /\ IF win.visible THEN BufferFits(win.bg) ELSE win.bg = NULL
    /\ IF win.visible THEN win.fg = NULL
       ELSE BufferFits(win.fg) \/ (drawn = NothingDrawn /\ win.fg = NULL)

\* A hidden window has left nothing behind: every byte of the frame buffer, of the
\* columns beside the window and beyond the visible ones too, is the terminal's,
\* after any sequence of renderings and whatever the texts.
NoTrace == ~win.visible => win.mem = TermBytes

\* The colour of a pixel of the window, from the layout alone.
OnFrame(p, r) ==
    /\ p.x \in r.x..(r.x + r.w) /\ p.y \in r.y..(r.y + r.h)
    /\ p.x \in {r.x, r.x + r.w} \/ p.y \in {r.y, r.y + r.h}

PictureOf(layout) ==
    LET frames == FramesOf(layout)
        ink    == Ink(layout)
    IN  [p \in [x : at.x..(at.x + layout.size.w), y : at.y..(at.y + layout.size.h)] |->
           IF p \in ink THEN "text"
           ELSE IF \E r \in frames : OnFrame(p, r) THEN "border" ELSE "black"]

\* A shown window is on the screen as it was laid out, each pixel where the
\* hardware looks for it (by line_length, not by what the driver computed), and
\* not a byte of the terminal outside its rectangle has changed.
ShownExactly ==
    win.visible =>
      LET picture == IF drawn = NothingDrawn THEN <<>> ELSE PictureOf(Layout(drawn))
          pixel   == [a \in DOMAIN win.mem |->
                        [x |-> (a % format.line_length) \div BytesPerPixel,
                         y |-> a \div format.line_length]]
      IN  \A a \in DOMAIN win.mem :
            win.mem[a] =
              IF pixel[a] \in DOMAIN picture
              THEN <<picture[pixel[a]], (a % format.line_length) % BytesPerPixel>>
              ELSE TermBytes[a]
=============================================================================
