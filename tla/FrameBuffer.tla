---------------------------- MODULE FrameBuffer ----------------------------
(***************************************************************************)
(* The frame buffer as the display drivers see it (libucimf/display): a     *)
(* line of bytes, mapped by FBDev::TryOpen, in which FBLinear15/16, 24 and  *)
(* 32 find the pixel (x, y) at y * mNextLine + x * (bytes per pixel).       *)
(* GraphDev::DrawLine and DrawRect are built on their PutPixel.             *)
(*                                                                         *)
(* A drawing operation is an operator on the contents of the memory, a      *)
(* function from addresses to bytes.  A byte of a colour is <<colour, k>>,  *)
(* the k-th of its pixel: what the colour tables compute is left out, which *)
(* bytes a store touches is not.                                            *)
(***************************************************************************)
EXTENDS Integers, FiniteSetsExt

CONSTANTS
    Formats         \* what the kernel may report: [bits_per_pixel, green,
                    \*   xres, yres, line_length], see FBIOGET_*SCREENINFO

\* The kernel's lines hold their pixels, and an integral number of them.
ASSUME FormatsAssumption ==
    \A f \in Formats :
      /\ f.bits_per_pixel \in {16, 24, 32}
      /\ f.xres \in Nat \ {0} /\ f.yres \in Nat \ {0} /\ f.line_length \in Nat
      /\ f.line_length >= f.xres * (f.bits_per_pixel \div 8)
      /\ f.line_length % (f.bits_per_pixel \div 8) = 0

VARIABLES
    format,         \* the screen the process runs on
    ports,          \* how many GraphPorts have been constructed
    mNextLine,      \* FBDev::mNextLine, bytes from a line to the next
    mXres           \* GraphDev::mXres, 0 until the first open

device == <<format, ports, mNextLine, mXres>>

\* ucimf_init constructs the three widgets' windows and the window manager,
\* each with a GraphPort, before an engine can draw.
AllPorts == 4

\* FBDev::LinearSet: the driver for the format, by its bytes per pixel and
\* whether its green has five bits.
Driver(f) ==
    CASE f.bits_per_pixel = 16 -> IF f.green = 5 THEN "FBLinear15" ELSE "FBLinear16"
      [] f.bits_per_pixel = 24 -> "FBLinear24"
      [] f.bits_per_pixel = 32 -> "FBLinear32"

BytesPerPixel ==
    CASE Driver(format) \in {"FBLinear15", "FBLinear16"} -> 2
      [] Driver(format) = "FBLinear24" -> 3
      [] Driver(format) = "FBLinear32" -> 4

DeviceInit ==
    /\ format \in Formats
    /\ ports = 0
    /\ mNextLine = 0
    /\ mXres = 0

\* Mutated form: mXres is taken from the visible columns.
OpenVisibleColumns ==
    /\ ports < AllPorts
    /\ ports' = ports + 1
    /\ mNextLine' = IF mNextLine # 0 THEN mNextLine ELSE mXres * BytesPerPixel
    /\ mXres' = format.xres
    /\ UNCHANGED format

\* GraphPort::GraphPort, GraphDev::Open, FBDev::TryOpen.  The driver is created
\* first, and its constructor computes mNextLine from the mXres of the open
\* before: 0 the first time.  The assignment of line_length at the end belongs
\* to the test of a failed mmap (fbdev.cpp:133) and is never executed.
OpenPort ==
    /\ ports < AllPorts
    /\ ports' = ports + 1
    /\ mNextLine' = IF mNextLine # 0 THEN mNextLine ELSE mXres * BytesPerPixel
    /\ mXres' = format.line_length \div (format.bits_per_pixel \div 8)
    /\ UNCHANGED format

Opened == ports = AllPorts

-----------------------------------------------------------------------------
(* Stores.                                                                   *)

Address(x, y) == mNextLine * y + x * BytesPerPixel

\* Store rows[y], a function from 0.. to bytes, from the pixel (x, y) on, top
\* to bottom: where two rows meet the lower one was written last.
Store(mem, x, rows) ==
    [a \in DOMAIN mem |->
       LET hits == {y \in DOMAIN rows : (a - Address(x, y)) \in DOMAIN rows[y]}
       IN  IF hits = {} THEN mem[a]
           ELSE rows[Max(hits)][a - Address(x, Max(hits))]]

\* The first n bytes of a row of pixels of one colour.
ColourBytes(colour, n) == [k \in 0..(n - 1) |-> <<colour, k % BytesPerPixel>>]

\* One row of FillRect: words of two pixels and one more.
FillRow16(colour, width) ==
    ColourBytes(colour, (width \div 2) * 4 + (IF width % 2 = 1 THEN 2 ELSE 0))

\* Three words for four pixels (store4pixels), six bytes for two, three for one.
FillRow24(colour, width) ==
    ColourBytes(colour, (width \div 4) * 12
                          + (IF (width \div 2) % 2 = 1 THEN 6 ELSE 0)
                          + (IF width % 2 = 1 THEN 3 ELSE 0))

\* A word for each pixel.
FillRow32(colour, width) == ColourBytes(colour, width * 4)

FillRow(colour, width) ==
    CASE BytesPerPixel = 2 -> FillRow16(colour, width)
      [] BytesPerPixel = 3 -> FillRow24(colour, width)
      [] BytesPerPixel = 4 -> FillRow32(colour, width)

\* GraphPort::FillRect passes x + w and y + h, and the drivers include both.
FillRect(mem, r, colour) ==
    Store(mem, r.x, [y \in r.y..(r.y + r.h) |-> FillRow(colour, r.w + 1)])

\* What PutPixel writes.  The one of FBLinear24 joins the two lower bytes with
\* (c << 8) & (c >> 8): a zero, and what the lowest and the highest byte share.
Pixel24(colour) ==
    [k \in 0..2 |-> IF k = 0 THEN <<"zero", 0>>
                    ELSE IF k = 1 THEN <<colour, "0 and 2">> ELSE <<colour, 2>>]

PixelOf(colour) ==
    IF BytesPerPixel = 3 THEN Pixel24(colour) ELSE ColourBytes(colour, BytesPerPixel)

\* PutPixel for each of a set of points.
PutPixels(mem, points, colour) ==
    [a \in DOMAIN mem |->
       LET hits == {p \in points : (a - Address(p.x, p.y)) \in 0..(BytesPerPixel - 1)}
       IN  IF hits = {} THEN mem[a]
           ELSE LET p == CHOOSE p \in hits : TRUE
                IN  PixelOf(colour)[a - Address(p.x, p.y)]]

-----------------------------------------------------------------------------
(* Saved rectangles.                                                         *)

NULL == <<>>

RowBytes(r) == (r.w + 1) * BytesPerPixel

\* Mutated form of SaveRect: the bottom row is not saved.
SaveRectShort(mem, r) ==
    [i \in 0..(r.h * RowBytes(r) - 1) |->
       mem[Address(r.x, r.y + (i \div RowBytes(r))) + (i % RowBytes(r))]]

\* SaveRect: a new buffer with the rows one after another.
SaveRect(mem, r) ==
    [i \in 0..((r.h + 1) * RowBytes(r) - 1) |->
       mem[Address(r.x, r.y + (i \div RowBytes(r))) + (i % RowBytes(r))]]

\* A buffer read beyond its end gives what the heap has there.
ByteAt(buffer, i) == IF i \in DOMAIN buffer THEN buffer[i] ELSE <<"heap", 0>>

\* RstrRect of FBLinear24 copies byte by byte with 16 bit stores (fb_writew):
\* each row spills one byte to the right, taken from the row below it.
RestoredBytes24(r) == RowBytes(r) + 1

RestoredBytes(r) == IF BytesPerPixel = 3 THEN RestoredBytes24(r) ELSE RowBytes(r)

\* RstrRect; it frees the buffer, which is for the caller to note.
RstrRect(mem, r, buffer) ==
    Store(mem, r.x, [y \in r.y..(r.y + r.h) |->
                       [k \in 0..(RestoredBytes(r) - 1) |->
                          ByteAt(buffer, (y - r.y) * RowBytes(r) + k)]])

-----------------------------------------------------------------------------
(* Lines.                                                                    *)

Distance(a, b) == IF a < b THEN b - a ELSE a - b
Direction(a, b) == IF b >= a THEN 1 ELSE -1

\* GraphDev::DrawLine: the points from one end to the other, a step of the longer
\* axis at a time; d is twice the distance from the ideal line.
LinePoints(x1, y1, x2, y2) ==
    LET ax   == 2 * Distance(x1, x2)
        ay   == 2 * Distance(y1, y2)
        flat == ax > ay
        far  == IF flat THEN ax ELSE ay
        near == IF flat THEN ay ELSE ax
        sx   == Direction(x1, x2)
        sy   == Direction(y1, y2)
        step[k \in 0..(far \div 2)] ==
          IF k = 0 THEN [x |-> x1, y |-> y1, d |-> near - (far \div 2)]
          ELSE LET p    == step[k - 1]
                   turn == p.d > 0 \/ (p.d = 0 /\ (IF flat THEN sx ELSE sy) = 1)
               IN  [x |-> IF flat \/ turn THEN p.x + sx ELSE p.x,
                    y |-> IF ~flat \/ turn THEN p.y + sy ELSE p.y,
                    d |-> p.d + near - (IF turn THEN far ELSE 0)]
    IN  {[x |-> step[k].x, y |-> step[k].y] : k \in 0..(far \div 2)}

\* GraphDev::DrawRect: four lines.
FramePoints(r) ==
    LinePoints(r.x, r.y, r.x + r.w, r.y)
      \cup LinePoints(r.x, r.y, r.x, r.y + r.h)
      \cup LinePoints(r.x, r.y + r.h, r.x + r.w, r.y + r.h)
      \cup LinePoints(r.x + r.w, r.y, r.x + r.w, r.y + r.h)

DrawRect(mem, r, colour) == PutPixels(mem, FramePoints(r), colour)
=============================================================================
