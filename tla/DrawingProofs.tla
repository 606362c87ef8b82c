--------------------------- MODULE DrawingProofs ---------------------------
(***************************************************************************)
(* Proofs about Drawing, and about the drivers it draws with.               *)
(*                                                                         *)
(* An address belongs to the byte Part(a) of the pixel Pixel(a) (PixelIs),  *)
(* once the second open has set mNextLine to line_length (OpenDevice).  In  *)
(* these coordinates the bytes of a row are an interval (RowIs), so that    *)
(* each store has a value pixel by pixel: FillIs, PutIs, and RstrIs, which  *)
(* says that RstrRect puts back what SaveRect has read.  A frame is the     *)
(* edge of its rectangle (FrameIs), the pixels of a text of a font that is   *)
(* Fitted stay within its estimate (TextFits), and what a widget lays out   *)
(* stays within the size it asks for (LayoutIs).  So a drawing is the       *)
(* picture of its layout inside the window's rectangle and leaves the rest  *)
(* alone (DrawIs); of any other font it leaves all but pixels of the text   *)
(* alone (DrawOutside).                                                    *)
(*                                                                         *)
(* The predicate Sound(w, text) of a window says that, shown, it is on top  *)
(* of the terminal with the picture of text and saves the terminal's        *)
(* pixels, and hidden it saves itself.  HideSound, ShowSound and            *)
(* RedrawSound keep it; IInv adds the device and the contents.  Tidy and    *)
(* AnyInv are the same for any font.                                       *)
(*                                                                         *)
(* The hypothesis Exact leaves 24 bits out: that driver's RstrRect is not   *)
(* exact, and NoTrace does not hold for it.  Fitted is a hypothesis of the  *)
(* theorems that need it, and no assumption.                               *)
(***************************************************************************)
EXTENDS Drawing, FiniteSetTheorems, SequenceTheorems, TLAPS

-----------------------------------------------------------------------------
(***************************************************************************)
(* Numbers.                                                                *)
(***************************************************************************)

\* Induction, for a set: a number outside would leave finitely many inside, which
\* adding one maps into fewer.
LEMMA Induction ==
    ASSUME NEW S \in SUBSET Nat, 0 \in S, \A n \in S : n + 1 \in S
    PROVE  \A n \in Nat : n \in S
<1> SUFFICES ASSUME NEW m \in Nat, m \notin S PROVE FALSE
  OBVIOUS
<1> DEFINE A == {n \in S : n <= m}
           f == [n \in A |-> n + 1]
<1>1. A \subseteq 0..m
  <2>1. ASSUME NEW n \in S, n <= m PROVE n \in 0..m
    <3>1. n \in Nat
      OBVIOUS
    <3> QED BY <2>1, <3>1
  <2> QED BY <2>1
<1>2. IsFiniteSet(A)
  <2>1. IsFiniteSet(0..m)
    BY FS_Interval
  <2> HIDE DEF A
  <2> QED BY <1>1, <2>1, FS_Subset
<1>3. 0 \in A
  OBVIOUS
<1>4. \A n \in A : n + 1 \in A \ {0}
  BY <1>1
<1>5. \A n \in A : n \in Int
  BY <1>1
<1> HIDE DEF A
<1>6. IsFiniteSet(A \ {0}) /\ Cardinality(A \ {0}) = Cardinality(A) - 1 /\ Cardinality(A) \in Nat
  BY <1>2, <1>3, FS_RemoveElement, FS_CardinalityType
<1>7. f \in Injection(A, A \ {0})
  BY <1>4, <1>5 DEF Injection, IsInjective
<1>8. Cardinality(A) <= Cardinality(A \ {0})
  BY <1>6, <1>7, FS_Injection
<1> QED BY <1>6, <1>8

LEMMA RowsDiffer ==
    ASSUME NEW n \in Nat \ {0}, NEW q \in Int, NEW p \in Int,
           NEW k \in 0..(n - 1), NEW l \in 0..(n - 1), n * q + k = n * p + l
    PROVE  q = p /\ k = l
<1>1. n * (q - p) = l - k
  OBVIOUS
<1>2. q - p < 1
  <2>1. ASSUME q - p >= 1 PROVE n * (q - p) >= n
    BY <2>1
  <2> QED BY <1>1, <2>1
<1>3. p - q < 1
  <2>1. n * (p - q) = k - l
    OBVIOUS
  <2>2. ASSUME p - q >= 1 PROVE n * (p - q) >= n
    BY <2>2
  <2> QED BY <2>1, <2>2
<1>4. q = p
  BY <1>2, <1>3
<1> QED BY <1>4

LEMMA DivMod ==
    ASSUME NEW n \in Nat \ {0}, NEW a \in Int
    PROVE  /\ a \div n \in Int /\ a % n \in 0..(n - 1)
           /\ a = n * (a \div n) + (a % n)
           /\ a \in Nat => a \div n \in Nat
OBVIOUS

\* Dividing what has been put together gives the parts.
LEMMA DivModOf ==
    ASSUME NEW n \in Nat \ {0}, NEW q \in Int, NEW k \in 0..(n - 1)
    PROVE  (n * q + k) \div n = q /\ (n * q + k) % n = k
<1> DEFINE a == n * q + k
<1>1. a \in Int
  OBVIOUS
<1>2. /\ a \div n \in Int /\ a % n \in 0..(n - 1)
      /\ n * q + k = n * (a \div n) + (a % n)
  BY <1>1, DivMod
<1> HIDE DEF a
<1>3. a \div n = q /\ a % n = k
  BY <1>2, RowsDiffer
<1> QED BY <1>3 DEF a

\* A product does not exceed that of a larger factor.
LEMMA ProductGrows == \A n \in Nat : \A i, j \in Int : i <= j => n * i <= n * j
<1> SUFFICES ASSUME NEW n \in Nat, NEW i \in Int, NEW j \in Int, i <= j PROVE n * i <= n * j
  OBVIOUS
<1>1. n * (j - i) >= 0
  OBVIOUS
<1> QED BY <1>1
-----------------------------------------------------------------------------
(***************************************************************************)
(* The device, and where its pixels are.                                   *)
(***************************************************************************)

\* The driver for 24 bits does not restore what it has saved (drawing24).
Exact == \A f \in Formats : f.bits_per_pixel # 24

Columns == format.line_length \div BytesPerPixel

LEMMA FormatFacts ==
    ASSUME Exact, format \in Formats
    PROVE  /\ BytesPerPixel \in {2, 4} /\ BytesPerPixel = format.bits_per_pixel \div 8
           /\ format.line_length \in Nat \ {0} /\ format.line_length = BytesPerPixel * Columns
           /\ Columns \in Nat \ {0} /\ Columns >= format.xres
           /\ format.yres \in Nat \ {0}
<1>1. format.bits_per_pixel \in {16, 32}
  BY FormatsAssumption DEF Exact
<1>2. BytesPerPixel \in {2, 4} /\ BytesPerPixel = format.bits_per_pixel \div 8
  BY <1>1 DEF BytesPerPixel, Driver
<1>3. /\ format.xres \in Nat \ {0} /\ format.yres \in Nat \ {0} /\ format.line_length \in Nat
      /\ format.line_length >= format.xres * BytesPerPixel
      /\ format.line_length % BytesPerPixel = 0
  BY <1>2, FormatsAssumption
<1> DEFINE n == format.line_length
           b == BytesPerPixel
<1> HIDE DEF n, b
<1>4. n \div b \in Nat /\ n = b * (n \div b)
  <2>1. b \in Nat \ {0} /\ n \in Nat /\ n % b = 0
    BY <1>2, <1>3 DEF n, b
  <2> QED BY <2>1, DivMod
<1>5. n \div b >= format.xres
  BY <1>2, <1>3, <1>4 DEF n, b
<1> QED BY <1>2, <1>3, <1>4, <1>5 DEF Columns, n, b

\* The first two of the four opens set mXres and mNextLine for good.
DeviceInv ==
    /\ format \in Formats
    /\ ports \in 0..AllPorts
    /\ mXres = IF ports = 0 THEN 0 ELSE Columns
    /\ mNextLine = IF ports <= 1 THEN 0 ELSE format.line_length

Ready == Exact /\ DeviceInv /\ Opened

LEMMA OpenDevice ==
    ASSUME Exact, DeviceInv, OpenPort
    PROVE  DeviceInv'
<1>1. /\ format' = format /\ BytesPerPixel' = BytesPerPixel /\ Columns' = Columns
  BY DEF OpenPort, BytesPerPixel, Driver, Columns
<1>2. ports \in 0..3 /\ ports' = ports + 1
  BY DEF OpenPort, DeviceInv, AllPorts
<1>3. mXres' = Columns
  BY FormatFacts DEF OpenPort, Columns, DeviceInv
<1>4. mNextLine' = IF ports' <= 1 THEN 0 ELSE format.line_length
  <2>1. CASE ports = 0
    BY <1>2, <2>1, FormatFacts DEF OpenPort, DeviceInv
  <2>2. CASE ports = 1
    <3>1. mNextLine = 0 /\ mXres = Columns
      BY <2>2 DEF DeviceInv
    <3>2. mNextLine' = Columns * BytesPerPixel
      BY <3>1 DEF OpenPort
    <3> QED BY <1>2, <2>2, <3>2, FormatFacts DEF DeviceInv
  <2>3. CASE ports \in {2, 3}
    BY <1>2, <2>3, FormatFacts DEF OpenPort, DeviceInv
  <2> QED BY <1>2, <2>1, <2>2, <2>3
<1> QED BY <1>1, <1>2, <1>3, <1>4 DEF DeviceInv, AllPorts

\* The pixel an address belongs to, and the byte's place in it.
Pixel(a) == [x |-> (a % format.line_length) \div BytesPerPixel, y |-> a \div format.line_length]
Part(a) == (a % format.line_length) % BytesPerPixel

LEMMA PixelIs ==
    ASSUME Ready, NEW a \in Nat
    PROVE  /\ Pixel(a).x \in 0..(Columns - 1) /\ Pixel(a).y \in Nat
           /\ Part(a) \in 0..(BytesPerPixel - 1)
           /\ a = Address(Pixel(a).x, Pixel(a).y) + Part(a)
<1>1. /\ BytesPerPixel \in {2, 4} /\ format.line_length \in Nat \ {0}
      /\ format.line_length = BytesPerPixel * Columns /\ Columns \in Nat \ {0}
      /\ mNextLine = format.line_length
  BY FormatFacts DEF Ready, DeviceInv, Opened, AllPorts
<1> DEFINE n == format.line_length
           b == BytesPerPixel
           q == a \div n
           m == a % n
           p == m \div b
           k == m % b
<1> HIDE DEF n, b
<1>2. q \in Nat /\ m \in 0..(n - 1) /\ a = n * q + m
  <2>1. n \in Nat \ {0} /\ a \in Int
    BY <1>1 DEF n
  <2> QED BY <2>1, DivMod
<1> HIDE DEF q, m
<1>3. p \in Nat /\ k \in 0..(b - 1) /\ m = b * p + k
  <2>1. b \in Nat \ {0} /\ m \in Int /\ m \in Nat
    BY <1>1, <1>2 DEF n, b
  <2> QED BY <2>1, DivMod
<1> HIDE DEF p, k
<1>4. p <= Columns - 1
  BY <1>1, <1>2, <1>3 DEF n, b
<1>5. a = (n * q + p * b) + k
  <2>1. n * q \in Int /\ p * b \in Int /\ p * b = b * p
    BY <1>1, <1>2, <1>3 DEF n, b
  <2> QED BY <1>1, <1>2, <1>3, <2>1 DEF n
<1>6. Pixel(a).x = p /\ Pixel(a).y = q /\ Part(a) = k
  BY DEF Pixel, Part, p, k, q, m, n, b
<1>7. Address(p, q) = n * q + p * b
  BY <1>1 DEF Address, n, b
<1> QED BY <1>2, <1>3, <1>4, <1>5, <1>6, <1>7, <1>1 DEF n, b

\* A row of pixels is a row of bytes.
LEMMA RowIs ==
    ASSUME Ready, NEW a \in Nat, NEW x \in Nat, NEW w \in Nat, x + w < Columns, NEW y \in Int
    PROVE  /\ a - Address(x, y) \in 0..((w + 1) * BytesPerPixel - 1)
                <=> Pixel(a).y = y /\ Pixel(a).x \in x..(x + w)
           /\ Pixel(a).y = y => a - Address(x, y) = BytesPerPixel * (Pixel(a).x - x) + Part(a)
<1>1. /\ BytesPerPixel \in {2, 4} /\ format.line_length \in Nat \ {0}
      /\ format.line_length = BytesPerPixel * Columns /\ Columns \in Nat \ {0}
      /\ mNextLine = format.line_length
  BY FormatFacts DEF Ready, DeviceInv, Opened, AllPorts
<1> DEFINE p == Pixel(a).x
           q == Pixel(a).y
           k == Part(a)
           n == format.line_length
<1>2. /\ p \in 0..(Columns - 1) /\ q \in Nat /\ k \in 0..(BytesPerPixel - 1)
      /\ a = (n * q + p * BytesPerPixel) + k
  BY <1>1, PixelIs DEF Address
<1>3. Address(x, y) = n * y + x * BytesPerPixel
  BY <1>1 DEF Address
<1> HIDE DEF p, q, k, n
<1>4. n \in Nat \ {0} /\ n = BytesPerPixel * Columns
  BY <1>1 DEF n
<1>5. n * y \in Int /\ n * q \in Int
  BY <1>2, <1>4
<1>6. ASSUME q = y PROVE a - Address(x, y) = BytesPerPixel * (p - x) + k
  BY <1>1, <1>2, <1>3, <1>5, <1>6
<1>7. ASSUME q = y, p \in x..(x + w)
      PROVE  a - Address(x, y) \in 0..((w + 1) * BytesPerPixel - 1)
  BY <1>1, <1>2, <1>6, <1>7
<1>8. ASSUME a - Address(x, y) \in 0..((w + 1) * BytesPerPixel - 1)
      PROVE  q = y /\ p \in x..(x + w)
  <2> DEFINE l == (a - Address(x, y)) + x * BytesPerPixel
             m == p * BytesPerPixel + k
  <2>1. l \in 0..(n - 1) /\ m \in 0..(n - 1)
    BY <1>1, <1>2, <1>4, <1>8
  <2>2. n * q + m = n * y + l
    BY <1>1, <1>2, <1>3, <1>5
  <2> HIDE DEF l, m
  <2>3. q = y /\ m = l
    BY <1>2, <1>4, <2>1, <2>2, RowsDiffer
  <2> QED BY <1>1, <1>2, <1>8, <2>3 DEF l, m
<1> QED BY <1>6, <1>7, <1>8 DEF p, q, k

-----------------------------------------------------------------------------
(***************************************************************************)
(* What the stores do to a pixel.                                          *)
(***************************************************************************)

Addresses == 0..(format.line_length * format.yres - 1)
IsMemory(mem) == mem = [a \in Addresses |-> mem[a]]

\* A rectangle of the drivers reaches from x to x + w, and from y to y + h.
IsRect(r) == r.x \in Nat /\ r.y \in Nat /\ r.w \in Nat /\ r.h \in Nat /\ r.x + r.w < Columns
In(p, r) == p.x \in r.x..(r.x + r.w) /\ p.y \in r.y..(r.y + r.h)
Places(r) == r.y..(r.y + r.h)

LEMMA AddressesNat == DeviceInv /\ Exact => Addresses \subseteq Nat
BY DEF Addresses

LEMMA StoreIs ==
    ASSUME Ready, NEW mem, IsMemory(mem), NEW r, IsRect(r),
           NEW rows, DOMAIN rows = Places(r),
           \A y \in Places(r) : DOMAIN rows[y] = 0..(RowBytes(r) - 1)
    PROVE  LET new == Store(mem, r.x, rows)
           IN  /\ IsMemory(new)
               /\ \A a \in Addresses :
                    new[a] = IF In(Pixel(a), r)
                             THEN rows[Pixel(a).y][a - Address(r.x, Pixel(a).y)]
                             ELSE mem[a]
<1> DEFINE new == Store(mem, r.x, rows)
           hits(a) == {y \in DOMAIN rows : (a - Address(r.x, y)) \in DOMAIN rows[y]}
<1>1. /\ DOMAIN mem = Addresses
      /\ new = [a \in Addresses |->
                  IF hits(a) = {} THEN mem[a]
                  ELSE rows[Max(hits(a))][a - Address(r.x, Max(hits(a)))]]
  <2>1. DOMAIN mem = Addresses
    BY DEF IsMemory
  <2> QED BY <2>1 DEF Store
<1>2. \A a \in Addresses : a \in Nat /\ Pixel(a).y \in Nat
  BY AddressesNat, PixelIs DEF Ready
<1>3. ASSUME NEW a \in Addresses
      PROVE  \A y \in DOMAIN rows : y \in hits(a) <=> Pixel(a).y = y /\ In(Pixel(a), r)
  <2> SUFFICES ASSUME NEW y \in DOMAIN rows
               PROVE  y \in hits(a) <=> Pixel(a).y = y /\ In(Pixel(a), r)
    OBVIOUS
  <2>1. y \in Places(r) /\ y \in Int
    BY DEF Places, IsRect
  <2>2. y \in hits(a) <=> a - Address(r.x, y) \in 0..((r.w + 1) * BytesPerPixel - 1)
    BY <2>1 DEF RowBytes
  <2>3. a - Address(r.x, y) \in 0..((r.w + 1) * BytesPerPixel - 1)
          <=> Pixel(a).y = y /\ Pixel(a).x \in r.x..(r.x + r.w)
    BY <1>2, <2>1, RowIs DEF IsRect
  <2> QED BY <2>1, <2>2, <2>3 DEF In, Places
<1>4. ASSUME NEW a \in Addresses, In(Pixel(a), r)
      PROVE  new[a] = rows[Pixel(a).y][a - Address(r.x, Pixel(a).y)]
  <2>1. Pixel(a).y \in DOMAIN rows
    BY <1>4 DEF In, Places
  <2>2. hits(a) = {Pixel(a).y}
    BY <1>3, <1>4, <2>1
  <2>3. Max({Pixel(a).y}) = Pixel(a).y
    BY <1>2 DEF Max
  <2> HIDE DEF hits
  <2> QED BY <1>1, <2>2, <2>3
<1>5. ASSUME NEW a \in Addresses, ~In(Pixel(a), r)
      PROVE  new[a] = mem[a]
  <2>1. hits(a) = {}
    BY <1>3, <1>5
  <2> HIDE DEF hits
  <2> QED BY <1>1, <2>1
<1>6. IsMemory(new)
  BY <1>1 DEF IsMemory
<1> QED BY <1>4, <1>5, <1>6

\* The place of a byte in its row of a rectangle.
LEMMA PlaceInRow ==
    ASSUME Ready, NEW a \in Addresses, NEW r, IsRect(r), In(Pixel(a), r)
    PROVE  LET k == a - Address(r.x, Pixel(a).y)
           IN  k \in 0..(RowBytes(r) - 1) /\ k % BytesPerPixel = Part(a)
<1> DEFINE k == a - Address(r.x, Pixel(a).y)
<1>1. a \in Nat
  BY AddressesNat DEF Ready
<1>2. /\ Pixel(a).x \in Nat /\ Pixel(a).y \in Int
      /\ Part(a) \in 0..(BytesPerPixel - 1)
      /\ BytesPerPixel \in {2, 4}
  BY <1>1, PixelIs, FormatFacts DEF Ready, DeviceInv
<1>3. k = BytesPerPixel * (Pixel(a).x - r.x) + Part(a) /\ k \in 0..(RowBytes(r) - 1)
  BY <1>1, <1>2, RowIs DEF IsRect, In, RowBytes
<1>4. (BytesPerPixel * (Pixel(a).x - r.x) + Part(a)) % BytesPerPixel = Part(a)
  <2> DEFINE b == BytesPerPixel
             q == Pixel(a).x - r.x
             l == Part(a)
  <2>1. b \in Nat \ {0} /\ q \in Int /\ l \in 0..(b - 1)
    BY <1>2 DEF IsRect
  <2> HIDE DEF b, q, l
  <2>2. (b * q + l) % b = l
    BY <2>1, DivModOf
  <2> QED BY <2>2 DEF b, q, l
<1> QED BY <1>3, <1>4

\* FillRect fills its rectangle, the last row and column included.
LEMMA FillIs ==
    ASSUME Ready, NEW mem, IsMemory(mem), NEW r, IsRect(r), NEW colour
    PROVE  LET new == FillRect(mem, r, colour)
           IN  /\ IsMemory(new)
               /\ \A a \in Addresses :
                    new[a] = IF In(Pixel(a), r) THEN <<colour, Part(a)>> ELSE mem[a]
<1> DEFINE n == RowBytes(r)
           rows == [y \in r.y..(r.y + r.h) |-> FillRow(colour, r.w + 1)]
<1>1. BytesPerPixel \in {2, 4}
  BY FormatFacts DEF Ready, DeviceInv
<1>2. FillRow(colour, r.w + 1) = ColourBytes(colour, n)
  <2>1. CASE BytesPerPixel = 2
    <3>1. ((r.w + 1) \div 2) * 4 + (IF (r.w + 1) % 2 = 1 THEN 2 ELSE 0) = (r.w + 1) * 2
      BY DEF IsRect
    <3> QED BY <2>1, <3>1 DEF FillRow, FillRow16, RowBytes
  <2>2. CASE BytesPerPixel = 4
    BY <2>2 DEF FillRow, FillRow32, RowBytes
  <2> QED BY <1>1, <2>1, <2>2
<1>3. /\ DOMAIN rows = Places(r)
      /\ \A y \in Places(r) : rows[y] = [k \in 0..(n - 1) |-> <<colour, k % BytesPerPixel>>]
  BY <1>2 DEF Places, ColourBytes
<1> HIDE DEF rows
<1>4. LET new == Store(mem, r.x, rows)
      IN  /\ IsMemory(new)
          /\ \A a \in Addresses :
               new[a] = IF In(Pixel(a), r)
                        THEN rows[Pixel(a).y][a - Address(r.x, Pixel(a).y)]
                        ELSE mem[a]
  BY <1>3, StoreIs
<1>5. ASSUME NEW a \in Addresses, In(Pixel(a), r)
      PROVE  rows[Pixel(a).y][a - Address(r.x, Pixel(a).y)] = <<colour, Part(a)>>
  <2>1. Pixel(a).y \in Places(r)
    BY <1>5 DEF In, Places
  <2>2. LET k == a - Address(r.x, Pixel(a).y)
        IN  k \in 0..(n - 1) /\ k % BytesPerPixel = Part(a)
    BY <1>5, PlaceInRow
  <2> QED BY <1>3, <2>1, <2>2
<1> QED BY <1>4, <1>5 DEF FillRect, rows

\* PutPixel stores the bytes of one pixel.
LEMMA PutIs ==
    ASSUME Ready, NEW mem, IsMemory(mem), NEW colour,
           NEW points, points \subseteq [x : 0..(Columns - 1), y : Nat]
    PROVE  LET new == PutPixels(mem, points, colour)
           IN  /\ IsMemory(new)
               /\ \A a \in Addresses :
                    new[a] = IF Pixel(a) \in points THEN <<colour, Part(a)>> ELSE mem[a]
<1> DEFINE new == PutPixels(mem, points, colour)
           hits(a) == {p \in points : (a - Address(p.x, p.y)) \in 0..(BytesPerPixel - 1)}
<1>1. BytesPerPixel \in {2, 4}
  BY FormatFacts DEF Ready, DeviceInv
<1>2. PixelOf(colour) = [k \in 0..(BytesPerPixel - 1) |-> <<colour, k % BytesPerPixel>>]
  BY <1>1 DEF PixelOf, ColourBytes
<1>3. ASSUME NEW a \in Addresses
      PROVE  /\ hits(a) = IF Pixel(a) \in points THEN {Pixel(a)} ELSE {}
             /\ a - Address(Pixel(a).x, Pixel(a).y) = Part(a)
             /\ Part(a) \in 0..(BytesPerPixel - 1)
  <2>1. a \in Nat
    BY AddressesNat DEF Ready
  <2>2. /\ Pixel(a).x \in 0..(Columns - 1) /\ Pixel(a).y \in Nat
        /\ Part(a) \in 0..(BytesPerPixel - 1)
        /\ Address(Pixel(a).x, Pixel(a).y) \in Int
        /\ a = Address(Pixel(a).x, Pixel(a).y) + Part(a)
    <3>1. mNextLine \in Int
      BY FormatFacts DEF Ready, DeviceInv, Opened, AllPorts
    <3> QED BY <1>1, <2>1, <3>1, PixelIs DEF Address
  <2>3. ASSUME NEW p \in points PROVE p \in hits(a) <=> p = Pixel(a)
    <3>1. p.x \in 0..(Columns - 1) /\ p.y \in Nat /\ p = [x |-> p.x, y |-> p.y]
      OBVIOUS
    <3>2. p.x \in Nat /\ p.x + 0 < Columns /\ p.y \in Int /\ Columns \in Nat
      BY <3>1, FormatFacts DEF Ready, DeviceInv
    <3>3. a - Address(p.x, p.y) \in 0..((0 + 1) * BytesPerPixel - 1)
            <=> Pixel(a).y = p.y /\ Pixel(a).x \in p.x..(p.x + 0)
      BY <2>1, <3>2, RowIs
    <3>4. p = Pixel(a) <=> Pixel(a).y = p.y /\ Pixel(a).x = p.x
      BY <3>1 DEF Pixel
    <3> QED BY <1>1, <2>2, <3>1, <3>2, <3>3, <3>4
  <2>4. hits(a) = IF Pixel(a) \in points THEN {Pixel(a)} ELSE {}
    BY <2>3
  <2> QED BY <2>2, <2>4
<1>4. new = [a \in Addresses |->
               IF hits(a) = {} THEN mem[a]
               ELSE LET p == CHOOSE p \in hits(a) : TRUE
                    IN  PixelOf(colour)[a - Address(p.x, p.y)]]
  <2>1. DOMAIN mem = Addresses
    BY DEF IsMemory
  <2> QED BY <2>1 DEF PutPixels
<1> HIDE DEF hits, new
<1>5. ASSUME NEW a \in Addresses, Pixel(a) \in points
      PROVE  new[a] = <<colour, Part(a)>>
  <2>1. hits(a) = {Pixel(a)} /\ (CHOOSE p \in {Pixel(a)} : TRUE) = Pixel(a)
    BY <1>3, <1>5
  <2>2. new[a] = PixelOf(colour)[a - Address(Pixel(a).x, Pixel(a).y)]
    BY <1>4, <2>1
  <2>3. Part(a) % BytesPerPixel = Part(a)
    BY <1>1, <1>3
  <2> QED BY <1>2, <1>3, <2>2, <2>3
<1>6. ASSUME NEW a \in Addresses, Pixel(a) \notin points
      PROVE  new[a] = mem[a]
  BY <1>3, <1>4, <1>6
<1>7. IsMemory(new)
  BY <1>4 DEF IsMemory
<1> QED BY <1>5, <1>6, <1>7 DEF new

\* SaveRect has the rows of its rectangle one after the other.
LEMMA SavedRowIs ==
    ASSUME Ready, NEW mem, NEW r, IsRect(r), NEW y \in Places(r), NEW k \in 0..(RowBytes(r) - 1)
    PROVE  LET i == (y - r.y) * RowBytes(r) + k
           IN  /\ i \in DOMAIN SaveRect(mem, r)
               /\ SaveRect(mem, r)[i] = mem[Address(r.x, y) + k]
<1> DEFINE n == RowBytes(r)
           i == (y - r.y) * n + k
<1>1. n \in Nat \ {0}
  BY FormatFacts DEF RowBytes, IsRect, Ready, DeviceInv
<1>2. k \in 0..(n - 1) /\ y - r.y \in 0..r.h /\ r.h \in Nat /\ r.y + (y - r.y) = y
  BY DEF Places, IsRect
<1> HIDE DEF n
<1>3. /\ i = n * (y - r.y) + k /\ n * (y - r.y) \in Nat /\ i \in Nat
      /\ (r.h + 1) * n = n * r.h + n /\ n * r.h \in Nat
  BY <1>1, <1>2
<1>4. i \div n = y - r.y /\ i % n = k
  <2> DEFINE q == y - r.y
  <2>1. q \in Int /\ i = n * q + k
    BY <1>2, <1>3
  <2> HIDE DEF q, i
  <2>2. (n * q + k) \div n = q /\ (n * q + k) % n = k
    BY <1>1, <1>2, <2>1, DivModOf
  <2> QED BY <2>1, <2>2 DEF q
<1>5. n * (y - r.y) <= n * r.h
  BY <1>1, <1>2, ProductGrows
<1>6. i \in 0..((r.h + 1) * n - 1)
  BY <1>1, <1>2, <1>3, <1>5
<1> HIDE DEF i
<1>7. SaveRect(mem, r) =
        [j \in 0..((r.h + 1) * n - 1) |-> mem[Address(r.x, r.y + (j \div n)) + (j % n)]]
  BY DEF SaveRect, n
<1>8. SaveRect(mem, r)[i] = mem[Address(r.x, y) + k]
  BY <1>2, <1>4, <1>6, <1>7
<1> QED BY <1>6, <1>7, <1>8 DEF i, n

LEMMA SavedIsBuffer ==
    ASSUME Ready, NEW mem, NEW r, IsRect(r)
    PROVE  /\ DOMAIN SaveRect(mem, r) = 0..((r.h + 1) * RowBytes(r) - 1)
           /\ SaveRect(mem, r) # NULL
<1>1. RowBytes(r) \in Nat \ {0} /\ r.h \in Nat
  BY FormatFacts DEF RowBytes, IsRect, Ready, DeviceInv
<1>2. (r.h + 1) * RowBytes(r) > 0
  BY <1>1
<1>3. DOMAIN SaveRect(mem, r) = 0..((r.h + 1) * RowBytes(r) - 1)
  BY DEF SaveRect
<1>4. 0 \in DOMAIN SaveRect(mem, r)
  <2> DEFINE last == (r.h + 1) * RowBytes(r) - 1
  <2>1. last \in Nat
    BY <1>1, <1>2
  <2> HIDE DEF last
  <2>2. 0 \in 0..last
    BY <2>1
  <2> QED BY <1>3, <2>2 DEF last
<1>5. 0 \notin DOMAIN NULL
  BY DEF NULL
<1> QED BY <1>3, <1>4, <1>5

\* RstrRect gives the rectangle back as SaveRect has found it, and leaves the rest.
LEMMA RstrIs ==
    ASSUME Ready, NEW mem, IsMemory(mem), NEW old, IsMemory(old), NEW r, IsRect(r)
    PROVE  LET new == RstrRect(mem, r, SaveRect(old, r))
           IN  /\ IsMemory(new)
               /\ \A a \in Addresses : new[a] = IF In(Pixel(a), r) THEN old[a] ELSE mem[a]
<1> DEFINE n == RowBytes(r)
           buffer == SaveRect(old, r)
           rows == [y \in r.y..(r.y + r.h) |->
                      [k \in 0..(RestoredBytes(r) - 1) |-> ByteAt(buffer, (y - r.y) * n + k)]]
<1>1. BytesPerPixel \in {2, 4} /\ RestoredBytes(r) = n
  <2>1. BytesPerPixel \in {2, 4}
    BY FormatFacts DEF Ready, DeviceInv
  <2> QED BY <2>1 DEF RestoredBytes
<1>2. /\ DOMAIN rows = Places(r)
      /\ \A y \in Places(r) : rows[y] = [k \in 0..(n - 1) |-> ByteAt(buffer, (y - r.y) * n + k)]
  BY <1>1 DEF Places
<1>3. RstrRect(mem, r, SaveRect(old, r)) = Store(mem, r.x, rows)
  BY DEF RstrRect
<1> HIDE DEF rows
<1>4. LET new == Store(mem, r.x, rows)
      IN  /\ IsMemory(new)
          /\ \A a \in Addresses :
               new[a] = IF In(Pixel(a), r)
                        THEN rows[Pixel(a).y][a - Address(r.x, Pixel(a).y)]
                        ELSE mem[a]
  BY <1>2, StoreIs
<1>5. ASSUME NEW a \in Addresses, In(Pixel(a), r)
      PROVE  rows[Pixel(a).y][a - Address(r.x, Pixel(a).y)] = old[a]
  <2> DEFINE y == Pixel(a).y
             k == a - Address(r.x, y)
  <2>1. y \in Places(r) /\ k \in 0..(n - 1)
    BY <1>5, PlaceInRow DEF In, Places
  <2>2. Address(r.x, y) + k = a
    <3>1. a \in Int /\ y \in Int /\ r.x \in Int /\ mNextLine \in Int
      BY AddressesNat, PixelIs, FormatFacts DEF Ready, DeviceInv, Opened, AllPorts, IsRect
    <3> QED BY <1>1, <3>1 DEF Address
  <2> HIDE DEF y, k
  <2>3. rows[y][k] = ByteAt(buffer, (y - r.y) * n + k)
    BY <1>2, <2>1
  <2>4. (y - r.y) * n + k \in DOMAIN buffer /\ buffer[(y - r.y) * n + k] = old[a]
    BY <2>1, <2>2, SavedRowIs
  <2> QED BY <2>3, <2>4 DEF ByteAt, y, k
<1> QED BY <1>3, <1>4, <1>5

-----------------------------------------------------------------------------
(***************************************************************************)
(* Sums and maxima.                                                        *)
(***************************************************************************)

\* t has the sums of the first numbers of s, up to n.
SumsTo(s, t, n) == t = [i \in 0..n |-> IF i = 0 THEN 0 ELSE t[i - 1] + s[i]]

\* A recursive function exists: one for n places is continued to the next.
LEMMA SumsExist ==
    ASSUME NEW s \in Seq(Int)
    PROVE  \E t : SumsTo(s, t, Len(s))
<1> DEFINE Good == {n \in Nat : n <= Len(s) => \E t : SumsTo(s, t, n)}
<1>1. Len(s) \in Nat
  OBVIOUS
<1>2. \E t : SumsTo(s, t, 0)
  <2> DEFINE t == [i \in 0..0 |-> 0]
  <2>1. SumsTo(s, t, 0)
    BY DEF SumsTo
  <2> QED BY <2>1
<1>3. ASSUME NEW n \in Nat, NEW t, SumsTo(s, t, n) PROVE \E u : SumsTo(s, u, n + 1)
  <2> DEFINE u == [i \in 0..(n + 1) |-> IF i = n + 1 THEN t[n] + s[n + 1] ELSE t[i]]
  <2>1. ASSUME NEW i \in 0..(n + 1) PROVE u[i] = IF i = 0 THEN 0 ELSE u[i - 1] + s[i]
    <3>1. CASE i = n + 1
      BY <3>1
    <3>2. CASE i # n + 1
      <4>1. i \in 0..n /\ u[i] = t[i] /\ (i # 0 => i - 1 \in 0..n /\ u[i - 1] = t[i - 1])
        BY <3>2
      <4>2. t[i] = IF i = 0 THEN 0 ELSE t[i - 1] + s[i]
        BY <1>3, <4>1 DEF SumsTo
      <4> QED BY <4>1, <4>2
    <3> QED BY <3>1, <3>2
  <2>2. u = [i \in 0..(n + 1) |-> u[i]]
    OBVIOUS
  <2> HIDE DEF u
  <2>3. SumsTo(s, u, n + 1)
    BY <2>1, <2>2 DEF SumsTo
  <2> QED BY <2>3
<1>4. Len(s) \in Good
  <2>1. Good \in SUBSET Nat
    OBVIOUS
  <2>2. 0 \in Good
    BY <1>2
  <2>3. ASSUME NEW n \in Good PROVE n + 1 \in Good
    <3>1. n \in Nat
      OBVIOUS
    <3>2. ASSUME n + 1 <= Len(s) PROVE \E u : SumsTo(s, u, n + 1)
      <4>1. n <= Len(s)
        BY <1>1, <3>1, <3>2
      <4>2. PICK t : SumsTo(s, t, n)
        BY <4>1
      <4> QED BY <1>3, <3>1, <4>2
    <3> QED BY <3>1, <3>2
  <2> HIDE DEF Good
  <2> QED BY <1>1, <2>1, <2>2, <2>3, Induction
<1> QED BY <1>1, <1>4

LEMMA TogetherIs ==
    ASSUME NEW s \in Seq(Int)
    PROVE  /\ \A n \in 0..Len(s) : Together(s)[n] \in Int
           /\ Together(s)[0] = 0
           /\ \A n \in 1..Len(s) : Together(s)[n] = Together(s)[n - 1] + s[n]
<1> DEFINE T == Together(s)
<1>1. SumsTo(s, T, Len(s))
  <2>1. T = CHOOSE t : SumsTo(s, t, Len(s))
    BY DEF Together, SumsTo
  <2> QED BY <2>1, SumsExist
<1> HIDE DEF T
<1>2. Len(s) \in Nat /\ \A i \in 1..Len(s) : s[i] \in Int
  OBVIOUS
<1>3. T[0] = 0 /\ \A n \in 1..Len(s) : T[n] = T[n - 1] + s[n]
  <2>1. \A i \in 0..Len(s) : T[i] = IF i = 0 THEN 0 ELSE T[i - 1] + s[i]
    BY <1>1 DEF SumsTo
  <2>2. 0 \in 0..Len(s) /\ \A n \in 1..Len(s) : n \in 0..Len(s) /\ n # 0
    BY <1>2
  <2> QED BY <2>1, <2>2
<1>4. \A n \in 0..Len(s) : T[n] \in Int
  <2> DEFINE Good == {n \in Nat : n <= Len(s) => T[n] \in Int}
  <2>1. Good \in SUBSET Nat /\ 0 \in Good
    BY <1>3
  <2>2. ASSUME NEW n \in Good PROVE n + 1 \in Good
    <3>1. n \in Nat /\ (n <= Len(s) => T[n] \in Int)
      OBVIOUS
    <3>2. ASSUME n + 1 <= Len(s) PROVE T[n + 1] \in Int
      <4>1. n + 1 \in 1..Len(s) /\ (n + 1) - 1 = n /\ n <= Len(s)
        BY <1>2, <3>1, <3>2
      <4> QED BY <1>2, <1>3, <3>1, <4>1
    <3> QED BY <3>1, <3>2
  <2>3. \A n \in Nat : n \in Good
    <3> HIDE DEF Good
    <3> QED BY <2>1, <2>2, Induction
  <2> QED BY <2>3
<1> QED BY <1>3, <1>4 DEF T

\* Sums of larger numbers are larger.
LEMMA TogetherBelow ==
    ASSUME NEW s \in Seq(Int), NEW t \in Seq(Int), Len(s) = Len(t),
           \A i \in 1..Len(s) : s[i] <= t[i]
    PROVE  \A n \in 0..Len(s) : Together(s)[n] <= Together(t)[n]
<1> DEFINE S == Together(s)
           T == Together(t)
           Good == {n \in Nat : n <= Len(s) => S[n] <= T[n]}
<1>1. Len(s) \in Nat /\ \A i \in 1..Len(s) : s[i] \in Int /\ t[i] \in Int /\ s[i] <= t[i]
  OBVIOUS
<1>2. /\ S[0] = 0 /\ T[0] = 0
      /\ \A n \in 0..Len(s) : S[n] \in Int /\ T[n] \in Int
      /\ \A n \in 1..Len(s) : S[n] = S[n - 1] + s[n] /\ T[n] = T[n - 1] + t[n]
  BY TogetherIs
<1> HIDE DEF S, T
<1>3. Good \in SUBSET Nat /\ 0 \in Good
  BY <1>2
<1>4. ASSUME NEW n \in Good PROVE n + 1 \in Good
  <2>1. n \in Nat /\ (n <= Len(s) => S[n] <= T[n])
    OBVIOUS
  <2>2. ASSUME n + 1 <= Len(s) PROVE S[n + 1] <= T[n + 1]
    <3>1. n + 1 \in 1..Len(s) /\ (n + 1) - 1 = n /\ n \in 0..Len(s)
      BY <1>1, <2>1, <2>2
    <3>2. S[n + 1] = S[n] + s[n + 1] /\ T[n + 1] = T[n] + t[n + 1]
      BY <1>2, <3>1
    <3> QED BY <1>1, <1>2, <2>1, <3>1, <3>2
  <2> QED BY <2>1, <2>2
<1>5. \A n \in Nat : n \in Good
  <2> HIDE DEF Good
  <2> QED BY <1>3, <1>4, Induction
<1> QED BY <1>1, <1>5 DEF S, T

\* Sums of natural numbers do not decrease.
LEMMA TogetherGrows ==
    ASSUME NEW s \in Seq(Nat), NEW i \in 0..Len(s), NEW j \in i..Len(s)
    PROVE  Together(s)[i] <= Together(s)[j]
<1> DEFINE T == Together(s)
           Good == {d \in Nat : i + d <= Len(s) => T[i] <= T[i + d]}
<1>1. Len(s) \in Nat /\ \A n \in 1..Len(s) : s[n] \in Nat
  OBVIOUS
<1>2. /\ \A n \in 0..Len(s) : T[n] \in Int
      /\ \A n \in 1..Len(s) : T[n] = T[n - 1] + s[n]
  <2>1. s \in Seq(Int)
    OBVIOUS
  <2> QED BY <2>1, TogetherIs
<1> HIDE DEF T
<1>3. Good \in SUBSET Nat /\ 0 \in Good
  BY <1>1, <1>2
<1>4. ASSUME NEW d \in Good PROVE d + 1 \in Good
  <2>1. d \in Nat /\ (i + d <= Len(s) => T[i] <= T[i + d])
    OBVIOUS
  <2>2. ASSUME i + (d + 1) <= Len(s) PROVE T[i] <= T[i + (d + 1)]
    <3>1. i + (d + 1) \in 1..Len(s) /\ (i + (d + 1)) - 1 = i + d /\ i + d \in 0..Len(s)
      BY <1>1, <2>1, <2>2
    <3>2. T[i + (d + 1)] = T[i + d] + s[i + (d + 1)] /\ s[i + (d + 1)] \in Nat
      BY <1>1, <1>2, <3>1
    <3> QED BY <1>2, <2>1, <3>1, <3>2
  <2> QED BY <2>1, <2>2
<1>5. \A d \in Nat : d \in Good
  <2> HIDE DEF Good
  <2> QED BY <1>3, <1>4, Induction
<1>6. j - i \in Nat /\ i + (j - i) = j /\ j <= Len(s)
  BY <1>1
<1> QED BY <1>5, <1>6 DEF T

\* Finitely many numbers have a largest.
LEMMA LargestIs ==
    ASSUME NEW s \in Seq(Int)
    PROVE  LET m == Max({0} \cup {s[i] : i \in DOMAIN s})
           IN  m \in Nat /\ \A i \in DOMAIN s : s[i] <= m
<1> DEFINE Upto(n) == {0} \cup {s[i] : i \in 1..n}
           Largest(m, n) == m \in Upto(n) /\ \A y \in Upto(n) : m >= y
           Good == {n \in Nat : n <= Len(s) => \E m : Largest(m, n)}
<1>1. /\ Len(s) \in Nat /\ DOMAIN s = 1..Len(s) /\ \A i \in 1..Len(s) : s[i] \in Int
  OBVIOUS
<1>2. Largest(0, 0)
  OBVIOUS
<1>3. ASSUME NEW n \in Nat, n + 1 <= Len(s), NEW m, Largest(m, n)
      PROVE  \E l : Largest(l, n + 1)
  <2>1. Upto(n + 1) = Upto(n) \cup {s[n + 1]} /\ s[n + 1] \in Int
    BY <1>1, <1>3
  <2>2. \A y \in Upto(n) : y \in Int
    BY <1>1, <1>3
  <2>3. CASE m >= s[n + 1]
    <3>1. Largest(m, n + 1)
      BY <1>3, <2>1, <2>3
    <3> QED BY <3>1
  <2>4. CASE ~(m >= s[n + 1])
    <3>1. m \in Int /\ \A y \in Upto(n) : s[n + 1] >= y
      BY <1>3, <2>1, <2>2, <2>4
    <3>2. Largest(s[n + 1], n + 1)
      BY <2>1, <3>1
    <3> QED BY <3>2
  <2> QED BY <2>3, <2>4
<1> HIDE DEF Largest
<1>4. Len(s) \in Good
  <2>1. Good \in SUBSET Nat
    OBVIOUS
  <2>2. 0 \in Good
    BY <1>2
  <2>3. ASSUME NEW n \in Good PROVE n + 1 \in Good
    <3>1. n \in Nat
      OBVIOUS
    <3>2. ASSUME n + 1 <= Len(s) PROVE \E l : Largest(l, n + 1)
      <4>1. n <= Len(s)
        BY <1>1, <3>1, <3>2
      <4>2. PICK m : Largest(m, n)
        BY <4>1
      <4> QED BY <1>3, <3>1, <3>2, <4>2
    <3> QED BY <3>1, <3>2
  <2> HIDE DEF Good
  <2> QED BY <1>1, <2>1, <2>2, <2>3, Induction
<1>5. PICK m : Largest(m, Len(s))
  BY <1>1, <1>4
<1> DEFINE S == {0} \cup {s[i] : i \in DOMAIN s}
<1>6. m \in S /\ \A y \in S : m >= y
  BY <1>1, <1>5 DEF Largest
<1>7. Max(S) \in S /\ \A y \in S : Max(S) >= y
  <2> HIDE DEF S
  <2> QED BY <1>6 DEF Max
<1> QED BY <1>1, <1>7

-----------------------------------------------------------------------------
(***************************************************************************)
(* Lines and frames.                                                       *)
(***************************************************************************)

Points(x1, x2, y1, y2) == [x : x1..x2, y : y1..y2]

\* A line along an axis has d below zero from the start to the end and never
\* turns.
LEMMA LineIs ==
    ASSUME NEW x1 \in Int, NEW y1 \in Int, NEW x2 \in Int, NEW y2 \in Int,
           x1 <= x2, y1 <= y2, x1 = x2 \/ y1 = y2
    PROVE  LinePoints(x1, y1, x2, y2) = Points(x1, x2, y1, y2)
<1> DEFINE m    == x2 - x1
           n    == y2 - y1
           ax   == 2 * Distance(x1, x2)
           ay   == 2 * Distance(y1, y2)
           flat == ax > ay
           far  == IF flat THEN ax ELSE ay
           near == IF flat THEN ay ELSE ax
           sx   == Direction(x1, x2)
           sy   == Direction(y1, y2)
           Turn(p) == p.d > 0 \/ (p.d = 0 /\ (IF flat THEN sx ELSE sy) = 1)
           After(p) == [x |-> IF flat \/ Turn(p) THEN p.x + sx ELSE p.x,
                        y |-> IF ~flat \/ Turn(p) THEN p.y + sy ELSE p.y,
                        d |-> p.d + near - (IF Turn(p) THEN far ELSE 0)]
           first == [x |-> x1, y |-> y1, d |-> near - (far \div 2)]
           Steps(f) == f = [k \in 0..(far \div 2) |-> IF k = 0 THEN first ELSE After(f[k - 1])]
           step == CHOOSE f : Steps(f)
           l == m + n
           Straight(k) == [x |-> IF m > 0 THEN x1 + k ELSE x1, y |-> IF m > 0 THEN y1 ELSE y1 + k,
                           d |-> -l]
<1>1. LinePoints(x1, y1, x2, y2)
        = {[x |-> step[k].x, y |-> step[k].y] : k \in 0..(far \div 2)}
  BY DEF LinePoints
<1>2. l \in Nat /\ far \div 2 = l /\ near = 0 /\ sx = 1 /\ sy = 1 /\ (flat <=> m > 0)
  BY DEF Distance, Direction
<1>3. first = Straight(0)
  BY <1>2
<1>4. ASSUME NEW k \in 1..l PROVE After(Straight(k - 1)) = Straight(k)
  BY <1>2
<1> HIDE DEF After, first, Straight, far, l
<1>5. \E f : Steps(f)
  <2> DEFINE g == [k \in 0..l |-> Straight(k)]
  <2>1. \A k \in 0..l : g[k] = IF k = 0 THEN first ELSE After(g[k - 1])
    BY <1>2, <1>3, <1>4
  <2>2. g = [k \in 0..l |-> g[k]]
    OBVIOUS
  <2> HIDE DEF g
  <2>3. Steps(g)
    BY <1>2, <2>1, <2>2
  <2> QED BY <2>3
<1>6. Steps(step)
  BY <1>5
<1> HIDE DEF step
<1>7. step = [k \in 0..l |-> IF k = 0 THEN first ELSE After(step[k - 1])]
  BY <1>2, <1>6
<1>8. \A k \in 0..l : step[k] = Straight(k)
  <2> DEFINE Good == {k \in Nat : k <= l => step[k] = Straight(k)}
  <2>1. Good \in SUBSET Nat /\ 0 \in Good
    BY <1>2, <1>3, <1>7
  <2>2. ASSUME NEW k \in Good PROVE k + 1 \in Good
    <3>1. k \in Nat /\ (k <= l => step[k] = Straight(k))
      OBVIOUS
    <3>2. ASSUME k + 1 <= l PROVE step[k + 1] = Straight(k + 1)
      <4>1. k + 1 \in 1..l /\ k + 1 \in 0..l /\ (k + 1) - 1 = k /\ k <= l /\ k + 1 # 0
        BY <1>2, <3>1, <3>2
      <4>2. step[k + 1] = After(step[k])
        BY <1>7, <4>1
      <4> QED BY <1>4, <3>1, <4>1, <4>2
    <3> QED BY <3>1, <3>2
  <2>3. \A k \in Nat : k \in Good
    <3> HIDE DEF Good
    <3> QED BY <2>1, <2>2, Induction
  <2> QED BY <1>2, <2>3
<1>9. LinePoints(x1, y1, x2, y2) = {[x |-> Straight(k).x, y |-> Straight(k).y] : k \in 0..l}
  BY <1>1, <1>2, <1>8
<1>10. \A k \in 0..l : /\ Straight(k).x = IF m > 0 THEN x1 + k ELSE x1
                       /\ Straight(k).y = IF m > 0 THEN y1 ELSE y1 + k
  BY DEF Straight
<1>11. ASSUME NEW k \in 0..l
       PROVE  [x |-> Straight(k).x, y |-> Straight(k).y] \in [x : x1..x2, y : y1..y2]
  BY <1>10 DEF l
<1>12. ASSUME NEW p \in [x : x1..x2, y : y1..y2]
       PROVE  \E k \in 0..l : p = [x |-> Straight(k).x, y |-> Straight(k).y]
  <2> DEFINE k == (p.x - x1) + (p.y - y1)
  <2>1. k \in 0..l /\ p.x = (IF m > 0 THEN x1 + k ELSE x1) /\ p.y = (IF m > 0 THEN y1 ELSE y1 + k)
    BY DEF l
  <2>2. p = [x |-> p.x, y |-> p.y]
    OBVIOUS
  <2> HIDE DEF k
  <2> QED BY <1>10, <2>1, <2>2
<1> QED BY <1>9, <1>11, <1>12 DEF Points

\* The four lines of a frame are the edge of its rectangle.
LEMMA FrameIs ==
    ASSUME NEW r, r.x \in Int, r.y \in Int, r.w \in Nat, r.h \in Nat
    PROVE  FramePoints(r) = {p \in [x : Int, y : Int] : OnFrame(p, r)}
<1> DEFINE x == r.x
           y == r.y
           w == r.w
           h == r.h
<1>3. x \in Int /\ y \in Int /\ w \in Nat /\ h \in Nat
  OBVIOUS
<1>0. FramePoints(r) = LinePoints(x, y, x + w, y) \cup LinePoints(x, y, x, y + h)
                         \cup LinePoints(x, y + h, x + w, y + h)
                         \cup LinePoints(x + w, y, x + w, y + h)
  BY DEF FramePoints
<1> HIDE DEF x, y, w, h
<1>1. ASSUME NEW z \in Int PROVE LinePoints(x, z, x + w, z) = [x : x..(x + w), y : {z}]
  <2> DEFINE end == x + w
  <2>1. z..z = {z} /\ end \in Int /\ x <= end
    BY <1>3
  <2> HIDE DEF end
  <2>2. LinePoints(x, z, end, z) = Points(x, end, z, z)
    BY <1>3, <2>1, LineIs
  <2> QED BY <2>1, <2>2 DEF end, Points
<1>7. ASSUME NEW z \in Int PROVE LinePoints(z, y, z, y + h) = [x : {z}, y : y..(y + h)]
  <2> DEFINE end == y + h
  <2>1. z..z = {z} /\ end \in Int /\ y <= end
    BY <1>3
  <2> HIDE DEF end
  <2>2. LinePoints(z, y, z, end) = Points(z, z, y, end)
    BY <1>3, <2>1, LineIs
  <2> QED BY <2>1, <2>2 DEF end, Points
<1>2. FramePoints(r) = [x : x..(x + w), y : {y}] \cup [x : {x}, y : y..(y + h)]
                         \cup [x : x..(x + w), y : {y + h}] \cup [x : {x + w}, y : y..(y + h)]
  <2>1. x + w \in Int /\ y + h \in Int
    BY <1>3
  <2> QED BY <1>0, <1>1, <1>3, <1>7, <2>1
<1>4. \A p : OnFrame(p, r) <=> /\ p.x \in x..(x + w) /\ p.y \in y..(y + h)
                               /\ p.x \in {x, x + w} \/ p.y \in {y, y + h}
  BY DEF OnFrame, x, y, w, h
<1>5. ASSUME NEW p \in FramePoints(r) PROVE p \in [x : Int, y : Int] /\ OnFrame(p, r)
  <2>1. CASE p \in [x : x..(x + w), y : {y}]
    BY <1>3, <1>4, <2>1
  <2>2. CASE p \in [x : {x}, y : y..(y + h)]
    BY <1>3, <1>4, <2>2
  <2>3. CASE p \in [x : x..(x + w), y : {y + h}]
    BY <1>3, <1>4, <2>3
  <2>4. CASE p \in [x : {x + w}, y : y..(y + h)]
    BY <1>3, <1>4, <2>4
  <2> QED BY <1>2, <1>5, <2>1, <2>2, <2>3, <2>4
<1>6. ASSUME NEW p \in [x : Int, y : Int], OnFrame(p, r) PROVE p \in FramePoints(r)
  <2>1. p = [x |-> p.x, y |-> p.y]
    OBVIOUS
  <2> QED BY <1>2, <1>3, <1>4, <1>6, <2>1
<1> QED BY <1>5, <1>6

-----------------------------------------------------------------------------
(***************************************************************************)
(* Texts.                                                                  *)
(***************************************************************************)

Strings == Seq(DOMAIN Glyphs)
Lines == Seq(Strings)

\* What is counted for a character, and how far the drawing moves on.
LEMMA MeasuredIs ==
    ASSUME NEW ch \in DOMAIN Glyphs
    PROVE  Measured(ch) \in Int /\ Advance(ch) \in Int
<1> DEFINE g == Glyphs[ch]
           half == FontWidth \div 2
<1>1. FontWidth \in Nat /\ half \in Nat
  BY SizesAssumption
<1>2. CASE g = NoGlyph
  BY <1>1, <1>2 DEF Measured, Advance
<1>3. CASE g # NoGlyph
  <2>1. g.pitch \in Nat /\ g.width \in Nat /\ g.left \in Int
    BY <1>3, FontAssumption
  <2>2. Larger(g.pitch, half) \in Int /\ Larger(g.width, half) \in Int
    BY <1>1, <2>1 DEF Larger
  <2> QED BY <1>3, <2>1, <2>2 DEF Measured, Advance
<1> QED BY <1>2, <1>3

\* A font that fits.
LEMMA FittedIs ==
    ASSUME Fitted, NEW ch \in DOMAIN Glyphs
    PROVE  Advance(ch) \in Nat /\ Advance(ch) <= Measured(ch)
<1>1. CASE Glyphs[ch] = NoGlyph
  BY <1>1, SizesAssumption DEF Advance, Measured
<1>2. CASE Glyphs[ch] # NoGlyph
  BY <1>2, MeasuredIs DEF Fitted
<1> QED BY <1>1, <1>2

WidthsOf(string) == [i \in DOMAIN string |-> Measured(string[i])]
AdvancesOf(string) == [i \in DOMAIN string |-> Advance(string[i])]

LEMMA WidthsType ==
    ASSUME NEW string \in Strings
    PROVE  /\ WidthsOf(string) \in Seq(Int) /\ AdvancesOf(string) \in Seq(Int)
           /\ Len(WidthsOf(string)) = Len(string) /\ Len(AdvancesOf(string)) = Len(string)
           /\ LineWidth(string) = Together(WidthsOf(string))[Len(string)]
           /\ \A j : Pen(string, j) = Together(AdvancesOf(string))[j - 1]
<1>1. \A i \in DOMAIN string : string[i] \in DOMAIN Glyphs /\ DOMAIN string = 1..Len(string)
  BY DEF Strings
<1>2. \A i \in DOMAIN string : Measured(string[i]) \in Int /\ Advance(string[i]) \in Int
  BY <1>1, MeasuredIs
<1>3. /\ WidthsOf(string) \in Seq(Int) /\ Len(WidthsOf(string)) = Len(string)
      /\ AdvancesOf(string) \in Seq(Int) /\ Len(AdvancesOf(string)) = Len(string)
  BY <1>2 DEF WidthsOf, AdvancesOf, Strings
<1> QED BY <1>3 DEF LineWidth, Pen, WidthsOf, AdvancesOf

\* With a font that fits, the pixels of a line stay in its estimate: the pen is not
\* ahead of what has been counted.
LEMMA GlyphFits ==
    ASSUME Fitted, NEW string \in Strings, NEW j \in DOMAIN string
    PROVE  /\ Pen(string, j) \in Nat
           /\ Glyphs[string[j]] # NoGlyph =>
                \A p \in Glyphs[string[j]].ink : Pen(string, j) + p.x <= LineWidth(string)
<1> DEFINE s == WidthsOf(string)
           v == AdvancesOf(string)
           S == Together(s)
           V == Together(v)
           n == Len(string)
<1>1. n \in Nat /\ DOMAIN string = 1..n /\ j \in 1..n
  BY DEF Strings
<1>2. \A i \in 1..n : /\ string[i] \in DOMAIN Glyphs
                      /\ s[i] = Measured(string[i]) /\ v[i] = Advance(string[i])
                      /\ s[i] \in Nat /\ v[i] \in Nat /\ v[i] <= s[i]
  <2>1. \A i \in 1..n : /\ string[i] \in DOMAIN Glyphs
                        /\ s[i] = Measured(string[i]) /\ v[i] = Advance(string[i])
    BY <1>1 DEF WidthsOf, AdvancesOf, Strings
  <2> HIDE DEF s, v, n
  <2>2. ASSUME NEW i \in 1..n PROVE s[i] \in Nat /\ v[i] \in Nat /\ v[i] <= s[i]
    <3>1. Measured(string[i]) \in Int
      BY <2>1, MeasuredIs
    <3>2. Advance(string[i]) \in Nat /\ Advance(string[i]) <= Measured(string[i])
      BY <2>1, FittedIs
    <3> QED BY <2>1, <3>1, <3>2
  <2> QED BY <2>1, <2>2
<1>3. /\ s \in Seq(Int) /\ v \in Seq(Int) /\ Len(s) = n /\ Len(v) = n
      /\ LineWidth(string) = S[n] /\ Pen(string, j) = V[j - 1]
  BY WidthsType
<1> HIDE DEF s, v, n
<1>4. s \in Seq(Nat) /\ v \in Seq(Nat)
  <2>1. DOMAIN s = 1..n /\ DOMAIN v = 1..n
    BY <1>3
  <2>2. s \in [1..n -> Nat] /\ v \in [1..n -> Nat]
    BY <1>2, <1>3, <2>1
  <2> QED BY <1>1, <2>2
<1>5. /\ j - 1 \in 0..n /\ j \in 0..n /\ n \in j..n /\ 0 \in 0..n /\ j - 1 \in 0..n
      /\ j - 1 \in 0..Len(s)
  BY <1>1, <1>3
<1>6. V[0] <= V[j - 1] /\ S[j] <= S[n]
  BY <1>1, <1>3, <1>4, <1>5, TogetherGrows
<1>7. V[j - 1] <= S[j - 1]
  BY <1>2, <1>3, <1>5, TogetherBelow
<1>8. /\ V[0] = 0 /\ V[j - 1] \in Int /\ S[j - 1] \in Int /\ S[j] \in Int /\ S[n] \in Int
      /\ S[j] = S[j - 1] + s[j]
  <2>1. /\ \A k \in 0..n : S[k] \in Int /\ V[k] \in Int
        /\ V[0] = 0 /\ \A k \in 1..n : S[k] = S[k - 1] + s[k]
    BY <1>3, TogetherIs
  <2> QED BY <1>1, <1>5, <2>1
<1>9. ASSUME Glyphs[string[j]] # NoGlyph, NEW p \in Glyphs[string[j]].ink
      PROVE  p.x \in Int /\ p.x <= s[j]
  <2>1. string[j] \in DOMAIN Glyphs /\ s[j] = Measured(string[j])
    BY <1>1, <1>2
  <2>2. Glyphs[string[j]].ink \subseteq
          [x : 0..(Glyphs[string[j]].pitch - 1), y : 0..(Glyphs[string[j]].height - 1)]
    BY <1>9, <2>1, FontAssumption
  <2> QED BY <1>9, <2>1, <2>2 DEF Fitted
<1> HIDE DEF S, V
<1>10. s[j] \in Nat
  BY <1>1, <1>2
<1>11. V[j - 1] \in Nat
  BY <1>6, <1>8
<1>12. ASSUME Glyphs[string[j]] # NoGlyph, NEW p \in Glyphs[string[j]].ink
       PROVE  Pen(string, j) + p.x <= LineWidth(string)
  <2> DEFINE x == p.x
  <2>1. x \in Int /\ x <= s[j]
    BY <1>9, <1>12
  <2> HIDE DEF x
  <2>2. V[j - 1] + x <= S[n]
    BY <1>6, <1>7, <1>8, <1>10, <2>1
  <2> QED BY <1>3, <2>2 DEF x
<1> QED BY <1>3, <1>11, <1>12

LEMMA LineWidthType ==
    ASSUME NEW string \in Strings
    PROVE  LineWidth(string) \in Int
<1>1. Len(string) \in Nat
  BY DEF Strings
<1> QED BY <1>1, WidthsType, TogetherIs

LEMMA TextSizeIs ==
    ASSUME NEW lines \in Lines
    PROVE  /\ TextSize(lines).w \in Nat
           /\ TextSize(lines).h = FontHeight * Len(lines) /\ TextSize(lines).h \in Nat
           /\ \A i \in DOMAIN lines : LineWidth(lines[i]) <= TextSize(lines).w
           /\ lines = <<>> => TextSize(lines).w = 0
<1> DEFINE s == [i \in DOMAIN lines |-> LineWidth(lines[i])]
<1>1. \A i \in DOMAIN lines : lines[i] \in Strings /\ LineWidth(lines[i]) \in Int
  <2>1. \A i \in DOMAIN lines : lines[i] \in Strings
    BY DEF Lines
  <2> QED BY <2>1, LineWidthType
<1>2. s \in Seq(Int) /\ DOMAIN s = DOMAIN lines /\ Len(lines) \in Nat
  BY <1>1 DEF Lines
<1>3. {LineWidth(lines[i]) : i \in DOMAIN lines} = {s[i] : i \in DOMAIN s}
  OBVIOUS
<1>4. TextSize(lines).w = Max({0} \cup {s[i] : i \in DOMAIN s})
  BY <1>3 DEF TextSize
<1>5. \A i \in DOMAIN lines : s[i] = LineWidth(lines[i])
  OBVIOUS
<1> HIDE DEF s
<1>6. TextSize(lines).w \in Nat /\ \A i \in DOMAIN s : s[i] <= TextSize(lines).w
  BY <1>2, <1>4, LargestIs
<1>7. lines = <<>> => TextSize(lines).w = 0
  <2>1. ASSUME lines = <<>> PROVE Max({0} \cup {s[i] : i \in DOMAIN s}) = 0
    <3>1. {0} \cup {s[i] : i \in DOMAIN s} = {0}
      BY <1>2, <2>1
    <3>2. Max({0}) = 0
      BY DEF Max
    <3> QED BY <3>1, <3>2
  <2> QED BY <1>4, <2>1
<1> QED BY <1>2, <1>5, <1>6, <1>7, SizesAssumption DEF TextSize

\* Lines are drawn closer than they are estimated.
LEMMA LastLine ==
    ASSUME NEW f \in Nat \ {0}, NEW n \in Nat, NEW i \in 1..n
    PROVE  (i - 1) * (f - 1) \in Nat /\ (i - 1) * (f - 1) + f <= f * n
<1> DEFINE g == f - 1
           k == i - 1
           l == n - 1
<1>1. g \in Nat /\ k \in Nat /\ l \in Nat /\ k <= l /\ f = g + 1 /\ n = l + 1
  OBVIOUS
<1> HIDE DEF g, k, l
<1>2. k * g = g * k /\ g * k \in Nat /\ g * k <= g * l /\ g * l \in Nat
  BY <1>1, ProductGrows
<1>3. f * n = g * l + g + l + 1
  BY <1>1
<1>4. k * g \in Nat /\ k * g + f <= f * n
  BY <1>1, <1>2, <1>3
<1> QED BY <1>4 DEF g, k

\* The pixels of one character, in a line that begins at a height.
LEMMA InkFits ==
    ASSUME Fitted, NEW ch \in DOMAIN Glyphs, NEW x \in Nat, NEW y \in Nat, NEW pen \in Nat,
           NEW top \in Nat, NEW w \in Nat, NEW h \in Nat, top + FontHeight <= h,
           Glyphs[ch] # NoGlyph => \A p \in Glyphs[ch].ink : pen + p.x <= w
    PROVE  InkOf(ch, x + pen, (y + Border) + top)
             \subseteq [x : x..(x + w), y : y..(y + (Border + h))]
<1> SUFFICES ASSUME Glyphs[ch] # NoGlyph, NEW q \in Glyphs[ch].ink
             PROVE  /\ (x + pen) + q.x \in x..(x + w)
                    /\ ((y + Border) + top) + Glyphs[ch].top + q.y \in y..(y + (Border + h))
  BY DEF InkOf
<1> DEFINE gtop == Glyphs[ch].top
           qx == q.x
           qy == q.y
<1>1. pen + qx <= w
  OBVIOUS
<1>2. qx \in Nat /\ qy \in Nat /\ gtop \in Int /\ gtop + qy \in -Border..FontHeight
  <2>1. q \in [x : 0..(Glyphs[ch].pitch - 1), y : 0..(Glyphs[ch].height - 1)]
    BY FontAssumption
  <2>2. gtop \in Int /\ gtop + qy \in -Border..FontHeight
    BY FontAssumption DEF Fitted
  <2> QED BY <2>1, <2>2
<1>3. FontHeight \in Nat /\ Border \in Nat
  BY SizesAssumption
<1> HIDE DEF gtop, qx, qy
<1>4. (x + pen) + qx \in x..(x + w) /\ ((y + Border) + top) + gtop + qy \in y..(y + (Border + h))
  BY <1>1, <1>2, <1>3
<1> QED BY <1>4 DEF gtop, qx, qy

\* The pixels of a text stay in its estimate, and in the border above it.
LEMMA TextFits ==
    ASSUME Fitted, NEW lines \in Lines, NEW x \in Nat, NEW y \in Nat
    PROVE  /\ TextPoints(lines, x, y + Border)
                \subseteq [x : x..(x + TextSize(lines).w),
                           y : y..(y + (Border + TextSize(lines).h))]
           /\ lines = <<>> => TextPoints(lines, x, y + Border) = {}
<1> DEFINE n == Len(lines)
           w == TextSize(lines).w
           h == TextSize(lines).h
<1>1. /\ n \in Nat /\ DOMAIN lines = 1..n /\ \A i \in DOMAIN lines : lines[i] \in Strings
      /\ w \in Nat /\ h = FontHeight * n /\ h \in Nat /\ FontHeight \in Nat \ {0}
  BY TextSizeIs, SizesAssumption DEF Lines
<1>2. \A i \in DOMAIN lines : LineWidth(lines[i]) <= w
  BY TextSizeIs
<1> HIDE DEF n, w, h
<1>3. ASSUME NEW i \in DOMAIN lines, NEW j \in DOMAIN lines[i]
      PROVE  InkOf(lines[i][j], x + Pen(lines[i], j), (y + Border) + (i - 1) * (FontHeight - 1))
               \subseteq [x : x..(x + w), y : y..(y + (Border + h))]
  <2> DEFINE ch == lines[i][j]
             pen == Pen(lines[i], j)
             top == (i - 1) * (FontHeight - 1)
             width == LineWidth(lines[i])
  <2>1. lines[i] \in Strings /\ ch \in DOMAIN Glyphs /\ i \in 1..n
    BY <1>1 DEF Strings
  <2>2. /\ pen \in Nat /\ width \in Int /\ width <= w
        /\ Glyphs[ch] # NoGlyph => \A p \in Glyphs[ch].ink : pen + p.x <= width
    BY <1>2, <2>1, GlyphFits, LineWidthType
  <2>3. top \in Nat /\ top + FontHeight <= h
    BY <1>1, <2>1, LastLine
  <2> HIDE DEF ch, pen, top, width
  <2>4. ASSUME Glyphs[ch] # NoGlyph, NEW p \in Glyphs[ch].ink
        PROVE  pen + p.x <= w
    <3> DEFINE px == p.x
    <3>1. px \in Int
      BY <2>1, <2>4, FontAssumption
    <3>2. pen + px <= width
      BY <2>2, <2>4
    <3> HIDE DEF px
    <3>3. pen + px <= w
      BY <1>1, <2>2, <3>1, <3>2
    <3> QED BY <3>3 DEF px
  <2>5. InkOf(ch, x + pen, (y + Border) + top)
          \subseteq [x : x..(x + w), y : y..(y + (Border + h))]
    BY <1>1, <2>1, <2>2, <2>3, <2>4, InkFits
  <2> QED BY <2>5 DEF ch, pen, top
<1>4. TextPoints(lines, x, y + Border) \subseteq [x : x..(x + w), y : y..(y + (Border + h))]
  BY <1>3 DEF TextPoints
<1>5. lines = <<>> => TextPoints(lines, x, y + Border) = {}
  BY DEF TextPoints
<1> QED BY <1>4, <1>5 DEF w, h

-----------------------------------------------------------------------------
(***************************************************************************)
(* Layouts.                                                                *)
(***************************************************************************)

ContentsOf(w) == Texts[w] \union {Nothing(w)}

LEMMA ContentType ==
    ASSUME NEW w \in Widgets, NEW text \in ContentsOf(w)
    PROVE  /\ text \in Lines
           /\ w = "stts" => Len(text) = 2
<1>1. CASE text \in Texts[w]
  BY <1>1, TextsAssumption DEF Lines, Strings
<1>2. CASE text = Nothing(w)
  <2>1. <<>> \in Strings
    BY DEF Strings
  <2>2. <<>> \in Lines
    BY DEF Lines
  <2>3. <<<<>>, <<>>>> \in Lines /\ Len(<<<<>>, <<>>>>) = 2
    BY <2>1 DEF Lines
  <2> QED BY <1>2, <2>2, <2>3 DEF Nothing
<1> QED BY <1>1, <1>2 DEF ContentsOf

IsFrame(r, size) ==
    /\ r = [x |-> r.x, y |-> r.y, w |-> r.w, h |-> r.h]
    /\ r.x \in Nat /\ r.y \in Nat /\ r.w \in Nat /\ r.h \in Nat
    /\ r.x + r.w <= size.w /\ r.y + r.h <= size.h

IsText(t, size) ==
    /\ t.x \in Nat /\ t.lines \in Lines
    /\ t.lines # <<>> => /\ t.x + TextSize(t.lines).w <= size.w
                         /\ Border + TextSize(t.lines).h <= size.h

\* The frames and the texts of a widget are inside the size it asks for.
IsLayout(layout) ==
    /\ layout.size.w \in Nat /\ layout.size.h \in Nat
    /\ \A r \in layout.frames : IsFrame(r, layout.size)
    /\ \A t \in layout.texts : IsText(t, layout.size)

LEMMA OneString ==
    ASSUME NEW string \in Strings
    PROVE  /\ <<string>> \in Lines
           /\ TextSize(<<string>>).w \in Nat
           /\ TextSize(<<string>>).h = FontHeight
<1>1. <<string>> \in Lines /\ Len(<<string>>) = 1
  BY DEF Lines
<1>2. FontHeight * 1 = FontHeight
  BY SizesAssumption
<1> QED BY <1>1, <1>2, TextSizeIs

LEMMA StatusIs ==
    ASSUME NEW text \in Lines, Len(text) = 2
    PROVE  IsLayout(StatusLayout(text))
<1> DEFINE t == TextSize(<<text[1]>>)
           t2 == TextSize(<<text[2]>>)
           w == t.w
           w2 == t2.w
           h == FontHeight + Border
           b == Border
           size == [w |-> w + w2 + 2 * b, h |-> h]
           left == [x |-> 0, y |-> 0, w |-> w + b, h |-> h]
           right == [x |-> b + w, y |-> 0, w |-> w2 + b, h |-> h]
           first == [x |-> b, lines |-> <<text[1]>>]
           second == [x |-> 2 * b + w, lines |-> <<text[2]>>]
<1>1. /\ <<text[1]>> \in Lines /\ <<text[2]>> \in Lines
      /\ w \in Nat /\ w2 \in Nat /\ t.h = FontHeight /\ t2.h = FontHeight
  <2>1. text[1] \in Strings /\ text[2] \in Strings
    BY DEF Lines
  <2> QED BY <2>1, OneString
<1>2. b \in Nat /\ FontHeight \in Nat
  BY SizesAssumption
<1>3. StatusLayout(text) = [size |-> size, frames |-> {left, right}, texts |-> {first, second}]
  <2>1. Larger(t.h, t2.h) = FontHeight
    BY <1>1, <1>2 DEF Larger
  <2> QED BY <2>1 DEF StatusLayout
<1>4. IsFrame(left, size) /\ IsFrame(right, size)
  <2> HIDE DEF w, w2, b
  <2> QED BY <1>1, <1>2 DEF IsFrame, b
<1>5. IsText(first, size) /\ IsText(second, size)
  <2>1. first.lines # <<>> /\ TextSize(first.lines).w = w /\ TextSize(first.lines).h = FontHeight
    BY <1>1
  <2>2. second.lines # <<>> /\ TextSize(second.lines).w = w2 /\ TextSize(second.lines).h = FontHeight
    BY <1>1
  <2>3. first.x = b /\ second.x = 2 * b + w /\ size.w = w + w2 + 2 * b /\ size.h = FontHeight + b
    OBVIOUS
  <2>4. first.lines \in Lines /\ second.lines \in Lines
    BY <1>1
  <2> HIDE DEF first, second, size, w, w2
  <2> QED BY <1>1, <1>2, <2>1, <2>2, <2>3, <2>4 DEF IsText
<1>6. size.w \in Nat /\ size.h \in Nat
  BY <1>1, <1>2
<1> QED BY <1>3, <1>4, <1>5, <1>6 DEF IsLayout

LEMMA LinesIs ==
    ASSUME NEW text \in Lines
    PROVE  IsLayout(LinesLayout(text))
<1> DEFINE w == TextSize(text).w
           h == TextSize(text).h
           b == IF text = <<>> THEN 0 ELSE Border
           size == [w |-> w + b, h |-> h + b]
           frame == [x |-> 0, y |-> 0, w |-> w + b, h |-> h + b]
           all == [x |-> b, lines |-> text]
<1>1. w \in Nat /\ h \in Nat /\ b \in Nat /\ (text # <<>> => b = Border) /\ Border \in Nat
  BY TextSizeIs, SizesAssumption
<1>2. LinesLayout(text) = [size |-> size, frames |-> {frame}, texts |-> {all}]
  BY DEF LinesLayout
<1>3. /\ size.w = w + b /\ size.h = h + b /\ all.x = b /\ all.lines = text
      /\ TextSize(all.lines).w = w /\ TextSize(all.lines).h = h
  OBVIOUS
<1>4. IsFrame(frame, size)
  <2> HIDE DEF w, h, b
  <2> QED BY <1>1 DEF IsFrame
<1> HIDE DEF w, h, b, all, size, frame
<1>5. IsText(all, size)
  BY <1>1, <1>3 DEF IsText
<1>6. size.w \in Nat /\ size.h \in Nat
  BY <1>1, <1>3
<1> QED BY <1>2, <1>4, <1>5, <1>6 DEF IsLayout

LEMMA LayoutIs ==
    ASSUME NEW w \in Widgets, NEW text \in ContentsOf(w)
    PROVE  IsLayout(LayoutOf(w, text))
BY ContentType, StatusIs, LinesIs DEF LayoutOf

\* The window's rectangle with the picture of a text.
LEMMA RectangleIs ==
    ASSUME Ready, at \in Positions, widget \in Widgets, NEW text \in ContentsOf(widget)
    PROVE  /\ IsRect(Rectangle(at.x, at.y, Layout(text).size))
           /\ at.x \in Nat /\ at.y \in Nat
<1> DEFINE size == LayoutOf(widget, text).size
           wd == size.w
           x == at.x
<1>1. wd \in Nat /\ size.h \in Nat
  BY LayoutIs DEF IsLayout
<1>2. x \in Nat /\ at.y \in Nat /\ x + wd < format.xres
  BY ScreenAssumption DEF ContentsOf, Ready, DeviceInv
<1>3. Columns >= format.xres /\ Columns \in Nat /\ format.xres \in Nat
  BY FormatFacts, FormatsAssumption DEF Ready, DeviceInv
<1> HIDE DEF wd, x
<1>4. x + wd < Columns
  BY <1>1, <1>2, <1>3
<1> QED BY <1>1, <1>2, <1>4 DEF IsRect, Rectangle, Layout, wd, x

-----------------------------------------------------------------------------
(***************************************************************************)
(* Drawing a layout.                                                       *)
(***************************************************************************)

Within(r) == [x : r.x..(r.x + r.w), y : r.y..(r.y + r.h)]

RectOf(text) == Rectangle(at.x, at.y, Layout(text).size)

LEMMA InkInside ==
    ASSUME Fitted, Ready, at \in Positions, widget \in Widgets, NEW text \in ContentsOf(widget)
    PROVE  Ink(Layout(text)) \subseteq Within(RectOf(text))
<1> DEFINE size == Layout(text).size
           x == at.x
           y == at.y
           w == size.w
           h == size.h
<1>1. /\ x \in Nat /\ y \in Nat /\ Border \in Nat /\ w \in Nat /\ h \in Nat
      /\ \A t \in Layout(text).texts : IsText(t, size)
  BY RectangleIs, LayoutIs, SizesAssumption DEF IsLayout, Layout
<1>2. Within(RectOf(text)) = [x : x..(x + w), y : y..(y + h)]
  BY DEF Within, RectOf, Rectangle
<1>3. ASSUME NEW t \in Layout(text).texts
      PROVE  TextPoints(t.lines, x + t.x, y + Border) \subseteq [x : x..(x + w), y : y..(y + h)]
  <2>1. t.lines \in Lines /\ t.x \in Nat
    BY <1>1, <1>3 DEF IsText
  <2>2. CASE t.lines = <<>>
    BY <1>1, <2>1, <2>2, TextFits
  <2>3. CASE t.lines # <<>>
    <3> DEFINE tx == t.x
               tw == TextSize(t.lines).w
               th == TextSize(t.lines).h
    <3>1. tx \in Nat /\ tw \in Nat /\ th \in Nat /\ tx + tw <= w /\ Border + th <= h
      BY <1>1, <1>3, <2>1, <2>3, TextSizeIs DEF IsText
    <3>2. TextPoints(t.lines, x + tx, y + Border)
            \subseteq [x : (x + tx)..((x + tx) + tw), y : y..(y + (Border + th))]
      <4>1. x + tx \in Nat /\ y \in Nat
        BY <1>1, <3>1
      <4> QED BY <2>1, <4>1, TextFits
    <3> HIDE DEF x, y, w, h, tx, tw, th
    <3>3. /\ (x + tx)..((x + tx) + tw) \subseteq x..(x + w)
          /\ y..(y + (Border + th)) \subseteq y..(y + h)
      BY <1>1, <3>1
    <3>4. [x : (x + tx)..((x + tx) + tw), y : y..(y + (Border + th))]
            \subseteq [x : x..(x + w), y : y..(y + h)]
      BY <3>3
    <3> QED BY <3>2, <3>4 DEF tx
  <2> QED BY <2>2, <2>3
<1> QED BY <1>2, <1>3 DEF Ink

LEMMA FramesInside ==
    ASSUME Ready, at \in Positions, widget \in Widgets, NEW text \in ContentsOf(widget),
           NEW r \in FramesOf(Layout(text))
    PROVE  /\ FramePoints(r) \subseteq Within(RectOf(text))
           /\ \A p \in [x : Int, y : Int] : p \in FramePoints(r) <=> OnFrame(p, r)
<1> DEFINE size == Layout(text).size
<1>1. /\ at.x \in Nat /\ at.y \in Nat /\ size.w \in Nat /\ size.h \in Nat
      /\ \A f \in Layout(text).frames : IsFrame(f, size)
  BY RectangleIs, LayoutIs DEF IsLayout, Layout
<1>2. PICK f \in Layout(text).frames : r = [f EXCEPT !.x = @ + at.x, !.y = @ + at.y]
  BY DEF FramesOf
<1>3. /\ f.x \in Nat /\ f.y \in Nat /\ f.w \in Nat /\ f.h \in Nat
      /\ f.x + f.w <= size.w /\ f.y + f.h <= size.h
      /\ r = [x |-> f.x + at.x, y |-> f.y + at.y, w |-> f.w, h |-> f.h]
  <2>1. IsFrame(f, size)
    BY <1>1
  <2>2. f = [x |-> f.x, y |-> f.y, w |-> f.w, h |-> f.h]
    BY <2>1 DEF IsFrame
  <2>3. r = [x |-> f.x + at.x, y |-> f.y + at.y, w |-> f.w, h |-> f.h]
    BY <1>2, <2>2, Zenon
  <2> QED BY <2>1, <2>3 DEF IsFrame
<1>4. r.x = f.x + at.x /\ r.y = f.y + at.y /\ r.w = f.w /\ r.h = f.h
  BY <1>3
<1>5. r.x \in Int /\ r.y \in Int /\ r.w \in Nat /\ r.h \in Nat
  BY <1>1, <1>3, <1>4
<1>6. FramePoints(r) = {p \in [x : Int, y : Int] : OnFrame(p, r)}
  BY <1>5, FrameIs
<1>7. ASSUME NEW p \in [x : Int, y : Int], OnFrame(p, r)
      PROVE  p \in Within(RectOf(text))
  <2>1. /\ p = [x |-> p.x, y |-> p.y] /\ p.x \in Int /\ p.y \in Int
        /\ p.x \in r.x..(r.x + r.w) /\ p.y \in r.y..(r.y + r.h)
    BY <1>7 DEF OnFrame
  <2> DEFINE fx == f.x
             fy == f.y
             fw == f.w
             fh == f.h
             w == size.w
             h == size.h
             x == at.x
             y == at.y
  <2>2. p.x \in (fx + x)..(fx + x + fw) /\ p.y \in (fy + y)..(fy + y + fh)
    BY <2>1, <1>4
  <2>3. /\ fx \in Nat /\ fy \in Nat /\ fw \in Nat /\ fh \in Nat /\ fx + fw <= w /\ fy + fh <= h
        /\ x \in Nat /\ y \in Nat /\ w \in Nat /\ h \in Nat
    BY <1>1, <1>3
  <2> HIDE DEF fx, fy, fw, fh, w, h, x, y
  <2>4. p.x \in x..(x + w) /\ p.y \in y..(y + h)
    BY <2>2, <2>3
  <2>5. Within(RectOf(text)) = [x : x..(x + w), y : y..(y + h)]
    BY DEF Within, RectOf, Rectangle, x, y, w, h
  <2> QED BY <2>1, <2>4, <2>5
<1> QED BY <1>6, <1>7

LEMMA OnScreen ==
    ASSUME Ready, NEW r, IsRect(r)
    PROVE  /\ Within(r) \subseteq [x : 0..(Columns - 1), y : Nat]
           /\ \A a \in Addresses : Pixel(a) \in Within(r) <=> In(Pixel(a), r)
<1> DEFINE x == r.x
           y == r.y
           w == r.w
           h == r.h
<1>1. x \in Nat /\ y \in Nat /\ w \in Nat /\ h \in Nat /\ x + w < Columns /\ Columns \in Nat
  BY FormatFacts DEF IsRect, Ready, DeviceInv
<1> HIDE DEF x, y, w, h
<1>2. x..(x + w) \subseteq 0..(Columns - 1) /\ y..(y + h) \subseteq Nat
  BY <1>1
<1>3. Within(r) = [x : x..(x + w), y : y..(y + h)]
  BY DEF Within, x, y, w, h
<1>4. Within(r) \subseteq [x : 0..(Columns - 1), y : Nat]
  BY <1>2, <1>3
<1>5. ASSUME NEW a \in Addresses
      PROVE  Pixel(a) \in Within(r) <=> In(Pixel(a), r)
  <2>1. Pixel(a) = [x |-> Pixel(a).x, y |-> Pixel(a).y]
    BY DEF Pixel
  <2> QED BY <2>1 DEF Within, In
<1> QED BY <1>4, <1>5

\* What is in a byte when the window is on top of a memory with a layout in it.
Pictured(text, mem, a) ==
    IF In(Pixel(a), RectOf(text)) THEN <<PictureOf(Layout(text))[Pixel(a)], Part(a)>>
    ELSE mem[a]

LEMMA PictureIs ==
    ASSUME Ready, at \in Positions, widget \in Widgets, NEW text \in ContentsOf(widget),
           NEW a \in Addresses
    PROVE  /\ Pixel(a) \in DOMAIN PictureOf(Layout(text)) <=> In(Pixel(a), RectOf(text))
           /\ In(Pixel(a), RectOf(text)) =>
                PictureOf(Layout(text))[Pixel(a)] =
                  IF Pixel(a) \in Ink(Layout(text)) THEN "text"
                  ELSE IF \E r \in FramesOf(Layout(text)) : Pixel(a) \in FramePoints(r) THEN "border"
                  ELSE "black"
<1>1. IsRect(RectOf(text))
  BY RectangleIs DEF RectOf
<1>2. DOMAIN PictureOf(Layout(text)) = Within(RectOf(text))
  BY DEF PictureOf, Within, RectOf, Rectangle
<1>3. Pixel(a) \in Within(RectOf(text)) <=> In(Pixel(a), RectOf(text))
  BY <1>1, OnScreen
<1>4. ASSUME In(Pixel(a), RectOf(text))
      PROVE  PictureOf(Layout(text))[Pixel(a)] =
               IF Pixel(a) \in Ink(Layout(text)) THEN "text"
               ELSE IF \E r \in FramesOf(Layout(text)) : OnFrame(Pixel(a), r) THEN "border"
               ELSE "black"
  <2>1. Pixel(a) \in Within(RectOf(text))
    BY <1>3, <1>4
  <2> QED BY <2>1 DEF PictureOf, Within, RectOf, Rectangle
<1>5. Pixel(a) \in [x : Int, y : Int]
  <2>1. a \in Nat
    BY AddressesNat DEF Ready
  <2>2. Pixel(a).x \in Int /\ Pixel(a).y \in Int
    BY <2>1, PixelIs
  <2> QED BY <2>2 DEF Pixel
<1>6. \A r \in FramesOf(Layout(text)) : Pixel(a) \in FramePoints(r) <=> OnFrame(Pixel(a), r)
  BY <1>5, FramesInside
<1> QED BY <1>2, <1>3, <1>4, <1>6

LEMMA DrawIs ==
    ASSUME Fitted, Ready, at \in Positions, widget \in Widgets, NEW text \in ContentsOf(widget),
           NEW mem, IsMemory(mem)
    PROVE  /\ IsMemory(Draw(mem, Layout(text)))
           /\ \A a \in Addresses : Draw(mem, Layout(text))[a] = Pictured(text, mem, a)
<1> DEFINE layout == Layout(text)
           rect == RectOf(text)
           edges == UNION {FramePoints(r) : r \in FramesOf(layout)}
           ink == Ink(layout)
           filled == FillRect(mem, rect, "black")
           framed == PutPixels(filled, edges, "border")
           new == PutPixels(framed, ink, "text")
<1>1. IsRect(rect)
  BY RectangleIs DEF RectOf
<1>2. Draw(mem, layout) = new
  BY DEF Draw, RectOf
<1>3. edges \subseteq Within(rect) /\ ink \subseteq Within(rect)
  BY FramesInside, InkInside
<1>4. /\ edges \subseteq [x : 0..(Columns - 1), y : Nat] /\ ink \subseteq [x : 0..(Columns - 1), y : Nat]
      /\ \A a \in Addresses : Pixel(a) \in Within(rect) <=> In(Pixel(a), rect)
  BY <1>1, <1>3, OnScreen
<1> HIDE DEF rect, edges, ink
<1>5. /\ IsMemory(filled)
      /\ \A a \in Addresses :
           filled[a] = IF In(Pixel(a), rect) THEN <<"black", Part(a)>> ELSE mem[a]
  BY <1>1, FillIs
<1> HIDE DEF filled
<1>6. /\ IsMemory(framed)
      /\ \A a \in Addresses :
           framed[a] = IF Pixel(a) \in edges THEN <<"border", Part(a)>> ELSE filled[a]
  BY <1>4, <1>5, PutIs
<1> HIDE DEF framed
<1>7. /\ IsMemory(new)
      /\ \A a \in Addresses : new[a] = IF Pixel(a) \in ink THEN <<"text", Part(a)>> ELSE framed[a]
  BY <1>4, <1>6, PutIs
<1> HIDE DEF new
<1>8. ASSUME NEW a \in Addresses
      PROVE  new[a] = Pictured(text, mem, a)
  <2>1. In(Pixel(a), rect) =>
          PictureOf(layout)[Pixel(a)] = IF Pixel(a) \in ink THEN "text"
                                        ELSE IF Pixel(a) \in edges THEN "border" ELSE "black"
    BY PictureIs DEF rect, ink, edges
  <2>2. Pictured(text, mem, a) =
          IF In(Pixel(a), rect) THEN <<PictureOf(layout)[Pixel(a)], Part(a)>> ELSE mem[a]
    BY DEF Pictured, rect
  <2>3. (Pixel(a) \in ink \/ Pixel(a) \in edges) => In(Pixel(a), rect)
    BY <1>3, <1>4
  <2>4. new[a] = IF Pixel(a) \in ink THEN <<"text", Part(a)>>
                 ELSE IF Pixel(a) \in edges THEN <<"border", Part(a)>>
                 ELSE IF In(Pixel(a), rect) THEN <<"black", Part(a)>> ELSE mem[a]
    BY <1>5, <1>6, <1>7
  <2> HIDE DEF layout
  <2>5. CASE In(Pixel(a), rect)
    <3>1. CASE Pixel(a) \in ink
      BY <2>1, <2>2, <2>4, <2>5, <3>1
    <3>2. CASE Pixel(a) \notin ink /\ Pixel(a) \in edges
      BY <2>1, <2>2, <2>4, <2>5, <3>2
    <3>3. CASE Pixel(a) \notin ink /\ Pixel(a) \notin edges
      BY <2>1, <2>2, <2>4, <2>5, <3>3
    <3> QED BY <3>1, <3>2, <3>3
  <2>6. CASE ~In(Pixel(a), rect)
    BY <2>2, <2>3, <2>4, <2>6
  <2> QED BY <2>5, <2>6
<1> QED BY <1>2, <1>7, <1>8

-----------------------------------------------------------------------------
(***************************************************************************)
(* The window.                                                             *)
(***************************************************************************)

\* What a widget may have drawn, with what size, and the screen with the window
\* on top.
Drawings == ContentsOf(widget) \union {NothingDrawn}
SizeOf(text) == IF text = NothingDrawn THEN [w |-> 0, h |-> 0] ELSE Layout(text).size
RectFor(text) == Rectangle(at.x, at.y, SizeOf(text))
Painted(text) == IF text = NothingDrawn THEN TermBytes ELSE Draw(TermBytes, Layout(text))

\* A shown window is on top of the terminal and saves what is under it, a hidden
\* one saves itself; before the first drawing it may have nothing to save.
Sound(w, text) ==
    /\ w = [mem |-> w.mem, size |-> w.size, visible |-> w.visible, bg |-> w.bg, fg |-> w.fg]
    /\ w.visible \in BOOLEAN
    /\ w.size = SizeOf(text)
    /\ w.visible => /\ w.mem = Painted(text)
                    /\ w.bg = SaveRect(TermBytes, RectFor(text))
                    /\ w.fg = NULL
    /\ ~w.visible => /\ w.mem = TermBytes
                     /\ w.bg = NULL
                     /\ \/ w.fg = SaveRect(Painted(text), RectFor(text))
                        \/ text = NothingDrawn /\ w.fg = NULL

Settled == Fitted /\ Ready /\ widget \in Widgets /\ at \in Positions

Win(mem, size, visible, bg, fg) ==
    [mem |-> mem, size |-> size, visible |-> visible, bg |-> bg, fg |-> fg]

LEMMA NothingIsNoContent ==
    ASSUME NEW w \in Widgets
    PROVE  NothingDrawn \notin ContentsOf(w)
<1>1. NothingDrawn \notin Texts[w]
  BY TextsAssumption
<1>2. NothingDrawn # Nothing(w)
  <2>1. Len(NothingDrawn) = 1 /\ Len(<<>>) = 0 /\ Len(<<<<>>, <<>>>>) = 2
    BY DEF NothingDrawn
  <2> QED BY <2>1 DEF Nothing
<1> QED BY <1>1, <1>2 DEF ContentsOf

LEMMA SameMemory ==
    ASSUME NEW m, IsMemory(m), NEW n, IsMemory(n), \A a \in Addresses : m[a] = n[a]
    PROVE  m = n
<1>1. m = [a \in Addresses |-> m[a]] /\ n = [a \in Addresses |-> n[a]]
  BY DEF IsMemory
<1>2. [a \in Addresses |-> m[a]] = [a \in Addresses |-> n[a]]
  OBVIOUS
<1> QED BY <1>1, <1>2

LEMMA TermIsMemory == IsMemory(TermBytes)
BY DEF IsMemory, TermBytes, Addresses

LEMMA PaintedIs ==
    ASSUME Settled, NEW text \in Drawings
    PROVE  /\ IsRect(RectFor(text))
           /\ IsMemory(Painted(text))
           /\ \A a \in Addresses : ~In(Pixel(a), RectFor(text)) => Painted(text)[a] = TermBytes[a]
<1>1. CASE text = NothingDrawn
  <2> DEFINE x == at.x
  <2>1. Nothing(widget) \in ContentsOf(widget)
    BY DEF ContentsOf
  <2>2. IsRect(RectOf(Nothing(widget))) /\ x \in Nat /\ at.y \in Nat
    BY <2>1, RectangleIs DEF Settled, RectOf
  <2>3. /\ RectOf(Nothing(widget)).x = x
        /\ RectFor(text) = [x |-> x, y |-> at.y, w |-> 0, h |-> 0]
    BY <1>1 DEF RectOf, RectFor, Rectangle, SizeOf
  <2>4. Columns \in Nat
    BY FormatFacts DEF Settled, Ready, DeviceInv
  <2> HIDE DEF x
  <2>5. x + 0 < Columns
    BY <2>2, <2>3, <2>4 DEF IsRect
  <2>6. IsRect(RectFor(text))
    BY <2>2, <2>3, <2>5 DEF IsRect
  <2> QED BY <1>1, <2>6, TermIsMemory DEF Painted
<1>2. CASE text # NothingDrawn
  <2>1. text \in ContentsOf(widget)
    BY <1>2 DEF Drawings
  <2>2. RectFor(text) = RectOf(text) /\ Painted(text) = Draw(TermBytes, Layout(text))
    BY <1>2 DEF RectFor, RectOf, SizeOf, Painted
  <2>3. IsRect(RectFor(text))
    BY <2>1, <2>2, RectangleIs DEF Settled, RectOf
  <2>4. /\ IsMemory(Painted(text))
        /\ \A a \in Addresses : Painted(text)[a] = Pictured(text, TermBytes, a)
    BY <2>1, <2>2, DrawIs, TermIsMemory DEF Settled
  <2> QED BY <2>2, <2>3, <2>4 DEF Pictured
<1> QED BY <1>1, <1>2

\* A rectangle given back to a screen that differs from the saved one in it only.
LEMMA GivenBack ==
    ASSUME Ready, NEW r, IsRect(r), NEW mem, IsMemory(mem), NEW old, IsMemory(old),
           \A a \in Addresses : ~In(Pixel(a), r) => mem[a] = old[a]
    PROVE  RstrRect(mem, r, SaveRect(old, r)) = old /\ SaveRect(old, r) # NULL
<1> DEFINE new == RstrRect(mem, r, SaveRect(old, r))
<1>1. IsMemory(new) /\ \A a \in Addresses : new[a] = IF In(Pixel(a), r) THEN old[a] ELSE mem[a]
  BY RstrIs
<1> HIDE DEF new
<1>2. new = old
  BY <1>1, SameMemory
<1> QED BY <1>2, SavedIsBuffer DEF new

LEMMA HideSound ==
    ASSUME Settled, NEW text \in Drawings, NEW w, Sound(w, text)
    PROVE  Sound(Hidden(w), text) /\ ~Hidden(w).visible
<1> DEFINE r == RectFor(text)
<1>1. CASE ~w.visible
  BY <1>1 DEF Hidden
<1>2. CASE w.visible
  <2>1. /\ w.mem = Painted(text) /\ w.bg = SaveRect(TermBytes, r) /\ w.fg = NULL
        /\ Rectangle(at.x, at.y, w.size) = r
    BY <1>2 DEF Sound, RectFor
  <2>2. Restored(w, w.bg) = TermBytes
    BY <2>1, PaintedIs, TermIsMemory, GivenBack DEF Settled, Restored
  <2>3. Saved(w) = SaveRect(Painted(text), r)
    BY <2>1 DEF Saved
  <2>4. Hidden(w) = [mem |-> TermBytes, size |-> w.size, visible |-> FALSE,
                     bg |-> NULL, fg |-> SaveRect(Painted(text), r)]
    BY <1>2, <2>2, <2>3 DEF Hidden, Sound
  <2> QED BY <2>4 DEF Sound
<1> QED BY <1>1, <1>2

LEMMA ShowSound ==
    ASSUME Settled, NEW text \in Drawings, NEW w, Sound(w, text)
    PROVE  Sound(Shown(w), text) /\ Shown(w).visible
<1> DEFINE r == RectFor(text)
<1>1. CASE w.visible
  BY <1>1 DEF Shown
<1>2. CASE ~w.visible
  <2>1. /\ w.mem = TermBytes
        /\ \/ w.fg = SaveRect(Painted(text), r)
           \/ text = NothingDrawn /\ w.fg = NULL
        /\ Rectangle(at.x, at.y, w.size) = r
    BY <1>2 DEF Sound, RectFor
  <2>2. Restored(w, w.fg) = Painted(text)
    <3>1. CASE w.fg = SaveRect(Painted(text), r)
      BY <2>1, <3>1, PaintedIs, TermIsMemory, GivenBack DEF Settled, Restored
    <3>2. CASE text = NothingDrawn /\ w.fg = NULL
      BY <2>1, <3>2 DEF Restored, Painted
    <3> QED BY <2>1, <3>1, <3>2
  <2>3. Saved(w) = SaveRect(TermBytes, r)
    BY <2>1 DEF Saved
  <2>4. Shown(w) = [mem |-> Painted(text), size |-> w.size, visible |-> TRUE,
                    bg |-> SaveRect(TermBytes, r), fg |-> NULL]
    BY <1>2, <2>2, <2>3 DEF Shown, Sound
  <2> QED BY <2>4 DEF Sound
<1> QED BY <1>1, <1>2

\* What a rendering does, measured, saved, drawn, saved and given back.
LEMMA RedrawnIs ==
    ASSUME NEW w, w = Win(w.mem, w.size, w.visible, w.bg, w.fg), NEW text,
           SaveRect(w.mem, RectOf(text)) # NULL
    PROVE  LET r     == RectOf(text)
               drawing == Draw(w.mem, Layout(text))
           IN  Redrawn(w, text) =
                 Win(RstrRect(drawing, r, SaveRect(w.mem, r)), Layout(text).size, w.visible,
                     NULL, SaveRect(drawing, r))
<1> DEFINE r == RectOf(text)
           size == Layout(text).size
           before == SaveRect(w.mem, r)
           drawing == Draw(w.mem, Layout(text))
           after == SaveRect(drawing, r)
           back == RstrRect(drawing, r, before)
           measured == Win(w.mem, size, w.visible, w.bg, w.fg)
           pushed == Win(w.mem, size, w.visible, before, w.fg)
           painted == Win(drawing, size, w.visible, before, w.fg)
           kept == Win(drawing, size, w.visible, before, after)
<1>1. Rectangle(at.x, at.y, size) = r /\ before # NULL
  BY DEF RectOf
<1> HIDE DEF r, size, before, after, back
<1>2. [w EXCEPT !.size = size] = measured
  BY DEF Win
<1>3. [measured EXCEPT !.bg = Saved(measured)] = pushed
  <2>1. measured.mem = w.mem /\ measured.size = size
    BY DEF Win
  <2>2. Saved(measured) = before
    BY <1>1, <2>1 DEF Saved, before
  <2> QED BY <2>2 DEF Win
<1>4. [pushed EXCEPT !.mem = Draw(pushed.mem, Layout(text))] = painted
  <2>1. pushed.mem = w.mem
    BY DEF Win
  <2> QED BY <2>1 DEF Win
<1>5. [painted EXCEPT !.fg = Saved(painted)] = kept
  <2>1. painted.mem = drawing /\ painted.size = size
    BY DEF Win
  <2>2. Saved(painted) = after
    BY <1>1, <2>1 DEF Saved, after
  <2> QED BY <2>2 DEF Win
<1>6. [kept EXCEPT !.mem = Restored(kept, kept.bg), !.bg = NULL]
        = Win(back, size, w.visible, NULL, after)
  <2>1. kept.mem = drawing /\ kept.size = size /\ kept.bg = before
    BY DEF Win
  <2>2. Restored(kept, kept.bg) = back
    BY <1>1, <2>1 DEF Restored, back
  <2> DEFINE restored == Win(back, size, w.visible, before, after)
  <2>3. [kept EXCEPT !.mem = back] = restored
    BY DEF Win
  <2>4. [restored EXCEPT !.bg = NULL] = Win(back, size, w.visible, NULL, after)
    BY DEF Win
  <2> HIDE DEF kept, restored
  <2>5. [kept EXCEPT !.mem = back, !.bg = NULL] = [[kept EXCEPT !.mem = back] EXCEPT !.bg = NULL]
    OBVIOUS
  <2> QED BY <2>2, <2>3, <2>4, <2>5
<1>7. Redrawn(w, text) = Win(back, size, w.visible, NULL, after)
  <2>1. Redrawn(w, text) =
          LET measure == [w EXCEPT !.size = size]
              push    == [measure EXCEPT !.bg = Saved(measure)]
              paint   == [push EXCEPT !.mem = Draw(push.mem, Layout(text))]
              keep    == [paint EXCEPT !.fg = Saved(paint)]
          IN  [keep EXCEPT !.mem = Restored(keep, keep.bg), !.bg = NULL]
    BY DEF Redrawn, size
  <2> HIDE DEF measured, pushed, painted, kept
  <2> QED BY <1>2, <1>3, <1>4, <1>5, <1>6, <2>1
<1> QED BY <1>7 DEF r, size, before, after, back

\* A rendering leaves the terminal as it was, and the picture of the text saved.
LEMMA RedrawSound ==
    ASSUME Settled, NEW old \in Drawings, NEW w, Sound(w, old), ~w.visible,
           NEW text \in ContentsOf(widget)
    PROVE  Sound(Redrawn(w, text), text) /\ ~Redrawn(w, text).visible
<1> DEFINE r == RectFor(text)
           before == SaveRect(TermBytes, r)
           after == SaveRect(Painted(text), r)
<1>1. text \in Drawings /\ text # NothingDrawn
  BY NothingIsNoContent DEF Drawings, Settled
<1>2. /\ SizeOf(text) = Layout(text).size /\ RectOf(text) = r
      /\ Painted(text) = Draw(TermBytes, Layout(text))
  BY <1>1 DEF SizeOf, RectFor, RectOf, Painted
<1>3. RstrRect(Painted(text), r, before) = TermBytes /\ before # NULL
  BY <1>1, PaintedIs, TermIsMemory, GivenBack DEF Settled
<1>4. w = Win(w.mem, w.size, w.visible, w.bg, w.fg) /\ w.mem = TermBytes
  BY DEF Sound, Win
<1> HIDE DEF r, before, after
<1>5. Redrawn(w, text) = Win(TermBytes, SizeOf(text), w.visible, NULL, after)
  BY <1>2, <1>3, <1>4, RedrawnIs DEF before, after
<1>6. Redrawn(w, text) = [mem |-> TermBytes, size |-> SizeOf(text), visible |-> w.visible,
                          bg |-> NULL, fg |-> after]
  BY <1>5 DEF Win
<1>7. w.visible \in BOOLEAN
  BY DEF Sound
<1> QED BY <1>6, <1>7 DEF Sound, r, after

-----------------------------------------------------------------------------
(***************************************************************************)
(* Operations, once the device is open, leave it alone.                    *)
(***************************************************************************)

LEMMA SameDrawing ==
    ASSUME UNCHANGED <<device, widget, at>>
    PROVE  /\ BytesPerPixel' = BytesPerPixel /\ TermBytes' = TermBytes
           /\ \A mem, r : SaveRect(mem, r)' = SaveRect(mem, r)
           /\ \A mem, layout : Draw(mem, layout)' = Draw(mem, layout)
<1>1. BytesPerPixel' = BytesPerPixel
  BY DEF BytesPerPixel, Driver, device
<1>2. \A x, y : Address(x, y)' = Address(x, y)
  BY <1>1 DEF Address, device
<1>3. \A mem, r : SaveRect(mem, r)' = SaveRect(mem, r)
  <2>1. \A r : RowBytes(r)' = RowBytes(r)
    BY <1>1 DEF RowBytes
  <2> QED BY <1>2, <2>1 DEF SaveRect
<1>4. ASSUME NEW mem, NEW x, NEW rows
      PROVE  Store(mem, x, rows)' = Store(mem, x, rows)
  <2> DEFINE hits(a) == {y \in DOMAIN rows : (a - Address(x, y)) \in DOMAIN rows[y]}
             byte(a) == IF hits(a) = {} THEN mem[a]
                        ELSE rows[Max(hits(a))][a - Address(x, Max(hits(a)))]
  <2>1. \A a : hits(a)' = hits(a)
    BY <1>2
  <2>2. \A a : byte(a)' = byte(a)
    <3> HIDE DEF hits
    <3> QED BY <1>2, <2>1
  <2>3. Store(mem, x, rows) = [a \in DOMAIN mem |-> byte(a)]
    BY DEF Store
  <2>4. Store(mem, x, rows)' = [a \in DOMAIN mem |-> byte(a)']
    BY DEF Store
  <2> HIDE DEF byte
  <2> QED BY <2>2, <2>3, <2>4
<1>5. \A colour, n : ColourBytes(colour, n)' = ColourBytes(colour, n)
  BY <1>1 DEF ColourBytes
<1>6. \A mem, r, colour : FillRect(mem, r, colour)' = FillRect(mem, r, colour)
  <2>1. \A colour, n : FillRow(colour, n)' = FillRow(colour, n)
    BY <1>1, <1>5 DEF FillRow, FillRow16, FillRow24, FillRow32
  <2> QED BY <1>4, <2>1 DEF FillRect
<1>7. ASSUME NEW mem, NEW points, NEW colour
      PROVE  PutPixels(mem, points, colour)' = PutPixels(mem, points, colour)
  <2> DEFINE hits(a) == {p \in points : (a - Address(p.x, p.y)) \in 0..(BytesPerPixel - 1)}
             one(a) == CHOOSE p \in hits(a) : TRUE
             byte(a) == IF hits(a) = {} THEN mem[a]
                        ELSE PixelOf(colour)[a - Address(one(a).x, one(a).y)]
  <2>1. PixelOf(colour)' = PixelOf(colour)
    BY <1>1, <1>5 DEF PixelOf
  <2>2. \A a : hits(a)' = hits(a)
    BY <1>1, <1>2
  <2>3. \A a : byte(a)' = byte(a)
    <3>1. \A a : one(a)' = one(a)
      <4> HIDE DEF hits
      <4> QED BY <2>2
    <3> HIDE DEF hits, one
    <3> QED BY <1>2, <2>1, <2>2, <3>1
  <2>4. PutPixels(mem, points, colour) = [a \in DOMAIN mem |-> byte(a)]
    BY DEF PutPixels
  <2>5. PutPixels(mem, points, colour)' = [a \in DOMAIN mem |-> byte(a)']
    BY DEF PutPixels
  <2> HIDE DEF byte
  <2> QED BY <2>3, <2>4, <2>5
<1>8. \A mem, layout : Draw(mem, layout)' = Draw(mem, layout)
  <2>1. \A layout : Ink(layout)' = Ink(layout) /\ FramesOf(layout)' = FramesOf(layout)
    BY DEF Ink, FramesOf
  <2> QED BY <1>6, <1>7, <2>1 DEF Draw
<1>9. TermBytes' = TermBytes
  BY DEF TermBytes, device
<1> QED BY <1>1, <1>3, <1>8, <1>9

LEMMA SameSound ==
    ASSUME UNCHANGED <<device, widget, at>>
    PROVE  \A w, text : Sound(w, text)' = Sound(w, text)
<1>1. \A text : Layout(text)' = Layout(text)
  BY DEF Layout
<1>2. \A text : RectFor(text)' = RectFor(text) /\ SizeOf(text)' = SizeOf(text)
  BY <1>1 DEF RectFor, SizeOf
<1>3. \A text : Painted(text)' = Painted(text)
  BY <1>1, SameDrawing DEF Painted
<1> QED BY <1>2, <1>3, SameDrawing DEF Sound

-----------------------------------------------------------------------------
(***************************************************************************)
(* The inductive invariant.                                                *)
(***************************************************************************)

\* The device, and what has been given and drawn.
Common ==
    /\ DeviceInv
    /\ widget \in Widgets /\ at \in Positions
    /\ content \in ContentsOf(widget) /\ drawn \in Drawings
    /\ ~Opened => drawn = NothingDrawn /\ ~win.visible /\ win.fg = NULL

IInv == Common /\ Sound(win, drawn)

\* What the steps do to the window.
Toggled(w) == IF w.visible THEN Hidden(w) ELSE Shown(w)
Rendered(w, text) == IF w.visible THEN Shown(Redrawn(Hidden(w), text)) ELSE Redrawn(w, text)

LEMMA StepIs ==
    ASSUME Common, [Next]_vars
    PROVE  \/ Open
           \/ /\ UNCHANGED <<device, widget, at>>
              /\ \/ UNCHANGED <<drawn, win>>
                 \/ Opened /\ drawn' = drawn /\ win' = Toggled(win)
                 \/ Opened /\ drawn' \in ContentsOf(widget) /\ win' = Rendered(win, drawn')
<1>1. ASSUME NEW text \in ContentsOf(widget), Opened, Renders(text)
      PROVE  /\ UNCHANGED <<device, widget, at>>
             /\ drawn' \in ContentsOf(widget) /\ win' = Rendered(win, drawn')
  BY <1>1 DEF Renders, Rendered
<1>2. CASE SetName
  BY <1>2 DEF SetName
<1>3. CASE AppendText
  BY <1>3 DEF AppendText
<1>4. CASE Render
  BY <1>1, <1>4 DEF Render, Common
<1>5. CASE Clear
  <2>1. Nothing(widget) \in ContentsOf(widget)
    BY DEF ContentsOf
  <2> QED BY <1>1, <1>5, <2>1 DEF Clear
<1>6. CASE SetFocus
  BY <1>6 DEF SetFocus, Toggled
<1>7. CASE UNCHANGED vars
  BY <1>7 DEF vars
<1> QED BY <1>2, <1>3, <1>4, <1>5, <1>6, <1>7 DEF Next

LEMMA InitCommon ==
    ASSUME Init
    PROVE  Common
<1>1. DeviceInv
  BY DEF Init, DeviceInit, DeviceInv, AllPorts
<1>2. content \in ContentsOf(widget) /\ drawn \in Drawings
  BY DEF Init, ContentsOf, Drawings
<1>3. win.visible = FALSE /\ win.fg = NULL
  BY DEF Init
<1> QED BY <1>1, <1>2, <1>3 DEF Init, Common

\* Opening the device once more.
LEMMA OpenIs ==
    ASSUME Exact, Common, Open
    PROVE  /\ Common' /\ UNCHANGED <<format, widget, at, drawn, win>> /\ TermBytes' = TermBytes
           /\ drawn = NothingDrawn /\ ~win.visible /\ win.fg = NULL
<1>1. OpenPort /\ UNCHANGED <<widget, at, content, drawn, win>>
  BY DEF Open
<1>2. ports < AllPorts /\ format' = format /\ ports \in 0..AllPorts
  BY <1>1 DEF OpenPort, Common, DeviceInv
<1>3. ~Opened
  BY <1>2 DEF Opened, AllPorts
<1>4. DeviceInv'
  BY <1>1, OpenDevice DEF Common
<1>5. drawn = NothingDrawn /\ ~win.visible /\ win.fg = NULL
  BY <1>3 DEF Common
<1>6. (content \in ContentsOf(widget) /\ drawn \in Drawings)'
  BY <1>1 DEF Common, Drawings
<1>7. TermBytes' = TermBytes
  BY <1>2 DEF TermBytes
<1> QED BY <1>1, <1>2, <1>4, <1>5, <1>6, <1>7 DEF Common

LEMMA NextCommon ==
    ASSUME Exact, Common, [Next]_vars
    PROVE  Common'
<1>1. CASE Open
  BY <1>1, OpenIs
<1>2. CASE ~Open
  <2>1. UNCHANGED <<device, widget, at>> /\ drawn' \in Drawings
    BY <1>2, StepIs DEF Common, Drawings
  <2>2. BytesPerPixel' = BytesPerPixel /\ Columns' = Columns
    BY <2>1 DEF device, Columns, BytesPerPixel, Driver
  <2>3. DeviceInv' /\ (Opened' <=> Opened)
    BY <2>1, <2>2 DEF device, Common, DeviceInv, Opened
  <2>4. (drawn \in Drawings)'
    BY <2>1 DEF Drawings
  <2>5. (content \in ContentsOf(widget))'
    <3>1. content' \in ContentsOf(widget)
      BY <1>2 DEF Next, SetName, AppendText, Render, Clear, Renders, SetFocus, vars, Common, ContentsOf
    <3> QED BY <2>1, <3>1
  <2>6. CASE Opened
    BY <2>1, <2>3, <2>4, <2>5, <2>6 DEF Common
  <2>7. CASE ~Opened
    <3>1. UNCHANGED <<drawn, win>>
      BY <1>2, <2>7, StepIs
    <3> QED BY <2>1, <2>3, <2>4, <2>5, <2>7, <3>1 DEF Common
  <2> QED BY <2>6, <2>7
<1> QED BY <1>1, <1>2

LEMMA InitInv ==
    ASSUME Init
    PROVE  IInv
<1>1. Sound(win, drawn)
  BY DEF Init, Sound, SizeOf
<1> QED BY <1>1, InitCommon DEF IInv

\* A rendering of a shown window hides it, draws, and shows it again.
LEMMA RenderSound ==
    ASSUME Settled, drawn \in Drawings, Sound(win, drawn), NEW text \in ContentsOf(widget)
    PROVE  Sound(Rendered(win, text), text)
<1> DEFINE hidden == IF win.visible THEN Hidden(win) ELSE win
           new == Redrawn(hidden, text)
<1>1. Sound(hidden, drawn) /\ ~hidden.visible
  BY HideSound
<1>2. text \in Drawings
  BY DEF Drawings
<1>3. Sound(new, text)
  BY <1>1, RedrawSound
<1>4. CASE win.visible
  <2>1. Sound(Shown(new), text)
    BY <1>2, <1>3, ShowSound
  <2> QED BY <1>4, <2>1 DEF Rendered
<1>5. CASE ~win.visible
  BY <1>3, <1>5 DEF Rendered
<1> QED BY <1>4, <1>5

LEMMA NextInv ==
    ASSUME Exact, Fitted, IInv, [Next]_vars
    PROVE  IInv'
<1>1. Common /\ Common' /\ Sound(win, drawn) /\ drawn \in Drawings
  BY NextCommon DEF IInv, Common
<1>2. CASE Open
  <2>1. /\ UNCHANGED <<widget, at, drawn, win>> /\ TermBytes' = TermBytes
        /\ drawn = NothingDrawn /\ ~win.visible /\ win.fg = NULL
    BY <1>1, <1>2, OpenIs
  <2>2. /\ win = [mem |-> win.mem, size |-> win.size, visible |-> win.visible,
                  bg |-> win.bg, fg |-> win.fg]
        /\ win.visible \in BOOLEAN /\ win.size = [w |-> 0, h |-> 0]
        /\ win.mem = TermBytes /\ win.bg = NULL
    BY <1>1, <2>1 DEF Sound, SizeOf
  <2>3. SizeOf(drawn)' = [w |-> 0, h |-> 0]
    BY <2>1 DEF SizeOf
  <2>4. Sound(win, drawn)'
    BY <2>1, <2>2, <2>3 DEF Sound
  <2> QED BY <1>1, <2>4 DEF IInv
<1>3. CASE ~Open
  <2>1. UNCHANGED <<device, widget, at>>
    BY <1>1, <1>3, StepIs
  <2>2. Sound(win', drawn')
    <3>1. CASE UNCHANGED <<drawn, win>>
      BY <1>1, <3>1
    <3>2. CASE Opened /\ drawn' = drawn /\ win' = Toggled(win)
      <4>1. Settled
        BY <1>1, <3>2 DEF Settled, Common, Ready
      <4> QED BY <1>1, <3>2, <4>1, HideSound, ShowSound DEF Toggled
    <3>3. CASE Opened /\ drawn' \in ContentsOf(widget) /\ win' = Rendered(win, drawn')
      <4>1. Settled
        BY <1>1, <3>3 DEF Settled, Common, Ready
      <4> QED BY <1>1, <3>3, <4>1, RenderSound
    <3> QED BY <1>1, <1>3, <3>1, <3>2, <3>3, StepIs
  <2>3. Sound(win, drawn)'
    BY <2>1, <2>2, SameSound
  <2> QED BY <1>1, <2>3 DEF IInv
<1> QED BY <1>2, <1>3

LEMMA Inductive == Exact /\ Fitted => (Spec => []IInv)
<1> SUFFICES ASSUME Exact, Fitted PROVE Spec => []IInv
  OBVIOUS
<1>1. Init => IInv
  BY InitInv
<1>2. IInv /\ [Next]_vars => IInv'
  BY NextInv
<1> QED BY <1>1, <1>2, PTL DEF Spec

-----------------------------------------------------------------------------
(***************************************************************************)
(* Any font: what sticks out of a window stays, but nothing else does.      *)
(***************************************************************************)

TextBytes == {<<"text", k>> : k \in 0..(BytesPerPixel - 1)}

\* The terminal's bytes, and pixels of texts among them.
Strewn(mem) ==
    IsMemory(mem) /\ \A a \in Addresses : mem[a] = TermBytes[a] \/ mem[a] \in TextBytes

\* A shown window saves what is under it, which it has not changed elsewhere; a
\* hidden one saves something of its size.
Tidy(w, text) ==
    /\ w = [mem |-> w.mem, size |-> w.size, visible |-> w.visible, bg |-> w.bg, fg |-> w.fg]
    /\ w.visible \in BOOLEAN
    /\ w.size = SizeOf(text)
    /\ IsMemory(w.mem)
    /\ w.visible =>
         /\ \E under : /\ Strewn(under) /\ w.bg = SaveRect(under, RectFor(text))
                       /\ \A a \in Addresses : ~In(Pixel(a), RectFor(text)) => w.mem[a] = under[a]
         /\ w.fg = NULL
    /\ ~w.visible =>
         /\ Strewn(w.mem) /\ w.bg = NULL
         /\ \/ \E own : IsMemory(own) /\ w.fg = SaveRect(own, RectFor(text))
            \/ text = NothingDrawn /\ w.fg = NULL

Placed == Ready /\ widget \in Widgets /\ at \in Positions

\* Wherever the points are, PutPixel stores bytes of its colour and nothing else.
LEMMA PutSome ==
    ASSUME Ready, NEW mem, IsMemory(mem), NEW points
    PROVE  LET new == PutPixels(mem, points, "text")
           IN  /\ IsMemory(new)
               /\ \A a \in Addresses : new[a] = mem[a] \/ new[a] \in TextBytes
<1> DEFINE b == BytesPerPixel
           hits(a) == {p \in points : (a - Address(p.x, p.y)) \in 0..(b - 1)}
           one(a) == CHOOSE p \in hits(a) : TRUE
           place(a) == a - Address(one(a).x, one(a).y)
           new == [a \in Addresses |-> IF hits(a) = {} THEN mem[a] ELSE PixelOf("text")[place(a)]]
<1>1. PutPixels(mem, points, "text") = new
  <2>1. DOMAIN mem = Addresses
    BY DEF IsMemory
  <2> QED BY <2>1 DEF PutPixels
<1>2. b \in {2, 4}
  BY FormatFacts DEF Ready, DeviceInv
<1>3. PixelOf("text") = [k \in 0..(b - 1) |-> <<"text", k % b>>]
  BY <1>2 DEF PixelOf, ColourBytes
<1>4. ASSUME NEW a \in Addresses, hits(a) # {}
      PROVE  PixelOf("text")[place(a)] \in TextBytes
  <2>1. one(a) \in hits(a)
    BY <1>4
  <2>2. place(a) \in 0..(b - 1)
    BY <2>1
  <2> HIDE DEF place
  <2>3. PixelOf("text")[place(a)] = <<"text", place(a) % b>> /\ place(a) % b \in 0..(b - 1)
    BY <1>2, <1>3, <2>2
  <2> QED BY <2>3 DEF TextBytes
<1>5. IsMemory(new)
  BY DEF IsMemory
<1>6. \A a \in Addresses : new[a] = mem[a] \/ new[a] \in TextBytes
  <2> HIDE DEF hits, place
  <2> QED BY <1>4
<1> QED BY <1>1, <1>5, <1>6

\* Outside its rectangle a window draws nothing but pixels of its texts.
LEMMA DrawOutside ==
    ASSUME Placed, NEW text \in ContentsOf(widget), NEW mem, IsMemory(mem)
    PROVE  LET new == Draw(mem, Layout(text))
           IN  /\ IsMemory(new)
               /\ \A a \in Addresses :
                    ~In(Pixel(a), RectOf(text)) => new[a] = mem[a] \/ new[a] \in TextBytes
<1> DEFINE layout == Layout(text)
           rect == RectOf(text)
           edges == UNION {FramePoints(r) : r \in FramesOf(layout)}
           filled == FillRect(mem, rect, "black")
           framed == PutPixels(filled, edges, "border")
           new == PutPixels(framed, Ink(layout), "text")
<1>1. IsRect(rect) /\ Draw(mem, layout) = new
  BY RectangleIs DEF RectOf, Draw, Placed
<1>2. edges \subseteq Within(rect)
  BY FramesInside DEF Placed
<1>3. /\ edges \subseteq [x : 0..(Columns - 1), y : Nat]
      /\ \A a \in Addresses : Pixel(a) \in Within(rect) <=> In(Pixel(a), rect)
  BY <1>1, <1>2, OnScreen DEF Placed
<1> HIDE DEF rect, edges
<1>4. /\ IsMemory(filled)
      /\ \A a \in Addresses : ~In(Pixel(a), rect) => filled[a] = mem[a]
  BY <1>1, FillIs DEF Placed
<1> HIDE DEF filled
<1>5. /\ IsMemory(framed)
      /\ \A a \in Addresses : ~In(Pixel(a), rect) => framed[a] = mem[a]
  <2>1. /\ IsMemory(framed)
        /\ \A a \in Addresses :
             framed[a] = IF Pixel(a) \in edges THEN <<"border", Part(a)>> ELSE filled[a]
    BY <1>3, <1>4, PutIs DEF Placed
  <2> HIDE DEF framed
  <2> QED BY <1>2, <1>3, <1>4, <2>1
<1> HIDE DEF framed
<1>6. IsMemory(new) /\ \A a \in Addresses : new[a] = framed[a] \/ new[a] \in TextBytes
  BY <1>5, PutSome DEF Placed
<1> HIDE DEF new
<1> QED BY <1>1, <1>5, <1>6 DEF rect

LEMMA RectForIs ==
    ASSUME Placed, NEW text \in Drawings
    PROVE  IsRect(RectFor(text))
<1>1. CASE text = NothingDrawn
  <2>1. Nothing(widget) \in ContentsOf(widget)
    BY DEF ContentsOf
  <2>2. IsRect(RectOf(Nothing(widget))) /\ at.x \in Nat /\ at.y \in Nat
    BY <2>1, RectangleIs DEF Placed, RectOf
  <2>3. /\ RectOf(Nothing(widget)).x = at.x
        /\ RectFor(text) = [x |-> at.x, y |-> at.y, w |-> 0, h |-> 0]
    BY <1>1 DEF RectOf, RectFor, Rectangle, SizeOf
  <2>4. Columns \in Nat
    BY FormatFacts DEF Placed, Ready, DeviceInv
  <2> DEFINE x == at.x
  <2>5. x + 0 < Columns
    <3>1. x \in Nat /\ x + RectOf(Nothing(widget)).w < Columns /\ RectOf(Nothing(widget)).w \in Nat
      BY <2>2, <2>3 DEF IsRect
    <3> HIDE DEF x
    <3> QED BY <2>4, <3>1
  <2> QED BY <2>2, <2>3, <2>5 DEF IsRect
<1>2. CASE text # NothingDrawn
  <2>1. text \in ContentsOf(widget) /\ RectFor(text) = RectOf(text)
    BY <1>2 DEF Drawings, RectFor, RectOf, SizeOf
  <2> QED BY <2>1, RectangleIs DEF Placed, RectOf
<1> QED BY <1>1, <1>2

LEMMA HideTidy ==
    ASSUME Placed, NEW text \in Drawings, NEW w, Tidy(w, text)
    PROVE  Tidy(Hidden(w), text) /\ ~Hidden(w).visible
<1> DEFINE r == RectFor(text)
<1>1. CASE ~w.visible
  BY <1>1 DEF Hidden
<1>2. CASE w.visible
  <2>1. PICK under : /\ Strewn(under) /\ w.bg = SaveRect(under, r)
                     /\ \A a \in Addresses : ~In(Pixel(a), r) => w.mem[a] = under[a]
    BY <1>2 DEF Tidy
  <2>2. /\ IsMemory(w.mem) /\ IsMemory(under) /\ IsRect(r) /\ w.fg = NULL
        /\ Rectangle(at.x, at.y, w.size) = r
    BY <1>2, <2>1, RectForIs DEF Tidy, Strewn, RectFor
  <2>3. Restored(w, w.bg) = under
    BY <2>1, <2>2, GivenBack DEF Placed, Restored
  <2>4. Saved(w) = SaveRect(w.mem, r)
    BY <2>2 DEF Saved
  <2>5. Hidden(w) = [mem |-> under, size |-> w.size, visible |-> FALSE,
                     bg |-> NULL, fg |-> SaveRect(w.mem, r)]
    BY <1>2, <2>3, <2>4 DEF Hidden, Tidy
  <2>6. \E own : IsMemory(own) /\ SaveRect(w.mem, r) = SaveRect(own, r)
    BY <2>2
  <2> HIDE DEF r
  <2> QED BY <2>1, <2>2, <2>5, <2>6 DEF Tidy, r
<1> QED BY <1>1, <1>2

LEMMA ShowTidy ==
    ASSUME Placed, NEW text \in Drawings, NEW w, Tidy(w, text)
    PROVE  Tidy(Shown(w), text) /\ Shown(w).visible
<1> DEFINE r == RectFor(text)
           mem == Restored(w, w.fg)
<1>1. CASE w.visible
  BY <1>1 DEF Shown
<1>2. CASE ~w.visible
  <2>1. /\ Strewn(w.mem) /\ IsMemory(w.mem) /\ IsRect(r)
        /\ Rectangle(at.x, at.y, w.size) = r
    BY <1>2, RectForIs DEF Tidy, RectFor
  <2>2. IsMemory(mem) /\ \A a \in Addresses : ~In(Pixel(a), r) => mem[a] = w.mem[a]
    <3>1. CASE w.fg = NULL
      BY <2>1, <3>1 DEF Restored
    <3>2. CASE w.fg # NULL
      <4>1. PICK own : IsMemory(own) /\ w.fg = SaveRect(own, r)
        BY <1>2, <3>2 DEF Tidy
      <4>2. mem = RstrRect(w.mem, r, SaveRect(own, r))
        BY <2>1, <3>2, <4>1 DEF Restored
      <4> DEFINE before == w.mem
      <4>3. Ready /\ IsMemory(before) /\ IsMemory(own) /\ IsRect(r)
        BY <2>1, <4>1 DEF Placed
      <4> HIDE DEF mem, r, before
      <4>4. LET new == RstrRect(before, r, SaveRect(own, r))
            IN  /\ IsMemory(new)
                /\ \A a \in Addresses : new[a] = IF In(Pixel(a), r) THEN own[a] ELSE before[a]
        BY <4>3, RstrIs
      <4> QED BY <4>2, <4>4 DEF before
    <3> QED BY <3>1, <3>2
  <2>3. Saved(w) = SaveRect(w.mem, r)
    BY <2>1 DEF Saved
  <2>4. Shown(w) = [mem |-> mem, size |-> w.size, visible |-> TRUE,
                    bg |-> SaveRect(w.mem, r), fg |-> NULL]
    BY <1>2, <2>3 DEF Shown, Tidy
  <2>5. \E under : /\ Strewn(under) /\ SaveRect(w.mem, r) = SaveRect(under, r)
                   /\ \A a \in Addresses : ~In(Pixel(a), r) => mem[a] = under[a]
    BY <2>1, <2>2
  <2> HIDE DEF r, mem
  <2> QED BY <2>2, <2>4, <2>5 DEF Tidy, r
<1> QED BY <1>1, <1>2

\* What a rendering has drawn is put back in its rectangle; outside it the pixels
\* of the text stay.
LEMMA RedrawTidy ==
    ASSUME Placed, NEW old \in Drawings, NEW w, Tidy(w, old), ~w.visible,
           NEW text \in ContentsOf(widget)
    PROVE  Tidy(Redrawn(w, text), text) /\ ~Redrawn(w, text).visible
<1> DEFINE r == RectFor(text)
           drawing == Draw(w.mem, Layout(text))
           back == RstrRect(drawing, r, SaveRect(w.mem, r))
           after == SaveRect(drawing, r)
<1>1. text \in Drawings /\ text # NothingDrawn
  BY NothingIsNoContent DEF Drawings, Placed
<1>2. SizeOf(text) = Layout(text).size /\ RectOf(text) = r
  BY <1>1 DEF SizeOf, RectFor, RectOf
<1>3. IsRect(r) /\ Strewn(w.mem) /\ IsMemory(w.mem) /\ w.visible \in BOOLEAN
  BY <1>1, RectForIs DEF Tidy
<1>4. /\ IsMemory(drawing)
      /\ \A a \in Addresses : ~In(Pixel(a), r) => drawing[a] = w.mem[a] \/ drawing[a] \in TextBytes
  BY <1>2, <1>3, DrawOutside
<1> HIDE DEF r, drawing
<1>5. /\ IsMemory(back)
      /\ \A a \in Addresses : back[a] = IF In(Pixel(a), r) THEN w.mem[a] ELSE drawing[a]
  BY <1>3, <1>4, RstrIs DEF Placed
<1> HIDE DEF back
<1>6. Strewn(back)
  BY <1>3, <1>4, <1>5 DEF Strewn
<1>7. w = Win(w.mem, w.size, w.visible, w.bg, w.fg) /\ SaveRect(w.mem, r) # NULL
  BY <1>3, SavedIsBuffer DEF Tidy, Win, Placed
<1>8. Redrawn(w, text) = Win(back, SizeOf(text), w.visible, NULL, after)
  BY <1>2, <1>7, RedrawnIs DEF back, drawing
<1>9. Redrawn(w, text) = [mem |-> back, size |-> SizeOf(text), visible |-> w.visible,
                          bg |-> NULL, fg |-> after]
  BY <1>8 DEF Win
<1>10. \E own : IsMemory(own) /\ after = SaveRect(own, r)
  BY <1>4
<1> HIDE DEF after
<1> QED BY <1>3, <1>5, <1>6, <1>9, <1>10 DEF Tidy, r

LEMMA RenderTidy ==
    ASSUME Placed, drawn \in Drawings, Tidy(win, drawn), NEW text \in ContentsOf(widget)
    PROVE  Tidy(Rendered(win, text), text)
<1> DEFINE hidden == IF win.visible THEN Hidden(win) ELSE win
           new == Redrawn(hidden, text)
<1>1. Tidy(hidden, drawn) /\ ~hidden.visible
  BY HideTidy
<1>2. text \in Drawings
  BY DEF Drawings
<1>3. Tidy(new, text)
  BY <1>1, RedrawTidy
<1>4. CASE win.visible
  <2>1. Tidy(Shown(new), text)
    BY <1>2, <1>3, ShowTidy
  <2> QED BY <1>4, <2>1 DEF Rendered
<1>5. CASE ~win.visible
  BY <1>3, <1>5 DEF Rendered
<1> QED BY <1>4, <1>5

LEMMA SameTidy ==
    ASSUME UNCHANGED <<device, widget, at>>
    PROVE  \A w, text : Tidy(w, text) => Tidy(w, text)'
<1>1. \A text : Layout(text)' = Layout(text)
  BY DEF Layout
<1>2. \A text : RectFor(text)' = RectFor(text) /\ SizeOf(text)' = SizeOf(text)
  BY <1>1 DEF RectFor, SizeOf
<1>3. /\ BytesPerPixel' = BytesPerPixel /\ TermBytes' = TermBytes
      /\ \A mem, r : SaveRect(mem, r)' = SaveRect(mem, r)
  BY SameDrawing
<1>4. Addresses' = Addresses /\ TextBytes' = TextBytes
  BY <1>3 DEF Addresses, TextBytes, device
<1>5. \A mem : IsMemory(mem)' = IsMemory(mem)
  BY <1>4 DEF IsMemory
<1>6. \A mem : Strewn(mem)' = Strewn(mem)
  BY <1>3, <1>4, <1>5 DEF Strewn
<1>7. \A a, r : In(Pixel(a), r)' = In(Pixel(a), r)
  BY <1>3 DEF In, Pixel, device
<1> QED BY <1>2, <1>3, <1>4, <1>5, <1>6, <1>7 DEF Tidy

AnyInv == Common /\ Tidy(win, drawn)

LEMMA NextAny ==
    ASSUME Exact, AnyInv, [Next]_vars
    PROVE  AnyInv'
<1>1. Common /\ Common' /\ Tidy(win, drawn) /\ drawn \in Drawings
  BY NextCommon DEF AnyInv, Common
<1>2. CASE Open
  <2>1. /\ UNCHANGED <<format, widget, at, drawn, win>> /\ TermBytes' = TermBytes
        /\ drawn = NothingDrawn /\ ~win.visible /\ win.fg = NULL
    BY <1>1, <1>2, OpenIs
  <2>2. /\ win = [mem |-> win.mem, size |-> win.size, visible |-> win.visible,
                  bg |-> win.bg, fg |-> win.fg]
        /\ win.visible \in BOOLEAN /\ win.size = SizeOf(drawn) /\ win.bg = NULL
        /\ Strewn(win.mem) /\ IsMemory(win.mem)
    BY <1>1, <2>1 DEF Tidy
  <2>3. Addresses' = Addresses /\ TextBytes' = TextBytes
    BY <2>1 DEF Addresses, TextBytes, BytesPerPixel, Driver
  <2>4. IsMemory(win.mem)' /\ Strewn(win.mem)'
    BY <2>1, <2>2, <2>3 DEF IsMemory, Strewn
  <2>5. SizeOf(drawn)' = SizeOf(drawn)
    BY <2>1 DEF SizeOf
  <2>6. Tidy(win, drawn)'
    BY <2>1, <2>2, <2>4, <2>5 DEF Tidy
  <2> QED BY <1>1, <2>6 DEF AnyInv
<1>3. CASE ~Open
  <2>1. UNCHANGED <<device, widget, at>>
    BY <1>1, <1>3, StepIs
  <2>2. Tidy(win', drawn')
    <3>1. CASE UNCHANGED <<drawn, win>>
      BY <1>1, <3>1
    <3>2. CASE Opened /\ drawn' = drawn /\ win' = Toggled(win)
      <4>1. Placed
        BY <1>1, <3>2 DEF Placed, Common, Ready
      <4> QED BY <1>1, <3>2, <4>1, HideTidy, ShowTidy DEF Toggled
    <3>3. CASE Opened /\ drawn' \in ContentsOf(widget) /\ win' = Rendered(win, drawn')
      <4>1. Placed
        BY <1>1, <3>3 DEF Placed, Common, Ready
      <4> QED BY <1>1, <3>3, <4>1, RenderTidy
    <3> QED BY <1>1, <1>3, <3>1, <3>2, <3>3, StepIs
  <2>3. Tidy(win, drawn)'
    BY <1>1, <2>1, <2>2, SameTidy
  <2> QED BY <1>1, <2>3 DEF AnyInv
<1> QED BY <1>2, <1>3

LEMMA AnyInductive == Exact => (Spec => []AnyInv)
<1> SUFFICES ASSUME Exact PROVE Spec => []AnyInv
  OBVIOUS
<1>1. Init => AnyInv
  <2> SUFFICES ASSUME Init PROVE AnyInv
    OBVIOUS
  <2>1. Common /\ Sound(win, drawn) /\ drawn = NothingDrawn /\ ~win.visible /\ win.fg = NULL
    BY InitInv DEF IInv, Init
  <2>2. Strewn(TermBytes) /\ win.mem = TermBytes
    BY <2>1, TermIsMemory DEF Strewn, Sound
  <2> QED BY <2>1, <2>2 DEF AnyInv, Tidy, Sound, Strewn
<1>2. AnyInv /\ [Next]_vars => AnyInv'
  BY NextAny
<1> QED BY <1>1, <1>2, PTL DEF Spec

-----------------------------------------------------------------------------
(***************************************************************************)
(* The properties.                                                         *)
(***************************************************************************)

\* The buffers of a window are there when the code puts them back, and have a byte
\* for each byte of the rectangle they are put back to (Window::show and hide,
\* libucimf/src/cwm.cpp; the pop functions do not ask).
THEOREM TypeCorrect == Exact => (Spec => []TypeOK)
<1> SUFFICES ASSUME Exact PROVE Spec => []TypeOK
  OBVIOUS
<1>1. AnyInv => TypeOK
  <2> SUFFICES ASSUME AnyInv PROVE TypeOK
    OBVIOUS
  <2>1. /\ format \in Formats /\ ports \in 0..AllPorts /\ mNextLine \in Nat /\ mXres \in Nat
    BY FormatFacts DEF AnyInv, Common, DeviceInv
  <2>2. Tidy(win, drawn) /\ drawn \in Drawings
    BY DEF AnyInv, Common
  <2>3. Rect = RectFor(drawn) /\ win.size.h = RectFor(drawn).h
    BY <2>2 DEF Tidy, Rect, RectFor, Rectangle
  <2>4. Opened => \A mem : BufferFits(SaveRect(mem, RectFor(drawn)))
    BY <2>2, <2>3, RectForIs, SavedIsBuffer DEF AnyInv, Common, Placed, Ready, BufferFits
  <2>5. DOMAIN win.mem = DOMAIN TermBytes
    BY <2>2 DEF Tidy, IsMemory, TermBytes, Addresses
  <2>6. ~Opened => ~win.visible /\ drawn = NothingDrawn /\ win.fg = NULL
    BY DEF AnyInv, Common
  <2>7. IF win.visible THEN BufferFits(win.bg) ELSE win.bg = NULL
    BY <2>2, <2>4, <2>6 DEF Tidy
  <2>8. IF win.visible THEN win.fg = NULL
        ELSE BufferFits(win.fg) \/ (drawn = NothingDrawn /\ win.fg = NULL)
    BY <2>2, <2>4, <2>6 DEF Tidy
  <2> QED BY <2>1, <2>2, <2>5, <2>7, <2>8 DEF TypeOK, Tidy
<1> QED BY <1>1, AnyInductive, PTL

\* Where a hidden window differs from what the terminal has drawn, a pixel of a text
\* is left over: no frame, no background and nothing of an old buffer.
OnlyTextStays ==
    ~win.visible =>
      \A a \in DOMAIN TermBytes : win.mem[a] = TermBytes[a] \/ win.mem[a] \in TextBytes

\* Whatever the font: rectangles and saved buffers give back the terminal in every
\* window that is hidden, so glyphs drawn outside their estimate (shape.cpp:106 and
\* graphdev.cpp:143 count differently) are all that can stay.
THEOREM NothingElseStays == Exact => (Spec => []OnlyTextStays)
<1> SUFFICES ASSUME Exact PROVE Spec => []OnlyTextStays
  OBVIOUS
<1>1. AnyInv => OnlyTextStays
  BY DEF AnyInv, Tidy, Strewn, OnlyTextStays, TermBytes, Addresses
<1> QED BY <1>1, AnyInductive, PTL

\* "Calculate new str's size" (shape.cpp:66 and 96): what has been drawn of a text is
\* inside the window, which has the size calculated for it.
DrawnInItsSize ==
    drawn # NothingDrawn =>
      \A p \in Ink(Layout(drawn)) :
        p.x \in at.x..(at.x + win.size.w) /\ p.y \in at.y..(at.y + win.size.h)

\* With a font that fits, a text is drawn inside the window whose size has been
\* calculated for it (Text::append and append_next, shape.cpp:66-84 and 96-114).
THEOREM TextInItsSize == Exact /\ Fitted => (Spec => []DrawnInItsSize)
<1> SUFFICES ASSUME Exact, Fitted PROVE Spec => []DrawnInItsSize
  OBVIOUS
<1>1. IInv => DrawnInItsSize
  <2> SUFFICES ASSUME IInv, drawn # NothingDrawn, NEW p \in Ink(Layout(drawn))
               PROVE  p.x \in at.x..(at.x + win.size.w) /\ p.y \in at.y..(at.y + win.size.h)
    BY DEF DrawnInItsSize
  <2>1. Ready /\ at \in Positions /\ widget \in Widgets /\ drawn \in ContentsOf(widget)
    BY DEF IInv, Common, Ready, Drawings
  <2>2. win.size = Layout(drawn).size
    BY DEF IInv, Sound, SizeOf
  <2>3. p \in Within(RectOf(drawn))
    BY <2>1, InkInside
  <2> QED BY <2>2, <2>3 DEF Within, RectOf, Rectangle
<1> QED BY <1>1, Inductive, PTL

\* Whatever the screen and the texts, with a font that fits a hidden window has left every
\* byte of the frame buffer as the terminal has drawn it (Widget::render, the save
\* and restore of the drivers for 16 and 32 bits).
THEOREM TerminalGivenBack == Exact /\ Fitted => (Spec => []NoTrace)
<1> SUFFICES ASSUME Exact, Fitted PROVE Spec => []NoTrace
  OBVIOUS
<1>1. IInv => NoTrace
  BY DEF IInv, Sound, NoTrace
<1> QED BY <1>1, Inductive, PTL

\* With a font that fits, a shown window is on the screen as the widget has laid it
\* out, each pixel at its bytes, and nothing else has changed (GraphPort and the
\* drivers for 16 and 32 bits, Text::draw).
THEOREM PictureOnScreen == Exact /\ Fitted => (Spec => []ShownExactly)
<1> SUFFICES ASSUME Exact, Fitted PROVE Spec => []ShownExactly
  OBVIOUS
<1>1. IInv => ShownExactly
  <2> SUFFICES ASSUME IInv, win.visible PROVE ShownExactly
    BY DEF ShownExactly
  <2>1. /\ Settled /\ drawn \in Drawings /\ Sound(win, drawn) /\ win.mem = Painted(drawn)
    BY DEF IInv, Common, Settled, Ready, Sound
  <2>2. DOMAIN win.mem = Addresses
    BY <2>1, PaintedIs DEF IsMemory
  <2> DEFINE picture == IF drawn = NothingDrawn THEN <<>> ELSE PictureOf(Layout(drawn))
  <2>3. ASSUME NEW a \in Addresses
        PROVE  win.mem[a] = IF Pixel(a) \in DOMAIN picture THEN <<picture[Pixel(a)], Part(a)>>
                            ELSE TermBytes[a]
    <3>1. CASE drawn = NothingDrawn
      <4>1. Pixel(a) \notin DOMAIN picture
        BY <3>1
      <4> QED BY <2>1, <3>1, <4>1 DEF Painted
    <3>2. CASE drawn # NothingDrawn
      <4>1. drawn \in ContentsOf(widget) /\ picture = PictureOf(Layout(drawn))
        BY <2>1, <3>2 DEF Drawings
      <4>2. win.mem[a] = Pictured(drawn, TermBytes, a)
        BY <2>1, <3>2, <4>1, DrawIs, TermIsMemory DEF Painted, Settled
      <4>3. Pixel(a) \in DOMAIN PictureOf(Layout(drawn)) <=> In(Pixel(a), RectOf(drawn))
        BY <2>1, <4>1, PictureIs DEF Settled
      <4> HIDE DEF picture
      <4> QED BY <4>1, <4>2, <4>3 DEF Pictured
    <3> QED BY <3>1, <3>2
  <2>4. ShownExactly <=>
          \A a \in Addresses :
            win.mem[a] = IF Pixel(a) \in DOMAIN picture THEN <<picture[Pixel(a)], Part(a)>>
                         ELSE TermBytes[a]
    <3> DEFINE pixel == [a \in DOMAIN win.mem |->
                           [x |-> (a % format.line_length) \div BytesPerPixel,
                            y |-> a \div format.line_length]]
    <3>1. \A a \in Addresses : pixel[a] = Pixel(a)
      BY <2>2 DEF Pixel
    <3>2. ShownExactly <=>
            \A a \in Addresses :
              win.mem[a] = IF pixel[a] \in DOMAIN picture
                           THEN <<picture[pixel[a]], (a % format.line_length) % BytesPerPixel>>
                           ELSE TermBytes[a]
      BY <2>2 DEF ShownExactly
    <3> HIDE DEF pixel, picture
    <3> QED BY <3>1, <3>2 DEF Part
  <2> QED BY <2>3, <2>4
<1> QED BY <1>1, Inductive, PTL
=============================================================================
