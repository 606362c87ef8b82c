# Verification of ucimf

ucimf (UniCode Input Method Framework) puts an input method on a Linux frame
buffer console. A terminal program (FbTerm, jfbterm, boglterm) links
`libucimf`, gives it the user's keys and draws next to it on the same frame
buffer; `libucimf` loads input method frameworks (OpenVanilla, chewing,
sunpinyin) as plug-ins, lets them translate the keys, and shows their status,
composition and candidates in three small windows painted over the terminal.

This directory holds TLA+ modules of the parts of that system whose state is
hard to get right, TLC configurations that check them on small instances, and
TLAPS proofs for every instance. `PROJECT.json` is the index: components, runs,
the source lines each definition stands for, hazards, mutants, findings and
theorems. Paths below are relative to `src/`.

## 1. Inventory

### Components

| component | state | operations | talks to |
|---|---|---|---|
| window manager, `libucimf/src/cwm.cpp`, `window.cpp` | map of windows with their Shift, `_cursor_x/_y`, `_focus`; each window's position, size, visibility | `set_position`, `set_focus`, `update`; `show`, `hide`, `xy`, `wh` | called by the front end and, through `wh`, by every drawing |
| graph port, widgets and text, `graphport.cpp`, `widget.cpp`, `shape.cpp` | `bg_buf`, `fg_buf`, the measuring flag (pseudo); each widget's text | `push_*_buf`, `pop_*_buf`, `measure`, `setPseudo`; `append`, `clear`, `render` | the display driver below, the frameworks above |
| display drivers, `libucimf/display/` | the mapped frame buffer, `mNextLine`, `mXres` | `Open`, `SaveRect`, `RstrRect`, `FillRect`, `PutPixel`, `DrawLine`, `OutChar` | shared with the terminal |
| front end, `ucimf.cpp` | `imfs`, `current_imf`, `prev_focus`, the jump buffer of the fault trap | `ucimf_init/exit`, `ucimf_switch`, `ucimf_process_stdin/_raw`, `ucimf_refresh_begin/end`, `ucimf_cursor_position` | hosts call it, it calls the frameworks |
| keyboard translation, `ucimf.cpp:331-716` | `key_down`, `shift_down`, `shift_state`, `lock_state`, `npadch` | `init_keycode_state`, `keycode_to_keysym`, `keysym_to_term_string` | the kernel's keymap and LED ioctls |
| OpenVanilla, `ucimf-openvanilla/src/` | `current_module`, `cxt`, composition, candidates, `commit_buf` | `process_input`, `switch_im(_reverse)`, `refresh`, and the services OpenVanilla's modules call back | widgets, external modules |
| chewing, `ucimf-chewing/src/` | libchewing's context, commit buffer | `process_input`, `refresh` | widgets, libchewing |
| sunpinyin, `ucimf-sunpinyin/src/` | session, commit buffer | `process_input`, `updatePreedit`, `updateCandidates`, `commit` | widgets, sunpinyin |
| dummy, `libucimf/sample/imf/` | none | echoes keys, shows notes | widgets |
| FbTerm message library, `patches/fbterm/imapi.c` | `imfd`, `im_active`, `pending_msg_buf` | `check_im_message`, `set_im_window`, `put_im_text`, `wait_message`, `process_messages` | a socket to FbTerm |
| `fbterm_ucimf.cpp` | none of its own | the callbacks of the message library | message library, front end |
| jfbterm and bogl patches | none of their own | bracket their drawing, filter the keyboard | front end |
| options, `libucimf/src/options.cpp` | `_opts` | the constructor, `parse_file`, `getOption` | read at start by the front end and the frameworks |
| fonts, `libucimf/font/font.cpp` | the sorted list of font files, which of them are open, the glyph cache | `setInfo`, `getGlyph` | text and the drivers call it; fontconfig, FreeType |
| encodings, `libucimf/src/type.cpp`, `openvanilla.cpp` | `udata`; the service's two buffers | `ustring`'s constructor; `UTF16ToUTF8`, `UTF8ToUTF16` | between an input method and the widgets |
| loading, `scanImf` in `ucimf.cpp`, `OVImf`'s constructor | `imfs`, `mod_vector` | one pass over a directory each | libltdl |
| LRMI, scripts | none of the system's | | |

### What is hard, and what would be right

*Save-under windows.* Nothing in the system can repaint the screen. A shown
window keeps the pixels it covers, a hidden one its own picture, and
`show`, `hide`, `xy`, `wh`, `render`, `set_focus`, `set_position` exchange them
in nested calls (a drawing may measure, measuring may resize, resizing moves).
Right means: what the terminal has drawn comes back exactly, what a window
shows is its last picture, and no call forgets a window.

*Drawing.* What is saved of the terminal is exactly what is drawn over only if
three independent computations agree: the estimate of a text's size
(`Text::append`, from the metrics of its glyphs), the way they are placed
(`GraphDev::OutChar`, from their bitmaps), and the bytes a driver touches for a pixel, a row and a rectangle, each with code of
its own for every colour depth. Right means: not a byte outside the
rectangle changes, every pixel is where the hardware looks for it, and hiding
gives every byte back.

*Placement.* Three windows hang at different distances below the cursor and flip
above it at different rows. The exchange of pixels is only right if they never
overlap; the drivers assert that they stay on the screen.

*Keyboard.* In medium raw mode the library alone tracks what is held. It is not
told everything: events go elsewhere before the activation and on other
consoles, keys repeat, two keys share a modifier, several key codes come in
one message.

*Shared widgets.* Four frameworks write to the same three widgets, each with its
own composition and commit buffer; the front end switches between them, and
their libraries call back in orders of their own, throw and fault. Right means:
what is shown belongs to the framework that gets the next key, and what a framework
commits reaches the host once and in order.

*Loading.* Frameworks are libraries found in a directory, some of which do not
open or lack one of the two symbols `scanImf` asks for. Right means: what loads can
be reached, and nothing else takes its place.

*From a string to glyphs.* An input method's UTF-16 becomes UTF-8, then code
points, then glyphs that a cache keeps in pages nobody clears beforehand; a font
file may turn out unreadable at the character that first needs it, between the
pass that measures a text and the one that draws it. Right means: no character
is lost or changed, the cache holds what the present fonts give, and a text is
drawn with the glyphs it was measured with.

*Messages.* FbTerm and the server wait for each other (HideUI/AckHideUI,
SetWin/AckWin). A server waits inside a callback and meanwhile keeps other
messages for later: three generations that may overtake one another.

The list of hazards, each at its line with the properties that cover it, is in
`PROJECT.json`.

## 2. Modules

    Geometry ─┬─ Placement            Loading ── Ucimf          Keyboard
              │      ▲ refines
              └──── Cwm               FrameBuffer ── Drawing    ImApi

    Font, Options, Utf ── TextOut

The proofs are in modules of their own: GeometryProofs (cited by the next two),
PlacementProofs, CwmProofs, DrawingProofs, KeyboardProofs, UcimfProofs, ImApiProofs and
TextOutProofs.

MCPlacement, MCCwm, MCDrawing, MCKeyboard, MCUcimf, MCImApi and MCTextOut give
the instances for TLC.

**Geometry** — the sizes the widgets ask for and the arithmetic of the three
`Shift` classes (`cwm.cpp:105-224`), with the constants of `ucimf_init` as
parameters. `Place(win, cur, siz)` is what `Shift::update` passes to `xy`.

**Placement** — what the window manager promises about positions, without pixels:
`SetPosition` (a new cursor moves every window) and `Resize` (a new size moves
its window). This is the abstract specification.

**Cwm** — the same windows on a screen. The C++ functions are operators on a
display record (`Show`, `Hide`, `XY`, `WH`, `Measure`, `SetPseudo`, `Draw`,
`Render`, `SetFocus`, ...) that call each other as the code does; an action
is one call of the public interface by an engine or a host. The map of windows
is ordered by address, so `order` ranges over all orders. The host brackets
its drawing, as jfbterm and bogl do. `Cwm` implements `Placement` under the
mapping of `size` and `pos`.

**FrameBuffer** — the drivers for 15, 16, 24 and 32 bits as operators on the bytes
of the mapped memory, and the opening of the device, which every `GraphPort`
repeats. A byte of a colour is the colour and its place in the pixel.

**Drawing** — one window on that memory: `Text`'s estimate and its drawing, the
layouts of the three widgets, `Widget::render`, `show` and `hide`. It is the
part of the system that Cwm takes as given: a picture that fits its window and
drivers that copy exactly. A glyph is its metrics and its bitmap, any numbers
`getGlyph` can return (`FontAssumption`); `Fitted` says of a font that no glyph is drawn
wider than it is measured nor above or below its line. It is a hypothesis of
theorems and true of the font of the runs (`GlyphsFitted`), but no part of the model.

**Keyboard** — `ucimf_process_raw` up to the string it hands on, and the keyboard
around it: `KeyElsewhere` for events the library never sees, `Activate` for
`init_keycode_state`, `SendKey` for a message with one key code, `SendTwoKeys`
for one with two, of which the loop keeps the last. `held`, `seen`, `fresh` and `kept`
are the physical truth the library has no access to (what is down, whether every event
was translated, whether a modifier was held at the activation, and which keys held
then have had no event since); the properties
compare its state with them. The keymap is a constant.

**Loading** — what `scanImf` and OpenVanilla's constructor make of their
directories, as operators without state. `scanImf` calls `create_imf` once for
every file, and `Creates` says whose it is by then: that of the last file that
has opened. That `createImf` is missing makes the call one of NULL; that `destroyImf` is
missing is only logged (`ucimf.cpp:156`), and the library is a framework like the
others (`IsFramework`). `mod_vector` is the set of the input methods that are loaded, each
the number of its file and its place in that; their order is left out, as the front end
knows an input method by its index only.

**Ucimf** — the front end and the frameworks, from the scan on (`Directories`: what
may be installed). A call into a framework starts with
`Key`, `SwitchIm` or `SwitchImReverse`, then the external library acts through
its interfaces in any order, and `KeyEnds` or `SwitchEnds` is the rest of the
framework's function. `Throw` and `Signal` end it anywhere, as the `_TRAP` macro does. A
character is the number of the append that made it, so loss, duplication and
reordering are visible. libchewing commits at a `chewing_handle_*` call and keeps
the text until the next one; `KeyEnds` reads it after every key, also one
that chewing.cpp makes no such call for (`acted` is then still false), so that the
host may get it again. F9 (`NextImf`) works with and without the focus. What chewing shows
may be anything: its text is a pointer into a string that is gone (`Shown`).

**Options** — the configuration: a line is a sequence of characters, `ParseLine` the
chain of loops that takes it apart, `Inserted` the map's `insert`, which keeps what
is there.

**Font** — `getGlyph` with its four ends (cached, no font has the character, the
font cannot be read, rendered), the pages of the cache, `setInfo`. Memory that
nobody has initialised is `Garbage`, and `heap` counts the glyphs allocated.
Fontconfig's list and what FreeType finds in a file are constants; whether a
file opens is decided when it is first tried.

**Utf** — `UTF16ToUTF8`, `UTF8ToUTF16` and `ustring`'s constructor on code points,
units and bytes; iconv is external and strict.

**TextOut** — the three together: `Start` is `ucimf_init` up to the first use of the font,
`AppendString` the way of a module's string to the preedit widget, `MeasureNext` and
`PaintNext` the two passes of a drawing over its text, a character at a time.
Drawing takes one glyph for each character as given; this is where it comes from.

**ImApi** — `imapi.c` between two FIFO sockets and FbTerm, for the servers in `Servers`,
each with the set of its callbacks that call `set_im_window`; `fbterm_ucimf` is the one
with none. `check_im_message` is a small
machine (`phase`); `wait_message` inside a callback is `waiting`. At the end of the file
the callback goes on (`Ends`), but `imfd` is already closed and what it writes is lost. FbTerm is
another program, modelled from `immessage.h`.

## 3. Runs

Twelve runs; seven must pass, five must end in a violation of what a document, a
comment or an assertion says.

| run | instance | shows |
|---|---|---|
| `placement` | font 4, screen 40 × 59, cursors on both sides of each flip | windows never meet, never hide the line being typed, share a column; on a roomy screen they stay inside |
| `placement_vga` (violation) | the real constants, 640 × 480, ten candidates | a cursor in the middle of the screen puts the candidates above row 0, against the driver's assert (`fblinear16.cpp:100`) |
| `cwm` | three windows, two pictures, 24 rows, two cursor flips, all orders | `FocusVisible`, `NoGhost`, `SavedBackground`, `ImageIntact`, `FocusKept`, and `Cwm` implements `Placement` |
| `drawing` | the three widgets, 15, 16 and 32 bits, 9 × 8 pixels with one column of padding, four glyphs that fit | `NoTrace`, `ShownExactly`: a window changes its rectangle and nothing else, and gives it back |
| `drawing24` (violation) | the same on 24 bits | rendering a window changes the bytes beside it, although 24 bits are advertised (`fbdev.cpp:168`) |
| `keyboard` | two Shifts, one of which unlocks, Alt with a composing digit, a lock key; composition to 11 | modifiers never stick and are exact, table and counts agree, compositions end, lamps follow locks, a held lock key toggles once |
| `keyboard_held` (violation) | the same | a message with two key codes leaves a modifier on that nobody holds |
| `ucimf` | five installations (all four frameworks with three OpenVanilla modules, a library that does not open, one without `createImf`, one without `destroyImf`, none), three characters, two faults | what loads can be reached; widgets, status bar and candidates belong to who gets the next key; all commits arrive, in order; also with faults, nothing arrives twice but from chewing at a key it does not handle |
| `ucimf_context` (violation) | OpenVanilla alone, one fault | after a fault during a switch the next key goes to a deleted context |
| `imapi` | `fbterm_ucimf` with seven messages, a server all of whose callbacks announce with five | with the first, both ends agree when idle and each HideUI is acknowledged once and eventually; with the second, nothing is drawn before it is announced and `set_im_window` always returns |
| `imapi_hide` (violation) | all callbacks announce; six messages | a wrong length in `wait_message` makes a HideUI disappear: FbTerm waits for ever |
| `textout` | configurations from two files, four font files of which any may fail to open, characters at the ends of what one to four bytes and the cache hold | `Configured`, `CharactersKept`, `CacheSound`, `NoGlyphLost`, `DrawnAsMeasured` |

Every property of a passing run has a mutant of the modelled code (defined in
the same module, "Mutated form") under which TLC finds it violated.

### Bounds

| bound | value | why it is enough |
|---|---|---|
| `Yres`, `MCCursorYs` of Cwm | 24; 0, 14, 19 | with a font of 1 all windows are below the cursor at 0 and above it at 19; at 14 the candidate list has flipped and the others have not |
| `MCContents` | one status, two preedits of one shape, one list of two lines | a picture may change with and without its shape |
| `MCRegions` | the upper and the lower rows | the terminal changes some of what windows cover, not all |
| `MCFormats` | 10 columns of which 9 are seen, 8 rows | the stride differs from the visible width; every window of the run is inside |
| `MCGlyphs`, `MCTexts` | a full, a narrow, an overhanging and a missing glyph; texts of up to three | the narrow one's width rounds to 0; widths are odd and even, a bearing is positive and negative, the estimate is summed, a list has two lines |
| `NpadBound` | 11 | a first and a second digit |
| one key code lost per message | `SendTwoKeys` | what the library sees of a longer message is the last code as well; longer losses are repeated ones |
| `MaxTyped` | 3 | a text of two characters in one framework and one in another |
| `MaxReceived` | 3, 4 | no key is tried any more once the host has so many characters; chewing has repeated itself by then |
| `MaxFaults` | 2 | one call faults, and one after it with the signal blocked |
| `McStrings`, `MaxText` | four strings, a preedit of three characters | characters of one to four bytes, two in one page of the cache, one beyond it, one that a file is said to have and has not; a string of three is cut by `TmpWords` |
| `TmpWords`, `NameBytes` | 3, 8 | for 64 and 64: a string that fits and one that does not, a name that fits and one that does not |
| `McHomes`, `McSystems` | eight and two | blanks and tabs around each part, an option set twice, a comment, an empty line, no file, no size, a font name nothing matches |
| `MaxSetInfo` | 1 | a cache in any state is replaced once; `Configured` is the one property that looks further back |
| `maxSent` of a server | 5, 6, 7 | on, cursor, key, hide, show, off and on again; the shortest bad run of `imapi_hide` fits in 6 |

`CHECK_DEADLOCK FALSE` is set where the system stops or a bound stops it (`ImApi`: FbTerm
has sent all it may; `Ucimf`: the process may be killed; `TextOut`: the host ends
when there is no configuration or no font) or where an action
is defined to change something (`Placement`, `Cwm`).

### Fairness

Only `ImApi!FairSpec` has any. `WF_vars(ServerNext)`: the server's `main` is a
loop around `check_im_message`, and a blocked `read` returns when bytes are
there. `WF_vars(FbtermReceives)`: FbTerm polls the socket, also while it waits for
AckHideUI. Nobody is obliged to press a key, switch consoles or quit.

## 4. Proofs

What every pair of a screen and a window has in common is in `GeometryProofs`: a Shift
always gives a place, and `PlacedApart`, that two windows placed for the same
cursor share no row.

`PlacementProofs`, for every font, slack, border, margin, screen, candidate count
and set of cursors that satisfy `MetricsAssumption` (border smaller than slack,
positive font, margin and list length: 3, 8, 16 and 10 in the code). The
inductive invariant is `TypeOK /\ Placed`: every window is where its Shift
would put it now. `TypeCorrect` follows at once. `WindowsDisjoint` rests on
`PlacedApart`: of two windows on the same side of the cursor the
difference of the gaps exceeds the height of the nearer, and of two on
different sides one is above the cursor. `CursorLineVisible`,
`ColumnShared` and `NoAssertFails` are linear arithmetic on the same cases.
`ColumnShared` is what allows Cwm to keep one column of pixels: any two windows that
could overlap, overlap there.

`CwmProofs`, for every font, screen and content that satisfies `MetricsAssumption`,
`ContentsAssumption` (a list is never longer than `MaxLines`) and `ScreenAssumption` (every
window fits the screen wherever its Shift puts it; `RoomyScreenSuffices` derives it from
room for the longest list above or below the cursor, the hypothesis of
`NoAssertFails`). The operators of Cwm are functions of a display, and so
are the lemmas. `Sound(d, T)` says of a display `d` and a terminal's screen `T` that every
window stands where its Shift puts the size of its picture, that a shown window saves what `T`
has under it and shows its picture, that a hidden one keeps its picture, and that
every row no shown window covers is `T`'s. `ShowSound`, `HideSound`, `RedrawSound`,
`RenderSound`, `FocusSound` and `PositionSound` say that each operation, with all it calls
in its middle, keeps a display sound. The argument turns on the rows windows do
not share (`StandingApart`, from `PlacedApart`): what a show saves is the terminal's,
and a hide gives back its own rows only, because no other window is on them. The
invariant `IInv` is soundness of the present display, and that all windows or none are
shown. From it come `TypeCorrect`, `WindowsFollowFocus`,
`ScreenGivenBack`, `BackgroundKept`, `PicturesIntact` and `FocusPreserved`. For
`PlacementImplemented` each action is shown to do to sizes and places what `Placement` allows:
a rendering is one `Resize` (`Resizes`) though it measures and moves in between, a new
cursor one `SetPosition` (`Follows`) though the windows move one after another, and
everything else stutters (`StaysPut`).

`DrawingProofs`, for every screen of 15, 16 or 32 bits with any padding, every border and
set of texts that satisfy the assumptions of Drawing and FrameBuffer
(section 6). An address is the byte `Part(a)` of the pixel `Pixel(a)` (`PixelIs`), once
the second of the four opens has set the stride (`OpenDevice`). In these coordinates
a fill, a pixel, a save and a restore each have a value pixel by pixel: `FillIs`,
`PutIs` and `RstrIs`, the last of which is that `RstrRect` after `SaveRect` is the
identity on the rectangle and touches nothing else. `FrameIs`: the four runs of Bresenham's
algorithm that make a frame are the edge of its rectangle. `TextFits`: the pixels of a
text stay in the size `Text::append` has estimated, if the font is `Fitted`: a glyph moves the
pen at most by its estimate and reaches at most one pixel beyond it. `LayoutIs`: what the widgets
lay out stays in the size they ask for. Together they give `DrawIs`: a drawing is
the picture of its layout inside the rectangle and nothing outside. The invariant is
`Sound` of the one window, as in Cwm but of bytes. From it come `TerminalGivenBack`,
`PictureOnScreen` and `TextInItsSize`, under the hypothesis `Exact /\ Fitted`. `Exact`: no format
has 24 bits, with which `NoTrace` is false (`drawing24`). `Fitted`: without it
`DrawnInItsSize` is false, and so is `NoTrace` (section 5). font.cpp does not
promise it, so these three theorems say what holds with fonts that happen to be fitted. For
every font at all, the weaker invariant `AnyInv` (`Tidy`: buffers are of the
right size, and what differs from the terminal outside a shown window is of a text's colour)
gives `TypeCorrect` and `NothingElseStays`: text drawn over the edge is all that can
stay behind. Sums of
widths and the steps of a line are recursive functions; the facts about them rest on
`Induction`, a set of naturals that holds 0 and each successor is all of them,
proved from the finiteness of intervals.

`KeyboardProofs`, for every keyboard, keymap and set of modifiers that satisfy
`KeymapAssumption` (a modifier key means the same in every table; digits for
composing are only in tables of some modifier besides Shift). `NoStuckModifier`
is not inductive: a count could be above zero with no key to bring it down. The
invariant adds `CountsBounded` (a count never exceeds the number of the
modifier's keys in `key_down`: a repeat does not count because its key is
there), `BelievedHeld` (with no event lost, `key_down` is physically held) and
`CountsExact` (from an activation with no modifier held, nothing is missing).
Proved from it: `TypeCorrect`, `ModifiersNeverStick`, `ModifiersAreExact`,
`SelectorFollowsCounts`, `CompositionsEnd`, `LampsAgree`; and
`LocksChangeOnPress`, an action property about keys that are physically up. The translation
alone gives only that the key was not in `key_down`; `HeldBelieved` adds that a held
key missing there is in `kept`: it was held at the activation and has had no event. Note that the
bound `NpadBound` is a guard of the model: the proofs hold for each value of it.

`UcimfProofs`, for every installation (`DirectoriesAssumption`: a directory is a sequence
of files, those of OpenVanilla with any number of modules), number of characters and of faults. `AllIsLoaded` is a fact
about `scanImf`: what it yields at each file is the kind of the last file that
has opened, and every file that opens is the last one at its own turn
(`ScanComplete`). The others rest on `Typed` and one invariant each. `Names`: while no
call has faulted, the status bar and the candidates name the current framework, or
OpenVanilla's old input method while it is being switched (`StatusCurrent`,
`CandidatesCurrent`). For the texts, chewing's is the hard case, since
libchewing's text may be delivered any number of times while OpenVanilla's and sunpinyin's are
delivered once. `Drained`: what is sent is, as a set, what the host has received together with the
commit buffer of the framework that has the key, and between calls the others' are empty but
chewing's, which has been received already; `Covers` says the same of each
beginning of what was received, for the order (`CommitsDelivered`). After faults a commit buffer may
keep its text while another framework goes on, so neither holds then; but `Apart`:
no character is twice in a commit buffer or a composition, or in two of them, and `New`: what is
in a buffer that is still to be drained for the first time has not been received. Only
`KeyEnds` brings the host text (`OnlyKeyEnds`), so what it has had before can only be chewing's,
at a key without a `chewing_handle_*` call (`RepeatsAreChewings`). `Ranged`: the indices that F9, F10
and F11 move stay in their lists around both ends, and every text is of characters that were typed
(`TypeCorrect`). `Ended`: until a call faults, the widget shows an end of what the current
framework is composing, at each point of a call, except while chewing has the key, which
fills the widget when it ends (`PreeditCurrent`).

`ImApiProofs`, for every set of servers and any number of messages. The socket and
the kept messages are sequences of any length; the properties only see how many
messages of a kind are in them (`HowMany`) and in which order Active and
Deactive follow each other (`Switched`), so the lemmas say what an append, a
removal and a concatenation do to these two. The invariant has four parts. `TypeInv`.
`AckInv`: a SetWin on its way or an AckWin on the way back is waited for, by one callback,
so that `check_im_message`, which reads only when nothing waits, never meets an
AckWin. `DrawInv`: the area of a drawn window is the one FbTerm spares. `SilentInv`, of
a server without announcements: nothing is kept back, FbTerm waits for exactly the
acknowledgements that are still to come, and the switches in the socket lead
from `im_active` to FbTerm's. From these: `TypeCorrect`, `DrawnInArea`,
`HideAcknowledgedOnce`, `SwitchAgrees`.

`TextOutProofs`, for every set of font files, characters, texts and configurations.
`CacheIsSound`: `getGlyph` changes a page only by clearing it at its first use and by
putting in what the first font gives, and `setInfo` leaves no page in use.
`NoGlyphIsLost` counts the cells of the pages in use. `DrawsWhatItMeasured` needs that
an answer of `getGlyph` is final, which the cache alone does not give: of a
character without a glyph nothing is cached. The invariant `Passes` says of each
measured character that it is `Settled` (its glyph is cached, or no font has
it, or the only font that counts has failed or lacks it), and no later answer
unsettles another.

The other theorems of `TextOutProofs` are about what the conversions compute, which
are recursive functions of the length of their input. The library's induction
cannot be used, so the module has its own: `Induction`, as in `DrawingProofs`,
`SequenceInduction` for sequences that grow at their end, and `Recursion` and
`SameRecursion`, that a function defined by recursion exists and is the only one. For
`TextIsKept`, `Encoded(s)` says that iconv makes of the bytes of a text its
characters and has nothing begun; one character more keeps that
(`ConvertedChar`: a byte at a time, with the division of a code point into bits
in `SixBits` and `PairOf`), so it holds of every text (`TextConverted`).
`TextTaken` says the same of `UTF8ToUTF16` and texts without surrogates. The invariant is
`KeptText`. The assumption is `StringsAssumption`: a text is of code points, no
surrogate and no NUL among them. For `FontIsConfigured`, `ParseLineIs` says that a line is
taken apart into the parts it was put together from, each part being a run that the
next one ends (`Splits`), and `ParseFileIs`, by `Induction` over the lines, that an option
has the value of the first line that sets it. The assumption is `FilesOfLines`: a line is a
comment or has the five parts `IsLine` names, some of which may be empty; every line
has them, so no file is left out. The invariant is `Configuring`, with `TypesKept` for
the types, from which `TypeCorrect` follows. (`LettersAssumption`, that seven letters are
strings, is true in TLA+; the prover does not know it.)

`Placement!TypeOK` is in no run: `TypeCorrect` has it for every instance.

Every invariant, action property and refinement of the passing runs is the statement of a
theorem. Only model-checked is liveness under fairness (`HideAcknowledged`,
`SilentServerAcknowledges`, `WaitEnds`), which is out of the prover's reach.

## 5. Findings

1. `placement_vga` — flipping never looks at the upper edge; the drivers assert it.
2. `keyboard_held` — only the last key code of a message is translated.
3. `drawing24` — `RstrRect` of the 24 bit driver stores 16 bits for each byte.
4. `imapi_hide` — `wait_message` reads a length after `memcpy` has overwritten it.
   (`fbterm_ucimf` never calls it; servers written after `immessage.h` do.)
5. `ucimf_context` — `switch_im` leaves a dangling context when a module faults.

Seen while modelling, without a run of their own:

- chewing asks libchewing for its commit after every key and gets the text of the last
  `chewing_handle_*` call again if the key made none (`chewing.cpp:244`): PgUp and PgDn, other
  sequences of three bytes and all of four, since `buf[4]` in line 155 is never 126. The
  host receives a text of any age once more; nothing drops it, not even a switch to another
  framework and back. This is the exception in `OnlyChewingRepeats`: leave it out, and
  the run `ucimf` ends in such a key.
- `Text::append` and `append_next` estimate with `glyph->width`, a metric; `OutChar` draws and
  advances by `glyph->pitch`, the width of the bitmap (`shape.cpp:106`, `graphdev.cpp:143`).
  Without hinting (`font.cpp:250`) the bitmap may be wider, or reach above the line. What is
  drawn outside the size is outside what the window has saved, and stays on the terminal's
  screen: give the glyph `w` of MCDrawing a pitch of 3, and `NoTrace` fails.
  `NothingElseStays` says that no more than such text stays.
- `check_im_message` reads new messages before it comes to those that a waiting
  callback has kept meanwhile (`imapi.c:266`). With a server all of whose callbacks
  announce and six messages, none of them a key, a Deactive is processed after the next Active:
  FbTerm is on, the server inactive, and it ignores the keys that follow, though
  `imapi.h:51` has `send_key` "called when receiving a SendKey message". This is why
  `StateAgrees` is about servers that announce nothing.
- `fbterm_ucimf` neither brackets its drawing nor calls `set_im_window` (the one
  call is commented out, `fbterm_ucimf.cpp:53`), so FbTerm paints over shown
  windows; and shown windows that are moved one by one (`cwm.cpp:63`) save each
  other's pixels. In Cwm the host hides the windows around both.
- A character composed with Alt and digits is complete at the release of Alt
  (`ucimf.cpp:690`), and `ucimf_process_raw` drops the string of every release
  (`ucimf.cpp:362`).
- `fbdev.cpp:133`: the test of a failed `mmap` lost its statement and took the
  assignment of `mNextLine` instead. The stride comes from the `mXres` of the open
  before, so the first of the four opens leaves it 0 and the second sets it.
- `PutPixel` of the 24 bit driver joins two bytes with `&` (`fblinear24.cpp:224`):
  frames and text get other colours than fills. The 8 bit driver's
  `SaveRect` writes through a pointer it has read before allocating
  (`fblinear8.cpp:78`), so nothing can be shown on 8 bits.
- `longjmp` leaves the handled signal blocked; a second fault of the same kind kills the host
  (`dead` in Ucimf).
- A configuration value ends at the first blank (`options.cpp:101`), so that
  `ucimf.conf.example`'s `font-name=AR PL ShanHeiSun Uni` asks for a font named AR.
- `UTF8ToUTF16` knows two and three bytes: a character above 65535 comes back as four
  units, of which each is a byte with its sign extended (`openvanilla.cpp:259`). Both
  conversions return one buffer of the service, which the next call overwrites.
- `OVImfDictionary` sets values with `insert`, which keeps the old one;
  `openvanilla.h:109` says one "can replace the key with any value".
- Keys of four bytes are told apart by `buf[4]`, the byte behind them (`ovimf.cpp:318`).
- A file that does not open makes `scanImf` enter the framework before it
  once more, so F9 comes by it twice; if it is the first, or a library lacks
  `createImf`, NULL is called, which no trap catches yet. If it lacks only
  `destroyImf` the debug log says that the symbol failed, and it is used all the same.
- A lock key held during the activation toggles the lock at its first repeat:
  `init_keycode_state` forgets that it is down (`ucimf.cpp:470`).
- After a fault in a render nothing shows the window again or restores what is
  under it: the next render takes what is there for the terminal's picture.
- `man/ucimf.1:60` gives F10 to the next framework; the code gives it to the
  previous input method (`ucimf.cpp:289`).

## 6. Abstractions and omissions

- *Text* is its number of lines and its width in Placement and Cwm, a sequence
  of numbers in Ucimf, of code points in TextOut. Wrapping and padding are left out.
- *FrameBuffer*: bytes of colours are symbolic; `RevRect`, which nothing calls, the
  8 bit and the planar drivers, and the FreeBSD branches are not modelled. Stores
  outside the mapping are dropped. A format's line holds a whole number of
  pixels and its depth is 16, 24 or 32 (`FormatsAssumption`; 15 bits reported as 15
  give a wrong stride).
- *Drawing*: one window, which does not move and fits the screen (`ScreenAssumption`); a
  position, the other windows and the terminal's drawing are Cwm's part. The asserts of `OutChar`
  (`graphdev.cpp:130`: a character's cell is on the screen) and the drivers' of a pixel
  are left out: with the sizes of the runs, and in practice with the margin of the
  window manager, they hold. A font is at
  least two pixels wide (`SizesAssumption`), so that the least a glyph is estimated at is one.
- *Cwm*: one pixel column; each driver primitive is one step. The screen is high enough
  for every window (`ScreenAssumption`): where it is not, the drivers' assert ends the
  program, which the run `placement_vga` is about. A window
  that was never rendered (1 × 1 pixel at 0, 0) is not: every framework
  renders all three when it starts. A render is one step: the fault trap could
  end it in the middle, but as the code restores nothing then (section 5), no
  property of Cwm is about such states.
- *Keyboard*: `applic_keypad` is always 0; the hexadecimal digits of Alt
  composition are not; failing ioctls are not; a key code is never out of range.
- *Ucimf*: the external libraries send at most one text per key;
  `ucimf_exit` is not modelled: it deletes an `Imf`, which has no virtual
  destructor, so that no framework's destructor runs, and the hosts end right after.
- *Loading*: a directory lists the files whose names contain ".so"; the others are
  skipped. `initLibrary` of a module is external and does not fail.
- *Font*: metrics and bitmaps are one value, of which `GlyphOf` names the file, the size and
  the character. An `FT_Load_Glyph` that fails gives an empty glyph. `setInfo` after
  `ucimf_init` is what the library's interface allows; no host here does it.
- *Options*: file names and access rights are whether there is a readable file.
  `atoi` and iconv are external.
- *Utf*: strings are well formed, as OpenVanilla's modules give them; the 1024 bytes of the
  service's buffers are not exceeded, and no character is NUL, which ends a text.
- *ImApi*: FbTerm sends AckWin as a whole `Message`, longer than a SendKey with
  one key code, which is what makes the length wrong; the bytes left behind
  are a copy of a known message's head or arbitrary, and then either skip
  some messages or have length 0. A buffer never fills up (10240 bytes): a read
  that fills it would cut a message, and `process_messages` would take its rest for
  the head of another. A write to an
  ended FbTerm kills the server (SIGPIPE, which nothing handles).
- Not modelled at all: `OVImfDictionary`, OpenVanilla's key codes, `put_im_text` and
  `draw_text` beyond a write, colour maps, the 4 and 8 bit, planar and VGA drivers, LRMI,
  the sample hosts, build scripts. The planar and VGA drivers are compiled
  only with `USING_VGA`, and then lack the pure virtual functions `SaveRect` and
  `RstrRect`; nothing creates the 4 bit driver; the 8 bit one faults whenever a
  window is shown. The rest has no state that interacts with anything above.

## 7. Plan

Done: Geometry, Placement, Cwm, FrameBuffer, Drawing, Keyboard, Loading, Ucimf, ImApi, Font, Options,
Utf, TextOut, and proofs of each, with the refinement of Placement by Cwm. Next:

1. `Rendered` by Drawing of several windows: that the rows Cwm exchanges are those
   `DrawIs` gives.
