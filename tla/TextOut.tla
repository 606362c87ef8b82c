------------------------------ MODULE TextOut ------------------------------
(***************************************************************************)
(* From an input method's string to glyphs: the font the configuration      *)
(* asks for (ucimf_init with Options and Font), the text OpenVanilla's      *)
(* buffer hands to the preedit widget (Utf), and the two passes over it in  *)
(* which the widget's size is estimated and the glyphs are drawn            *)
(* (shape.cpp, graphdev.cpp), each with calls of getGlyph of its own.       *)
(*                                                                         *)
(* Drawing has one glyph for each character throughout; this module is      *)
(* where that comes from.                                                   *)
(***************************************************************************)
EXTENDS Font, Options, Utf

CONSTANTS
    Homes,          \* the user's configuration files there may be, or NoFile:
                    \*   sequences of lines [indent, name, separator, value, rest]
    Systems,        \* the system's
    Strings,        \* what the modules append: sequences of characters
    MaxText,        \* bound: the characters of the preedit
    MaxSetInfo      \* bound: how often setInfo is called after ucimf_init

\* A line: blanks, a name, what separates it from its value, that, and the rest.
\* Every line there can be, a comment or none of these included, is one of them.
IsLine(line) ==
    \/ line.indent = <<>> /\ line.name # <<>> /\ line.name[1] = "#"
    \/ /\ line.indent \in Seq({" "})
       /\ line.name \in Seq(STRING \ {" ", "\t", "="})
       /\ line.separator \in Seq({" ", "\t", "="})
       /\ line.value \in Seq(STRING \ {" ", "\t"})
       /\ line.name = <<>> => line.separator = <<>>
       /\ line.value # <<>> => line.separator # <<>> /\ line.value[1] # "="
       /\ line.rest # <<>> => IF line.name = <<>> THEN line.rest[1] \in {"\t", "="}
                              ELSE line.value # <<>> /\ line.rest[1] \in {" ", "\t"}

ASSUME FilesOfLines ==
    \A conf \in (Homes \union Systems) \ {NoFile} :
        /\ conf \in Seq([indent : Seq(STRING), name : Seq(STRING), separator : Seq(STRING),
                         value : Seq(STRING), rest : Seq(STRING)])
        /\ \A i \in DOMAIN conf : IsLine(conf[i])
ASSUME StringsAssumption ==
    \A s \in Strings :
        /\ s \in Seq(Chars)
        /\ \A i \in DOMAIN s : /\ 0 < s[i] /\ s[i] <= 1114111
                               /\ ~(55296 <= s[i] /\ s[i] <= 57343)
\* A fact of TLA+ that the prover has to be told.
ASSUME LettersAssumption == {"m", "o", "n", "t", "h", "i", "g"} \subseteq STRING
ASSUME BoundsAssumption == MaxText \in Nat /\ MaxSetInfo \in Nat

VARIABLES
    home, system,   \* the configuration files
    stage,          \* "start", "ready", or "dead": the host has been terminated
    opts,           \* Options::_opts
    buf,            \* Preedit::buf
    given,          \* the characters the modules have appended
    string,         \* the one appended last
    measured,       \* what getGlyph has given Text::append ...
    painted,        \* ... and GraphDev::OutChar, for the beginning of buf
    resets          \* how often setInfo has been called since

files == <<home, system>>
texts == <<buf, given, string>>
passes == <<measured, painted>>
vars == <<font, files, stage, opts, texts, passes, resets>>

FontName == <<"f">>
FontSize == <<"s">>

-----------------------------------------------------------------------------
Conf == Chosen(home, system)

\* A line as it stands in the file.
Written(line) == line.indent \o line.name \o line.separator \o line.value \o line.rest
Lines(conf) == [i \in DOMAIN conf |-> Written(conf[i])]

\* ucimf_init up to the first use of the font.  The Options constructor throws
\* if neither file is readable, and Font::height() of no instance faults outside
\* the trap; both end the host.
Start ==
    /\ stage = "start"
    /\ IF Conf = NoFile
       THEN stage' = "dead" /\ UNCHANGED <<font, opts>>
       ELSE /\ opts' = parse_file(Lines(Conf))
            /\ SetInfo(getOption(opts', FontName), atoi(getOption(opts', FontSize)))
            /\ stage' = IF mpFont' THEN "ready" ELSE "dead"
    /\ UNCHANGED <<files, texts, passes, resets>>

Idle == stage = "ready" /\ measured = <<>>

\* OVImfBuffer::append of what UTF16ToUTF8 returns.
AppendString(s) ==
    /\ Idle
    /\ Len(buf) + Len(s) <= MaxText
    /\ buf' = buf \o ustring(UTF16ToUTF8(Units(s)))
    /\ given' = given \o SubSeq(s, 1, Min({Len(s), TmpWords - 1}))
    /\ string' = s
    /\ UNCHANGED <<font, files, stage, opts, passes, resets>>

Clear ==
    /\ Idle
    /\ buf' = <<>> /\ given' = <<>>
    /\ UNCHANGED <<font, files, stage, opts, string, passes, resets>>

\* A character of Preedit::draw's pass over the text that estimates its size ...
MeasureNext ==
    /\ stage = "ready"
    /\ Len(measured) < Len(buf)
    /\ \E g \in Results :
        /\ GetGlyph(buf[Len(measured) + 1], g)
        /\ measured' = Append(measured, g)
    /\ UNCHANGED <<files, stage, opts, texts, painted, resets>>

\* ... and of the one that draws it.
PaintNext ==
    /\ Len(measured) = Len(buf)
    /\ Len(painted) < Len(buf)
    /\ \E g \in Results :
        /\ GetGlyph(buf[Len(painted) + 1], g)
        /\ painted' = Append(painted, g)
    /\ UNCHANGED <<files, stage, opts, texts, measured, resets>>

RenderEnds ==
    /\ measured # <<>> /\ Len(painted) = Len(buf)
    /\ measured' = <<>> /\ painted' = <<>>
    /\ UNCHANGED <<font, files, stage, opts, texts, resets>>

\* The font library's interface lets the host ask for another size.
Resize(size) ==
    /\ Idle
    /\ resets < MaxSetInfo
    /\ resets' = resets + 1
    /\ SetInfo(mFontNames, size)
    /\ stage' = IF mpFont' THEN "ready" ELSE "dead"
    /\ UNCHANGED <<files, opts, texts, passes>>

Init ==
    /\ FontInit
    /\ home \in Homes /\ system \in Systems
    /\ stage = "start"
    /\ opts = <<>>
    /\ buf = <<>> /\ given = <<>> /\ string = <<>>
    /\ measured = <<>> /\ painted = <<>>
    /\ resets = 0

Next ==
    \/ Start
    \/ \E s \in Strings : AppendString(s)
    \/ Clear
    \/ MeasureNext \/ PaintNext \/ RenderEnds
    \/ \E size \in {0, 24} : Resize(size)

Spec == Init /\ [][Next]_vars

-----------------------------------------------------------------------------
(* Properties.                                                               *)

\* The variables keep their types; what the destructor deletes has been
\* allocated.
TypeOK ==
    /\ mFontSize \in Nat \ {0} /\ mFontNames \in Seq(STRING)
    /\ mpFont \in BOOLEAN
    /\ unicodeMap \subseteq Chars
    /\ fontList \in Seq(Files)
    /\ fontFaces \in [DOMAIN fontList -> {"unopened", "open", "failed"}]
    /\ glyphCacheInited \subseteq {Page(ch) : ch \in Codes}
    /\ heap \in Nat
    /\ stage \in {"start", "ready", "dead"}
    /\ {buf, given, string} \subseteq Seq(Chars)
    /\ resets \in 0..MaxSetInfo

\* What the first line that sets a name gives it.
Intended(name) ==
    LET setting == {i \in DOMAIN Conf : Conf[i].name = name}
    IN  IF setting = {} THEN Nothing ELSE Conf[Min(setting)].value

\* Every option has the value of the first line that sets it in the user's file,
\* or without one in the system's, however the line is spaced; and the font is
\* the one they name.
Configured ==
    stage = "ready" =>
        /\ \A name \in {FontName, FontSize} : getOption(opts, name) = Intended(name)
        /\ Len(Intended(FontName)) < NameBytes => mFontNames = Intended(FontName)
        /\ resets = 0 /\ atoi(Intended(FontSize)) # 0 => mFontSize = atoi(Intended(FontSize))

\* A text is drawn with the glyphs it was measured with, whatever font files
\* fail to open and when: shape.cpp sizes the window by one pass of getGlyph and
\* OutChar advances by another, and a pixel that was not measured would be drawn
\* beyond what is saved of the terminal's picture.
DrawnAsMeasured ==
    Len(painted) <= Len(measured)
    /\ \A i \in DOMAIN painted : painted[i] = measured[i]

\* Each character a module appends, of one UTF-16 unit or two, is a character of
\* the preedit, in order; only of a string that exceeds ustring's buffer the end
\* is missing.  And what the module gets back from UTF8ToUTF16 is what it gave
\* UTF16ToUTF8, if that has no surrogates (which come back as four other units).
CharactersKept ==
    /\ buf = given
    /\ (\A i \in DOMAIN string : string[i] < 65536) =>
          UTF8ToUTF16(UTF16ToUTF8(Units(string))) = Units(string)
=============================================================================
