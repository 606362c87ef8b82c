-------------------------------- MODULE Utf --------------------------------
(***************************************************************************)
(* The way of a text from an input method of OpenVanilla to a widget: the   *)
(* module has UTF-16 units, OVImfService (ucimf-openvanilla/src/            *)
(* openvanilla.cpp) makes UTF-8 bytes of them and back, ustring             *)
(* (libucimf/src/type.cpp) makes characters of the bytes.                   *)
(*                                                                         *)
(* A character is its code point.  Bits are taken with \div and %.          *)
(***************************************************************************)
EXTENDS Integers, Sequences, SequencesExt

CONSTANT
    TmpWords        \* the words of ustring's buffer tmp: 64 in type.cpp:36

ASSUME TmpWordsAssumption == TmpWords \in Nat \ {0}

-----------------------------------------------------------------------------
(* OVImfService.  A string is well formed: a high surrogate has its low one.  *)

IsHigh(unit) == unit \in 55296..56319

\* The surrogate pair of a character, and what every module holds of a text.
Utf16(ch) ==
    IF ch < 65536 THEN <<ch>>
    ELSE <<55296 + (ch - 65536) \div 1024, 56320 + ((ch - 65536) % 1024)>>
Units(chars) == FlattenSeq([i \in DOMAIN chars |-> Utf16(chars[i])])

\* A continuation byte: six bits of n, above the lowest.
Continuation(n, above) == 128 + ((n \div above) % 64)

\* Mutated form: the last character of two bytes gets three.
BytesOfUnitShort(unit, next) ==
    CASE unit < 128   -> <<unit>>
      [] unit \in 128..2046 -> <<192 + unit \div 64, Continuation(unit, 1)>>
      [] OTHER        -> <<224 + unit \div 4096, Continuation(unit, 64), Continuation(unit, 1)>>

\* The bytes of one unit, or of a pair.
BytesOfUnit(unit, next) ==
    CASE unit < 128   -> <<unit>>
      [] unit \in 128..2047 -> <<192 + unit \div 64, Continuation(unit, 1)>>
      [] unit > 2047 /\ ~IsHigh(unit) ->
            <<224 + unit \div 4096, Continuation(unit, 64), Continuation(unit, 1)>>
      [] IsHigh(unit) ->
            LET codepoint == (unit - 55296) * 1024 + (next - 56320) + 65536
            IN  <<240 + codepoint \div 262144, Continuation(codepoint, 4096),
                  Continuation(codepoint, 64), Continuation(codepoint, 1)>>

UTF16ToUTF8(s) ==
    FlattenSeq([i \in DOMAIN s |->
                  IF i > 1 /\ IsHigh(s[i - 1]) THEN <<>>
                  ELSE BytesOfUnit(s[i], IF i < Len(s) THEN s[i + 1] ELSE 0)])

\* What has been read of the bytes: the units so far and, of the one that has been
\* begun, how many bytes are missing and the bits there are.
Reading(out, need, acc) == [out |-> out, need |-> need, acc |-> acc]

\* One byte of UTF8ToUTF16, which knows two and three bytes.  The else takes a
\* char as it is, sign included.
TakeByte(st, byte) ==
    CASE st.need = 0 /\ byte \div 32 = 6  -> Reading(st.out, 1, byte % 32)
      [] st.need = 0 /\ byte \div 16 = 14 -> Reading(st.out, 2, byte % 16)
      [] st.need = 0 /\ byte \div 32 # 6 /\ byte \div 16 # 14 ->
            Reading(Append(st.out, IF byte < 128 THEN byte ELSE 65280 + byte), 0, 0)
      [] st.need = 1 -> Reading(Append(st.out, st.acc * 64 + (byte % 64)), 0, 0)
      [] st.need = 2 -> Reading(st.out, 1, st.acc * 64 + (byte % 64))

Taken(bytes) ==
    LET taken[n \in 0..Len(bytes)] ==
          IF n = 0 THEN Reading(<<>>, 0, 0) ELSE TakeByte(taken[n - 1], bytes[n])
    IN  taken[Len(bytes)]

UTF8ToUTF16(bytes) == Taken(bytes).out

-----------------------------------------------------------------------------
(* ustring.                                                                  *)

\* As above, with the least character of so many bytes, and whether all were valid.
Converting(out, need, acc, least) ==
    [out |-> out, need |-> need, acc |-> acc, least |-> least, valid |-> TRUE]

\* External: iconv, which stops at the first byte that is not of UTF-8, at a
\* surrogate and at a character that has a shorter form.
ConvertByte(st, byte) ==
    LET stopped == [st EXCEPT !.valid = FALSE]
        ch == st.acc * 64 + (byte % 64)
    IN  IF ~st.valid THEN st
        ELSE IF st.need = 0
        THEN CASE byte < 128        -> Converting(Append(st.out, byte), 0, 0, 0)
               [] byte \in 192..223 -> Converting(st.out, 1, byte % 32, 128)
               [] byte \in 224..239 -> Converting(st.out, 2, byte % 16, 2048)
               [] byte \in 240..247 -> Converting(st.out, 3, byte % 8, 65536)
               [] OTHER             -> stopped
        ELSE IF byte \div 64 # 2 THEN stopped
        ELSE IF st.need > 1 THEN Converting(st.out, st.need - 1, ch, st.least)
        ELSE IF ch < st.least \/ ch > 1114111 \/ ch \in 55296..57343 THEN stopped
        ELSE Converting(Append(st.out, ch), 0, 0, 0)

Converted(bytes) ==
    LET converted[n \in 0..Len(bytes)] ==
          IF n = 0 THEN Converting(<<>>, 0, 0, 0)
          ELSE ConvertByte(converted[n - 1], bytes[n])
    IN  converted[Len(bytes)]

iconv(bytes) == Converted(bytes).out

\* The constructor: tmp takes the byte order mark and what fits behind it.
ustring(bytes) == SubSeq(iconv(bytes), 1, Min({Len(iconv(bytes)), TmpWords - 1}))
=============================================================================
