------------------------------ MODULE Options ------------------------------
(***************************************************************************)
(* The configuration (libucimf/src/options.cpp).  A file is a sequence of   *)
(* lines, a line a sequence of characters; options are a function from the  *)
(* names that were set to their values.                                     *)
(***************************************************************************)
EXTENDS Integers, Sequences, SequencesExt

CONSTANT
    NoFile          \* there is no file, or it is not readable

\* How many characters of a set s begins with, what follows them, and the
\* beginning up to the first character of a set.
Run(s, set) == Max({n \in 0..Len(s) : \A i \in 1..n : s[i] \in set})
Behind(s, skipped) == SubSeq(s, Run(s, skipped) + 1, Len(s))
UpTo(s, ends) == SubSeq(s, 1, Run(s, STRING \ ends))

\* A line of parse_file.
ParseLine(s) ==
    LET t == Behind(s, {" "})
        o == UpTo(t, {" ", "\t", "="})
        r == Behind(SubSeq(t, Len(o) + 1, Len(t)), {" ", "\t", "="})
    IN  [o |-> o, v |-> UpTo(r, {" ", "\t"})]

\* Mutated form: operator[] in place of insert.
InsertedOver(opts, o, v) ==
    [n \in DOMAIN opts \union {o} |-> IF n = o THEN v ELSE opts[n]]

\* map::insert keeps the value it has.
Inserted(opts, o, v) ==
    [n \in DOMAIN opts \union {o} |-> IF n \in DOMAIN opts THEN opts[n] ELSE v]

ParseNext(opts, s) ==
    IF (s # <<>> /\ s[1] = "#") \/ ParseLine(s).o = <<>> THEN opts
    ELSE Inserted(opts, ParseLine(s).o, ParseLine(s).v)

parse_file(lines) ==
    LET opts[n \in 0..Len(lines)] ==
          IF n = 0 THEN <<>> ELSE ParseNext(opts[n - 1], lines[n])
    IN  opts[Len(lines)]

\* The constructor looks for the user's file, then for the system's.
Chosen(home, system) == IF home # NoFile THEN home ELSE system

Nothing == <<"n", "o", "t", "h", "i", "n", "g">>
getOption(opts, name) == IF name \in DOMAIN opts THEN opts[name] ELSE Nothing

\* External: atoi of a number without a sign, 0 if there is none.
Digits == <<"0", "1", "2", "3", "4", "5", "6", "7", "8", "9">>
Digit(c) == CHOOSE d \in 0..9 : Digits[d + 1] = c
atoi(v) ==
    LET value[n \in 0..Run(v, ToSet(Digits))] ==
          IF n = 0 THEN 0 ELSE 10 * value[n - 1] + Digit(v[n])
    IN  value[Run(v, ToSet(Digits))]
=============================================================================
