------------------------------ MODULE Keyboard ------------------------------
(***************************************************************************)
(* The translation of raw key codes (libucimf/src/ucimf.cpp:331-716:        *)
(* ucimf_process_raw, init_keycode_state, keycode_to_keysym,                *)
(* keysym_to_term_string), used when FbTerm puts the keyboard in medium raw *)
(* mode.  The kernel then reports only which key went down or up; the       *)
(* library has to know by itself which modifiers are held and which locks   *)
(* are on, from the events it is given.  It is not given all of them: the   *)
(* keyboard belongs to others until FbTerm activates the input method and   *)
(* while another virtual console is shown, and of a message with several    *)
(* key codes only the last one is translated.                              *)
(***************************************************************************)
EXTENDS Integers, FiniteSets

CONSTANTS
    Keys,           \* key codes
    Mods,           \* the modifiers of the kernel: KG_SHIFT, KG_CTRL, KG_ALT...
    Values,         \* what letters, digits and pad keys stand for
    Keymap,         \* the kernel's tables: a set of modifiers, a key -> keysym
    NpadBound       \* bound: composed code points are followed up to here

Locks == {"CAPS", "NUM"}

\* KT_SHIFT keysyms name a modifier; K_CAPSSHIFT is a Shift that also unlocks.
ModSyms == [type : {"SHIFT", "CAPSSHIFT"}, value : Mods]

\* K_NUM, K_CAPS and K_CAPSON of KT_SPEC.
LockSyms == [type : {"SPEC"}, value : {"NUM", "CAPS", "CAPSON"}]

\* KT_ASCII digits are composed to one character; K_HOLE stands for nothing
\* and for a table that is not allocated.
OtherSyms == [type : {"LETTER", "LATIN", "PAD", "ASCII", "HOLE"}, value : Values]

Keysyms == ModSyms \cup LockSyms \cup OtherSyms

\* A modifier key means the same in every table, digits for composing are in
\* tables of some modifier only.  kbd keymaps are built this way: a table that
\* maps a modifier key to something else could never be left.
ASSUME KeymapAssumption ==
    /\ IsFiniteSet(Keys)
    /\ "shift" \in Mods
    /\ Values \subseteq Nat
    /\ Keymap \in [SUBSET Mods -> [Keys -> Keysyms]]
    /\ \A k \in Keys : \A s, t \in SUBSET Mods :
         Keymap[s][k] \in ModSyms => Keymap[t][k] = Keymap[s][k]
    /\ \A k \in Keys : \A s \in {{}, {"shift"}} : Keymap[s][k].type # "ASCII"
    /\ \A k \in Keys : \A s \in SUBSET Mods : Keymap[s][k].type = "CAPSSHIFT" =>
         Keymap[s][k].value = "shift"

VARIABLES
    held,           \* the keys that are physically down
    leds,           \* the kernel's lock flags (KDGKBLED, KDSKBLED)
    mode,           \* who has the keyboard: "off", "on", "away"
    seen,           \* every key event since the activation has been translated
    fresh,          \* no modifier was held at the activation
    kept,           \* while seen, the keys held since the activation with no event yet
    key_down, shift_down, shift_state, lock_state, npadch,  \* ucimf.cpp:95-100
    result          \* the string ucimf_process_raw hands to the engine

host == <<held, mode, seen, fresh, kept>>
state == <<key_down, shift_down, shift_state, lock_state, npadch>>
vars == <<host, leds, state, result>>

Nothing == [kind |-> "none", value |-> 0]

\* The modifier a key stands for in every table, if any.
IsModKey(k) == Keymap[{}][k] \in ModSyms
ModKeys(v) == {k \in Keys : IsModKey(k) /\ Keymap[{}][k].value = v}

-----------------------------------------------------------------------------
\* shift_state ^ (1 << KG_SHIFT)
FlipShift(mods) == IF "shift" \in mods THEN mods \ {"shift"} ELSE mods \cup {"shift"}

\* The table lookups of keycode_to_keysym: a letter under CapsLock is looked up
\* again with Shift inverted.
Keysym(kc) ==
    LET sym == Keymap[shift_state][kc]
    IN  IF sym.type = "LETTER" /\ "CAPS" \in lock_state
        THEN Keymap[FlipShift(shift_state)][kc] ELSE sym

Repeated(kc, down) == down /\ kc \in key_down

\* Mutated form: a repeated press of a lock key toggles it again.
LocksAfterRepeats(kc, down) ==
    LET sym == Keysym(kc)
    IN  IF sym \in LockSyms /\ down
        THEN (lock_state \cup {sym.value}) \ (lock_state \cap {sym.value})
        ELSE lock_state

\* KT_SPEC and the unlocking Shift: the locks after an event.
LocksAfter(kc, down) ==
    LET sym == Keysym(kc)
    IN  IF ~down \/ Repeated(kc, down) THEN lock_state
        ELSE CASE sym.type = "SPEC" /\ sym.value = "CAPSON" -> lock_state \cup {"CAPS"}
               [] sym.type = "SPEC" /\ sym.value # "CAPSON" ->
                    (lock_state \cup {sym.value}) \ (lock_state \cap {sym.value})
               [] sym.type = "CAPSSHIFT" -> lock_state \ {"CAPS"}
               [] OTHER -> lock_state

\* Mutated forms: a repeated press counts again, two keys of a modifier count
\* as one, a release the library has not seen pressed is counted below zero.
CountAfterRepeats(kc, down) ==
    LET sym == Keysym(kc)
    IN  IF sym \notin ModSyms THEN shift_down
        ELSE [shift_down EXCEPT ![sym.value] =
                IF down THEN @ + 1 ELSE IF @ > 0 THEN @ - 1 ELSE @]

CountAfterFirstOnly(kc, down) ==
    LET sym == Keysym(kc)
    IN  IF sym \notin ModSyms THEN shift_down
        ELSE [shift_down EXCEPT ![sym.value] = IF down THEN 1 ELSE 0]

CountAfterUnguarded(kc, down) ==
    LET sym == Keysym(kc)
    IN  IF sym \notin ModSyms \/ Repeated(kc, down) THEN shift_down
        ELSE [shift_down EXCEPT ![sym.value] = IF down THEN @ + 1 ELSE @ - 1]

\* KT_SHIFT: the modifier counts after an event.
CountAfter(kc, down) ==
    LET sym == Keysym(kc)
    IN  IF sym \notin ModSyms \/ Repeated(kc, down) THEN shift_down
        ELSE [shift_down EXCEPT ![sym.value] =
                IF down THEN @ + 1 ELSE IF @ > 0 THEN @ - 1 ELSE @]

\* Only the bit of the modifier that was counted is brought up to date.
StateAfter(kc, down) ==
    LET sym == Keysym(kc)
    IN  IF sym \notin ModSyms \/ Repeated(kc, down) THEN shift_state
        ELSE IF CountAfter(kc, down)[sym.value] > 0
             THEN shift_state \cup {sym.value} ELSE shift_state \ {sym.value}

\* KT_ASCII of keysym_to_term_string, with base 10; the release of a modifier
\* ends the composition.
NpadAfter(kc, down) ==
    LET sym == Keysym(kc)
    IN  IF sym.type = "ASCII" /\ down
        THEN IF npadch = -1 THEN sym.value ELSE npadch * 10 + sym.value
        ELSE IF sym \in ModSyms /\ ~down THEN -1 ELSE npadch

\* keysym_to_term_string with keypad_keysym_redirect; ucimf_process_raw drops
\* the string of every release.
StringFor(kc, down) ==
    LET sym  == Keysym(kc)
        kind == CASE sym.type \in {"LETTER", "LATIN"} -> "char"
                  [] sym.type = "PAD" ->
                       IF "NUM" \in LocksAfter(kc, down) THEN "digit" ELSE "function"
                  [] OTHER -> "none"
    IN  IF ~down \/ kind = "none" THEN Nothing ELSE [kind |-> kind, value |-> sym.value]

\* Mutated form: the kernel is not told.
TranslateWithoutLeds(kc, down) ==
    /\ key_down' = IF down THEN key_down \cup {kc} ELSE key_down \ {kc}
    /\ shift_down' = CountAfter(kc, down)
    /\ shift_state' = StateAfter(kc, down)
    /\ lock_state' = LocksAfter(kc, down)
    /\ npadch' = NpadAfter(kc, down)
    /\ result' = StringFor(kc, down)
    /\ UNCHANGED leds

\* keycode_to_keysym and keysym_to_term_string as ucimf_process_raw calls them;
\* the kernel is told of a lock that has changed.
Translate(kc, down) ==
    /\ key_down' = IF down THEN key_down \cup {kc} ELSE key_down \ {kc}
    /\ shift_down' = CountAfter(kc, down)
    /\ shift_state' = StateAfter(kc, down)
    /\ lock_state' = LocksAfter(kc, down)
    /\ leds' = IF LocksAfter(kc, down) # lock_state THEN LocksAfter(kc, down) ELSE leds
    /\ npadch' = NpadAfter(kc, down)
    /\ result' = StringFor(kc, down)

-----------------------------------------------------------------------------
(* The keyboard and FbTerm.                                                  *)

\* A key goes down, repeats or goes up.
Possible(keys, kc, down) == down \/ kc \in keys
After(keys, kc, down) == IF down THEN keys \cup {kc} ELSE keys \ {kc}

Init ==
    /\ held = {}
    /\ leds \in SUBSET Locks
    /\ mode = "off"
    /\ seen = FALSE
    /\ fresh = FALSE
    /\ kept = {}
    /\ key_down = {}
    /\ shift_down = [v \in Mods |-> 0]
    /\ shift_state = {}
    /\ lock_state = {}
    /\ npadch = 0
    /\ result = Nothing

\* The keyboard is read by others: FbTerm before the activation, another
\* console while FbTerm is not shown.  In K_XLATE mode the kernel handles the
\* locks itself.
KeyElsewhere(kc, down) ==
    /\ mode # "on"
    /\ Possible(held, kc, down)
    /\ held' = After(held, kc, down)
    /\ seen' = FALSE
    /\ kept' = {}
    /\ UNCHANGED <<mode, fresh, leds, state, result>>

LockElsewhere ==
    /\ mode = "off"
    /\ leds' \in SUBSET Locks
    /\ UNCHANGED <<host, state, result>>

\* Mutated forms: a reset is forgotten.
ActivateKeepingCounts ==
    /\ mode = "off"
    /\ mode' = "on"
    /\ seen' = TRUE
    /\ fresh' = (held \cap UNION {ModKeys(v) : v \in Mods} = {})
    /\ kept' = held
    /\ npadch' = -1
    /\ shift_state' = {}
    /\ key_down' = {}
    /\ lock_state' = leds
    /\ UNCHANGED <<held, leds, shift_down, result>>

ActivateKeepingNpad ==
    /\ mode = "off"
    /\ mode' = "on"
    /\ seen' = TRUE
    /\ fresh' = (held \cap UNION {ModKeys(v) : v \in Mods} = {})
    /\ kept' = held
    /\ shift_state' = {}
    /\ key_down' = {}
    /\ shift_down' = [v \in Mods |-> 0]
    /\ lock_state' = leds
    /\ UNCHANGED <<held, leds, npadch, result>>

\* Active: im_active of fbterm_ucimf.cpp calls init_keycode_state.
Activate ==
    /\ mode = "off"
    /\ mode' = "on"
    /\ seen' = TRUE
    /\ fresh' = (held \cap UNION {ModKeys(v) : v \in Mods} = {})
    /\ kept' = held
    /\ npadch' = -1
    /\ shift_state' = {}
    /\ key_down' = {}
    /\ shift_down' = [v \in Mods |-> 0]
    /\ lock_state' = leds
    /\ UNCHANGED <<held, leds, result>>

Deactivate ==
    /\ mode = "on"
    /\ mode' = "off"
    /\ UNCHANGED <<held, seen, fresh, kept, leds, state, result>>

\* Alt-Fn: another console gets the keyboard and gives it back; HideUI and
\* ShowUI have no callback in fbterm_ucimf.cpp.
SwitchAway ==
    /\ mode = "on"
    /\ mode' = "away"
    /\ UNCHANGED <<held, seen, fresh, kept, leds, state, result>>

SwitchBack ==
    /\ mode = "away"
    /\ mode' = "on"
    /\ UNCHANGED <<held, seen, fresh, kept, leds, state, result>>

\* A SendKey message with one key code, with the bound on what is composed.
SendKey(kc, down) ==
    /\ mode = "on"
    /\ Possible(held, kc, down)
    /\ NpadAfter(kc, down) <= NpadBound
    /\ held' = After(held, kc, down)
    /\ Translate(kc, down)
    /\ kept' = kept \ {kc}
    /\ UNCHANGED <<mode, seen, fresh>>

\* A SendKey message with two: the loop of ucimf_process_raw (ucimf.cpp:339)
\* keeps only the last key code.
SendTwoKeys(first, firstDown, kc, down) ==
    /\ mode = "on"
    /\ Possible(held, first, firstDown)
    /\ Possible(After(held, first, firstDown), kc, down)
    /\ NpadAfter(kc, down) <= NpadBound
    /\ held' = After(After(held, first, firstDown), kc, down)
    /\ Translate(kc, down)
    /\ seen' = FALSE
    /\ kept' = {}
    /\ UNCHANGED <<mode, fresh>>

Next ==
    \/ \E kc \in Keys, down \in BOOLEAN : KeyElsewhere(kc, down) \/ SendKey(kc, down)
    \/ \E first, kc \in Keys, firstDown, down \in BOOLEAN :
         SendTwoKeys(first, firstDown, kc, down)
    \/ LockElsewhere
    \/ Activate
    \/ Deactivate
    \/ SwitchAway
    \/ SwitchBack

Spec == Init /\ [][Next]_vars

-----------------------------------------------------------------------------
(* Properties.                                                               *)

\* The variables keep their types; in particular no count of a modifier goes
\* below zero, although releases arrive whose presses were never seen.
TypeOK ==
    /\ held \subseteq Keys /\ kept \subseteq Keys /\ key_down \subseteq Keys
    /\ leds \subseteq Locks /\ lock_state \subseteq Locks
    /\ mode \in {"off", "on", "away"}
    /\ seen \in BOOLEAN /\ fresh \in BOOLEAN
    /\ shift_down \in [Mods -> Nat]
    /\ shift_state \subseteq Mods
    /\ npadch \in Nat \cup {-1}
    /\ result.kind \in {"none", "char", "digit", "function"}

HeldFor(v) == held \cap ModKeys(v)

\* A modifier is never on when none of its keys is held, provided no key event
\* was lost since the activation: whatever was held when the input method was
\* activated, and however left and right keys, repeats and a held Ctrl of the
\* activating shortcut interleave, shift_state cannot get stuck.
NoStuckModifier ==
    mode = "on" /\ seen =>
      \A v \in Mods : v \in shift_state => HeldFor(v) # {}

\* If moreover no modifier was held at the activation, the modifiers are known
\* exactly, with one count for each key.
ModifiersExact ==
    mode = "on" /\ seen /\ fresh =>
      \A v \in Mods : /\ shift_down[v] = Cardinality(HeldFor(v))
                      /\ v \in shift_state <=> HeldFor(v) # {}

\* The bits that select the keymap table follow the counts the shortcuts test
\* (ucimf.cpp:369-388), in every mode and whatever was lost.
StateFollowsCounts ==
    \A v \in Mods : v \in shift_state <=> shift_down[v] > 0

\* A character is being composed only while a modifier is believed held, so its
\* release will end the composition.
CompositionEnds ==
    mode # "off" /\ npadch # -1 => shift_state # {}

\* The lamps show the locks the letters are translated with.
LocksShown == mode # "off" => lock_state = leds

\* As long as no key event is lost, a lock changes only where a key really goes down
\* that was up, so that holding a lock key toggles it once.  A key held since before
\* the activation is new to the library: it may toggle at its first repeat, no more.
LocksOnlyOnPress ==
    [][mode = "on" /\ mode' = "on" /\ seen' /\ lock_state' # lock_state =>
         \E k \in held' : k \notin held \/ k \in kept \ kept']_vars

-----------------------------------------------------------------------------
\* imapi.h:77-78: keycodes are translated according to the current kernel
\* keymap, so a table of a modifier is used only while the modifier is held.
TranslatesByHeldModifiers ==
    mode = "on" => \A v \in Mods : v \in shift_state => HeldFor(v) # {}
=============================================================================
