---------------------------- MODULE MCKeyboard ----------------------------
(* A small keymap that uses every rule of the translation: two Shift keys,    *)
(* one of which unlocks, an Alt, a pad key (a digit, a letter with Shift, a   *)
(* digit to compose with Alt) and a key of locks (CapsLock, CapsOn with       *)
(* Shift, NumLock with Alt).                                                  *)
EXTENDS Keyboard
MCKeys == {"lshift", "capsshift", "alt", "pad", "locks"}
MCMods == {"shift", "alt"}
PadType(s) == CASE "alt" \in s -> "ASCII" [] s = {} -> "PAD" [] OTHER -> "LETTER"
Lock(s) == CASE s = {} -> "CAPS" [] s = {"shift"} -> "CAPSON" [] OTHER -> "NUM"
MCSym(s, k) ==
    CASE k = "lshift"    -> [type |-> "SHIFT", value |-> "shift"]
      [] k = "capsshift" -> [type |-> "CAPSSHIFT", value |-> "shift"]
      [] k = "alt"       -> [type |-> "SHIFT", value |-> "alt"]
      [] k = "pad"       -> [type |-> PadType(s), value |-> 1]
      [] k = "locks"     -> [type |-> "SPEC", value |-> Lock(s)]
MCKeymap == [s \in SUBSET MCMods |-> [k \in MCKeys |-> MCSym(s, k)]]
=============================================================================
