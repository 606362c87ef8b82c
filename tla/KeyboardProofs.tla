--------------------------- MODULE KeyboardProofs ---------------------------
(***************************************************************************)
(* Proofs about Keyboard, for every keyboard and every keymap in which a    *)
(* modifier key means the same in all tables.  What makes the invariant     *)
(* inductive is that the count of a modifier never exceeds the number of    *)
(* its keys in key_down: a repeat does not count because the key is there,  *)
(* a release of a key that is not there can only lower the count.           *)
(***************************************************************************)
EXTENDS Keyboard, FiniteSetTheorems, TLAPS

\* The keys of a modifier the library believes to be down.
Known(v) == key_down \cap ModKeys(v)

CountsBounded == \A v \in Mods : shift_down[v] <= Cardinality(Known(v))

\* No release was missed: what the library believes down is down.
BelievedHeld == mode # "off" /\ seen => key_down \subseteq held

\* What is down the library believes down, but for a key held since before the
\* activation of which no event has come.
HeldBelieved == mode # "off" /\ seen => held \ kept \subseteq key_down

\* No press was missed either, and none came before the activation.
CountsExact ==
    mode # "off" /\ seen /\ fresh =>
      \A v \in Mods : /\ HeldFor(v) \subseteq key_down
                      /\ shift_down[v] = Cardinality(Known(v))

IInv ==
    /\ TypeOK
    /\ StateFollowsCounts
    /\ CountsBounded
    /\ BelievedHeld
    /\ HeldBelieved
    /\ CountsExact
    /\ CompositionEnds
    /\ LocksShown

-----------------------------------------------------------------------------
(* Facts about the lookups.                                                  *)

\* A lookup reads some table of the keymap.
LEMMA KeysymTable ==
    ASSUME TypeOK, NEW kc \in Keys
    PROVE  \E s \in SUBSET Mods : Keysym(kc) = Keymap[s][kc]
<1>1. shift_state \in SUBSET Mods /\ FlipShift(shift_state) \in SUBSET Mods
  BY KeymapAssumption DEF TypeOK, FlipShift
<1> QED BY <1>1 DEF Keysym

\* Every lookup yields a keysym of the kernel.
LEMMA KeysymType ==
    ASSUME TypeOK, NEW kc \in Keys
    PROVE  Keysym(kc) \in Keysyms
BY KeysymTable, KeymapAssumption

\* Whatever the state, a modifier key is looked up as its modifier, and no other is.
LEMMA KeysymMod ==
    ASSUME TypeOK, NEW kc \in Keys
    PROVE  /\ Keysym(kc) \in ModSyms <=> IsModKey(kc)
           /\ IsModKey(kc) => Keysym(kc) = Keymap[{}][kc]
<1>1. PICK s \in SUBSET Mods : Keysym(kc) = Keymap[s][kc]
  BY KeysymTable
<1>2. {} \in SUBSET Mods
  OBVIOUS
<1>3. Keysym(kc) \in ModSyms => Keymap[{}][kc] = Keysym(kc)
  BY <1>1, <1>2, KeymapAssumption
<1>4. Keymap[{}][kc] \in ModSyms => Keysym(kc) = Keymap[{}][kc]
  BY <1>1, <1>2, KeymapAssumption
<1> QED BY <1>3, <1>4 DEF IsModKey

\* The four things an event can do to the counts: nothing, for any key but a
\* modifier and for a repeat, or count one of the keys of one modifier.
LEMMA ModKeyOf ==
    ASSUME TypeOK, NEW kc \in Keys, Keysym(kc) \in ModSyms
    PROVE  /\ Keysym(kc).value \in Mods
           /\ \A v \in Mods : kc \in ModKeys(v) <=> v = Keysym(kc).value
BY KeysymMod DEF ModKeys, ModSyms

\* A key that is looked up as anything else is a key of no modifier.
LEMMA NotModKey ==
    ASSUME TypeOK, NEW kc \in Keys, Keysym(kc) \notin ModSyms
    PROVE  \A v \in Mods : kc \notin ModKeys(v)
BY KeysymMod DEF ModKeys

\* The counts after an event are natural numbers: a release never counts below zero.
LEMMA CountType ==
    ASSUME TypeOK, NEW kc \in Keys, NEW down \in BOOLEAN
    PROVE  CountAfter(kc, down) \in [Mods -> Nat]
<1>1. CASE Keysym(kc) \notin ModSyms \/ Repeated(kc, down)
  BY <1>1 DEF CountAfter, TypeOK
<1>2. CASE Keysym(kc) \in ModSyms /\ ~Repeated(kc, down)
  <2>1. Keysym(kc).value \in Mods
    BY <1>2, ModKeyOf
  <2>2. shift_down[Keysym(kc).value] \in Nat
    BY <2>1 DEF TypeOK
  <2> QED BY <1>2, <2>1, <2>2 DEF CountAfter, TypeOK
<1> QED BY <1>1, <1>2

\* The table selector after an event is a set of modifiers.
LEMMA StateType ==
    ASSUME TypeOK, NEW kc \in Keys, NEW down \in BOOLEAN
    PROVE  StateAfter(kc, down) \subseteq Mods
<1>1. Keysym(kc) \in ModSyms => Keysym(kc).value \in Mods
  BY ModKeyOf
<1> QED BY <1>1 DEF StateAfter, TypeOK

\* The locks after an event are locks.
LEMMA LocksType ==
    ASSUME TypeOK, NEW kc \in Keys, NEW down \in BOOLEAN
    PROVE  LocksAfter(kc, down) \subseteq Locks
<1>1. ASSUME Keysym(kc).type = "SPEC", Keysym(kc).value # "CAPSON"
      PROVE  Keysym(kc).value \in Locks
  <2>1. Keysym(kc) \in LockSyms
    BY <1>1, KeysymType DEF Keysyms, ModSyms, LockSyms, OtherSyms
  <2> QED BY <2>1, <1>1 DEF LockSyms, Locks
<1>2. lock_state \subseteq Locks
  BY DEF TypeOK
<1> QED BY <1>1, <1>2 DEF LocksAfter, Locks

\* The composed code point after an event is a natural number or -1.
LEMMA NpadType ==
    ASSUME TypeOK, NEW kc \in Keys, NEW down \in BOOLEAN
    PROVE  NpadAfter(kc, down) \in Nat \cup {-1}
<1>1. Keysym(kc).type = "ASCII" => Keysym(kc).value \in Nat
  BY KeysymType, KeymapAssumption DEF Keysyms, ModSyms, LockSyms, OtherSyms
<1>2. npadch \in Nat \cup {-1}
  BY DEF TypeOK
<1> QED BY <1>1, <1>2 DEF NpadAfter

\* The string of an event is of one of the four kinds.
LEMMA StringType ==
    ASSUME NEW kc \in Keys, NEW down \in BOOLEAN
    PROVE  StringFor(kc, down).kind \in {"none", "char", "digit", "function"}
BY DEF StringFor, Nothing

\* A translated event keeps the types of all that it changes.
LEMMA TranslateType ==
    ASSUME TypeOK, NEW kc \in Keys, NEW down \in BOOLEAN, Translate(kc, down)
    PROVE  /\ key_down' \subseteq Keys
           /\ shift_down' \in [Mods -> Nat]
           /\ shift_state' \subseteq Mods
           /\ lock_state' \subseteq Locks /\ leds' \subseteq Locks
           /\ npadch' \in Nat \cup {-1}
           /\ result'.kind \in {"none", "char", "digit", "function"}
<1>1. key_down' \subseteq Keys
  BY DEF Translate, TypeOK
<1>2. lock_state' \subseteq Locks /\ leds' \subseteq Locks
  BY LocksType DEF Translate, TypeOK
<1> QED BY <1>1, <1>2, CountType, StateType, NpadType, StringType DEF Translate

\* A translated event keeps the table selector in step with the counts.
LEMMA TranslateState ==
    ASSUME TypeOK, StateFollowsCounts,
           NEW kc \in Keys, NEW down \in BOOLEAN, Translate(kc, down)
    PROVE  StateFollowsCounts'
<1>1. CASE Keysym(kc) \notin ModSyms \/ Repeated(kc, down)
  BY <1>1 DEF Translate, CountAfter, StateAfter, StateFollowsCounts
<1>2. CASE Keysym(kc) \in ModSyms /\ ~Repeated(kc, down)
  <2> DEFINE m == Keysym(kc).value
  <2>1. m \in Mods
    BY <1>2, ModKeyOf
  <2>2. shift_state' = IF shift_down'[m] > 0 THEN shift_state \cup {m} ELSE shift_state \ {m}
    BY <1>2 DEF Translate, StateAfter
  <2>3. \A v \in Mods \ {m} : shift_down'[v] = shift_down[v]
    BY <1>2 DEF Translate, CountAfter, TypeOK
  <2> HIDE DEF m
  <2> QED BY <2>1, <2>2, <2>3 DEF StateFollowsCounts
<1> QED BY <1>1, <1>2

\* The believed keys of a modifier can be counted.
LEMMA KnownFinite == ASSUME TypeOK, NEW v PROVE IsFiniteSet(Known(v)) /\ Cardinality(Known(v)) \in Nat
<1>1. Known(v) \in SUBSET Keys
  BY DEF Known, TypeOK
<1> QED BY <1>1, KeymapAssumption, FS_Subset, FS_CardinalityType

\* What an event does to the believed keys of a modifier.
LEMMA KnownAfter ==
    ASSUME TypeOK, NEW kc \in Keys, NEW down \in BOOLEAN, Translate(kc, down),
           NEW v \in Mods
    PROVE  /\ kc \notin ModKeys(v) => Known(v)' = Known(v)
           /\ kc \in ModKeys(v) /\ down => Known(v)' = Known(v) \cup {kc}
           /\ kc \in ModKeys(v) /\ ~down => Known(v)' = Known(v) \ {kc}
           /\ kc \in ModKeys(v) => (kc \in Known(v) <=> kc \in key_down)
BY DEF Known, Translate, ModKeys, IsModKey

\* And to their number.
LEMMA KnownCount ==
    ASSUME TypeOK, NEW kc \in Keys, NEW down \in BOOLEAN, Translate(kc, down),
           NEW v \in Mods, kc \in ModKeys(v)
    PROVE  /\ down /\ kc \notin key_down =>
                Cardinality(Known(v)') = Cardinality(Known(v)) + 1
           /\ ~down /\ kc \in key_down =>
                Cardinality(Known(v)') = Cardinality(Known(v)) - 1
           /\ Repeated(kc, down) \/ (~down /\ kc \notin key_down) => Known(v)' = Known(v)
<1>1. IsFiniteSet(Known(v)) /\ Cardinality(Known(v)) \in Nat
  BY KnownFinite
<1>2. ASSUME down, kc \notin key_down
      PROVE  Cardinality(Known(v)') = Cardinality(Known(v)) + 1
  <2>1. Known(v)' = Known(v) \cup {kc} /\ kc \notin Known(v)
    BY <1>2, KnownAfter
  <2>2. Cardinality(Known(v) \cup {kc}) = Cardinality(Known(v)) + 1
    BY <1>1, <2>1, FS_AddElement
  <2> QED BY <2>1, <2>2
<1>3. ASSUME ~down, kc \in key_down
      PROVE  Cardinality(Known(v)') = Cardinality(Known(v)) - 1
  <2>1. Known(v)' = Known(v) \ {kc} /\ kc \in Known(v)
    BY <1>3, KnownAfter
  <2>2. Cardinality(Known(v) \ {kc}) = Cardinality(Known(v)) - 1
    BY <1>1, <2>1, FS_RemoveElement
  <2> QED BY <2>1, <2>2
<1>4. ASSUME Repeated(kc, down) PROVE Known(v)' = Known(v)
  <2>1. Known(v)' = Known(v) \cup {kc} /\ kc \in Known(v)
    BY <1>4, KnownAfter DEF Repeated
  <2> QED BY <2>1
<1>5. ASSUME ~down, kc \notin key_down PROVE Known(v)' = Known(v)
  <2>1. Known(v)' = Known(v) \ {kc} /\ kc \notin Known(v)
    BY <1>5, KnownAfter
  <2> QED BY <2>1
<1> QED BY <1>2, <1>3, <1>4, <1>5

\* A translated event keeps the count of a modifier within the number of its believed keys.
LEMMA TranslateBound ==
    ASSUME TypeOK, CountsBounded,
           NEW kc \in Keys, NEW down \in BOOLEAN, Translate(kc, down)
    PROVE  CountsBounded'
<1> SUFFICES ASSUME NEW v \in Mods PROVE shift_down'[v] <= Cardinality(Known(v)')
  BY DEF CountsBounded
<1>1. /\ shift_down[v] \in Nat /\ shift_down[v] <= Cardinality(Known(v))
      /\ Cardinality(Known(v)) \in Nat
  BY KnownFinite DEF CountsBounded, TypeOK
<1>2. CASE kc \notin ModKeys(v)
  <2>1. shift_down'[v] = shift_down[v]
    BY <1>2, ModKeyOf DEF Translate, CountAfter, TypeOK
  <2>2. Known(v)' = Known(v)
    BY <1>2, KnownAfter
  <2> QED BY <1>1, <2>1, <2>2
<1>3. CASE kc \in ModKeys(v)
  <2>1. Keysym(kc) \in ModSyms /\ Keysym(kc).value = v
    BY <1>3, NotModKey, ModKeyOf
  <2>2. CASE Repeated(kc, down)
    <3>1. shift_down' = shift_down
      BY <2>2 DEF Translate, CountAfter
    <3>2. Known(v)' = Known(v)
      BY <1>3, <2>2, KnownCount
    <3> QED BY <1>1, <3>1, <3>2
  <2>3. CASE down /\ kc \notin key_down
    <3>1. shift_down'[v] = shift_down[v] + 1
      BY <2>1, <2>3 DEF Translate, CountAfter, Repeated, TypeOK
    <3>2. Cardinality(Known(v)') = Cardinality(Known(v)) + 1
      BY <1>3, <2>3, KnownCount
    <3> QED BY <1>1, <3>1, <3>2
  <2>4. CASE ~down
    <3>1. shift_down'[v] = IF shift_down[v] > 0 THEN shift_down[v] - 1 ELSE shift_down[v]
      BY <2>1, <2>4 DEF Translate, CountAfter, Repeated, TypeOK
    <3>2. Cardinality(Known(v)') \in {Cardinality(Known(v)) - 1, Cardinality(Known(v))}
      <4>1. CASE kc \in key_down
        BY <1>3, <2>4, <4>1, KnownCount
      <4>2. CASE kc \notin key_down
        BY <1>3, <2>4, <4>2, KnownCount
      <4> QED BY <4>1, <4>2
    <3>3. Cardinality(Known(v)') \in Nat
      <4>1. Known(v)' = Known(v) \ {kc}
        BY <1>3, <2>4, KnownAfter
      <4>2. IsFiniteSet(Known(v) \ {kc})
        BY KnownFinite, FS_RemoveElement
      <4> QED BY <4>1, <4>2, FS_CardinalityType
    <3> QED BY <1>1, <3>1, <3>2, <3>3
  <2> QED BY <2>2, <2>3, <2>4 DEF Repeated
<1> QED BY <1>2, <1>3

\* From exact counts, a translated event leads to exact counts.
LEMMA TranslateExact ==
    ASSUME TypeOK, NEW v \in Mods, shift_down[v] = Cardinality(Known(v)),
           HeldFor(v) \subseteq key_down, key_down \subseteq held,
           NEW kc \in Keys, NEW down \in BOOLEAN, Translate(kc, down),
           Possible(held, kc, down), held' = After(held, kc, down)
    PROVE  HeldFor(v)' \subseteq key_down' /\ shift_down'[v] = Cardinality(Known(v)')
<1>1. HeldFor(v)' \subseteq key_down'
  BY DEF HeldFor, After, Translate, ModKeys, IsModKey
<1>2. shift_down[v] \in Nat /\ IsFiniteSet(Known(v)) /\ Cardinality(Known(v)) \in Nat
  BY KnownFinite DEF TypeOK
<1>3. shift_down'[v] = Cardinality(Known(v)')
  <2>1. CASE kc \notin ModKeys(v)
    <3>1. shift_down'[v] = shift_down[v]
      BY <2>1, ModKeyOf DEF Translate, CountAfter, TypeOK
    <3>2. Known(v)' = Known(v)
      BY <2>1, KnownAfter
    <3> QED BY <3>1, <3>2
  <2>2. CASE kc \in ModKeys(v)
    <3>1. Keysym(kc) \in ModSyms /\ Keysym(kc).value = v
      BY <2>2, NotModKey, ModKeyOf
    <3>2. CASE Repeated(kc, down)
      <4>1. shift_down' = shift_down
        BY <3>2 DEF Translate, CountAfter
      <4>2. Known(v)' = Known(v)
        BY <2>2, <3>2, KnownCount
      <4> QED BY <4>1, <4>2
    <3>3. CASE down /\ kc \notin key_down
      <4>1. shift_down'[v] = shift_down[v] + 1
        BY <3>1, <3>3 DEF Translate, CountAfter, Repeated, TypeOK
      <4>2. Cardinality(Known(v)') = Cardinality(Known(v)) + 1
        BY <2>2, <3>3, KnownCount
      <4> QED BY <4>1, <4>2
    <3>4. CASE ~down
      <4>1. kc \in key_down /\ kc \in Known(v)
        BY <2>2, <3>4 DEF Possible, HeldFor, Known
      <4>2. Cardinality(Known(v)') = Cardinality(Known(v)) - 1
        BY <2>2, <3>4, <4>1, KnownCount
      <4>3. Cardinality(Known(v)) > 0
        BY <1>2, <4>1, FS_EmptySet
      <4>4. shift_down'[v] = shift_down[v] - 1
        BY <1>2, <3>1, <3>4, <4>3 DEF Translate, CountAfter, Repeated, TypeOK
      <4> QED BY <4>2, <4>4
    <3> QED BY <3>2, <3>3, <3>4 DEF Repeated
  <2> QED BY <2>1, <2>2
<1> QED BY <1>1, <1>3

\* A digit to compose is found only in the table of some modifier.
LEMMA AsciiNeedsModifier ==
    ASSUME TypeOK, NEW kc \in Keys, Keysym(kc).type = "ASCII"
    PROVE  shift_state # {}
<1> SUFFICES ASSUME shift_state = {} PROVE FALSE
  OBVIOUS
<1>1. FlipShift({}) = {"shift"}
  BY DEF FlipShift
<1>2. Keymap[{}][kc].type # "ASCII" /\ Keymap[{"shift"}][kc].type # "ASCII"
  BY KeymapAssumption
<1> QED BY <1>1, <1>2 DEF Keysym

\* A translated event leaves no composition open without a modifier to end it.
LEMMA TranslateComposition ==
    ASSUME TypeOK, NEW kc \in Keys, NEW down \in BOOLEAN, Translate(kc, down),
           npadch # -1 => shift_state # {}
    PROVE  npadch' # -1 => shift_state' # {}
<1>1. CASE Keysym(kc).type = "ASCII" /\ down
  <2>1. Keysym(kc) \notin ModSyms
    BY <1>1 DEF ModSyms
  <2> QED BY <1>1, <2>1, AsciiNeedsModifier DEF Translate, StateAfter
<1>2. CASE Keysym(kc) \in ModSyms /\ ~down
  BY <1>2 DEF Translate, NpadAfter, ModSyms
<1>3. CASE Keysym(kc) \in ModSyms /\ down
  <2>1. npadch' = npadch
    BY <1>3 DEF Translate, NpadAfter, ModSyms
  <2>2. CASE Repeated(kc, down)
    BY <2>1, <2>2 DEF Translate, StateAfter
  <2>3. CASE ~Repeated(kc, down)
    <3>1. Keysym(kc).value \in Mods /\ shift_down[Keysym(kc).value] \in Nat
      BY <1>3, ModKeyOf DEF TypeOK
    <3>2. CountAfter(kc, down)[Keysym(kc).value] = shift_down[Keysym(kc).value] + 1
      <4> DEFINE m == Keysym(kc).value
      <4>1. CountAfter(kc, down) = [shift_down EXCEPT ![m] = @ + 1]
        BY <1>3, <2>3 DEF CountAfter
      <4>2. m \in Mods /\ shift_down \in [Mods -> Nat]
        BY <3>1 DEF TypeOK
      <4> HIDE DEF m
      <4>3. CountAfter(kc, down)[m] = shift_down[m] + 1
        BY <4>1, <4>2
      <4> QED BY <4>3 DEF m
    <3>3. shift_state' = shift_state \cup {Keysym(kc).value}
      <4>1. CountAfter(kc, down)[Keysym(kc).value] > 0
        BY <3>1, <3>2
      <4> QED BY <1>3, <2>3, <4>1 DEF Translate, StateAfter
    <3> QED BY <3>3
  <2> QED BY <2>2, <2>3
<1>4. CASE Keysym(kc) \notin ModSyms /\ ~(Keysym(kc).type = "ASCII" /\ down)
  BY <1>4 DEF Translate, NpadAfter, StateAfter
<1> QED BY <1>1, <1>2, <1>3, <1>4

-----------------------------------------------------------------------------
(* The inductive invariant.                                                  *)

\* The inductive invariant holds at the start, before any activation.
LEMMA InitIInv == Init => IInv
<1> SUFFICES ASSUME Init PROVE IInv
  OBVIOUS
<1>1. TypeOK
  BY DEF Init, TypeOK, Nothing
<1>2. CountsBounded
  BY <1>1, KnownFinite DEF Init, CountsBounded
<1> QED BY <1>1, <1>2 DEF Init, IInv, StateFollowsCounts, BelievedHeld,
                            HeldBelieved, CountsExact, CompositionEnds, LocksShown

\* An event that is translated, with the events before it in the same message
\* lost or not.
LEMMA TranslateIInv ==
    ASSUME IInv, NEW kc \in Keys, NEW down \in BOOLEAN, Translate(kc, down),
           mode = "on", UNCHANGED <<mode, fresh>>, held' \subseteq Keys, kept' \subseteq kept,
           \/ /\ Possible(held, kc, down)
              /\ held' = After(held, kc, down)
              /\ kept' = kept \ {kc}
              /\ UNCHANGED seen
           \/ seen' = FALSE
    PROVE  IInv'
<1>1. TypeOK'
  BY TranslateType DEF IInv, TypeOK
<1>2. StateFollowsCounts'
  BY TranslateState DEF IInv
<1>3. CountsBounded'
  BY TranslateBound DEF IInv
<1>4. BelievedHeld'
  BY DEF IInv, BelievedHeld, Translate, After, TypeOK
<1>8. HeldBelieved'
  BY DEF IInv, HeldBelieved, Translate, After
<1>5. CountsExact'
  BY TranslateExact DEF IInv, CountsExact, BelievedHeld, TypeOK
<1>6. CompositionEnds'
  BY TranslateComposition DEF IInv, CompositionEnds
<1>7. LocksShown'
  BY DEF IInv, LocksShown, Translate
<1> QED BY <1>1, <1>2, <1>3, <1>4, <1>5, <1>6, <1>7, <1>8 DEF IInv

\* A step that touches neither the translation nor the keyboard.
LEMMA UnchangedIInv ==
    ASSUME IInv, UNCHANGED <<held, seen, fresh, kept, leds, state, result>>,
           mode' \in {"off", "on", "away"}, mode = "off" => mode' = "off"
    PROVE  IInv'
BY DEF IInv, state, TypeOK, StateFollowsCounts, CountsBounded, BelievedHeld,
       HeldBelieved, CountsExact, CompositionEnds, LocksShown, Known, HeldFor

\* init_keycode_state establishes the invariant whatever keys are held.
LEMMA ActivateIInv == ASSUME IInv, Activate PROVE IInv'
<1>1. TypeOK'
  BY DEF IInv, Activate, TypeOK
<1>2. \A v \in Mods : Known(v)' = {} /\ shift_down'[v] = 0
  BY DEF Activate, Known
<1>3. CountsBounded'
  BY <1>2, FS_EmptySet DEF CountsBounded
<1>4. StateFollowsCounts'
  BY <1>2 DEF Activate, StateFollowsCounts
<1>5. BelievedHeld'
  BY DEF Activate, BelievedHeld
<1>8. HeldBelieved'
  BY DEF Activate, HeldBelieved
<1>6. CountsExact'
  <2> SUFFICES ASSUME fresh', NEW v \in Mods
               PROVE  HeldFor(v)' \subseteq key_down' /\ shift_down'[v] = Cardinality(Known(v)')
    BY DEF CountsExact
  <2>1. HeldFor(v)' = {}
    BY DEF Activate, HeldFor
  <2> QED BY <1>2, <2>1, FS_EmptySet
<1>7. CompositionEnds' /\ LocksShown'
  BY DEF Activate, CompositionEnds, LocksShown
<1> QED BY <1>1, <1>3, <1>4, <1>5, <1>6, <1>7, <1>8 DEF IInv

\* Every step of the keyboard, of FbTerm and of the translation keeps the invariant.
LEMMA NextIInv == IInv /\ [Next]_vars => IInv'
<1> SUFFICES ASSUME IInv, [Next]_vars PROVE IInv'
  OBVIOUS
<1>1. ASSUME NEW kc \in Keys, NEW down \in BOOLEAN, KeyElsewhere(kc, down) PROVE IInv'
  <2>1. held' \subseteq Keys
    BY <1>1 DEF KeyElsewhere, After, IInv, TypeOK
  <2> QED BY <1>1, <2>1 DEF KeyElsewhere, state, IInv, TypeOK, StateFollowsCounts,
             CountsBounded, BelievedHeld, HeldBelieved, CountsExact, CompositionEnds, LocksShown,
             Known
<1>2. ASSUME NEW kc \in Keys, NEW down \in BOOLEAN, SendKey(kc, down) PROVE IInv'
  <2>1. held' \subseteq Keys
    BY <1>2 DEF SendKey, After, IInv, TypeOK
  <2> QED BY <1>2, <2>1, TranslateIInv DEF SendKey
<1>3. ASSUME NEW first \in Keys, NEW kc \in Keys, NEW firstDown \in BOOLEAN,
             NEW down \in BOOLEAN, SendTwoKeys(first, firstDown, kc, down)
      PROVE  IInv'
  <2>1. held' \subseteq Keys
    BY <1>3 DEF SendTwoKeys, After, IInv, TypeOK
  <2> QED BY <1>3, <2>1, TranslateIInv DEF SendTwoKeys
<1>4. CASE LockElsewhere
  BY <1>4 DEF LockElsewhere, host, state, IInv, TypeOK, StateFollowsCounts,
     CountsBounded, BelievedHeld, HeldBelieved, CountsExact, CompositionEnds, LocksShown,
             Known, HeldFor
<1>5. CASE Activate
  BY <1>5, ActivateIInv
<1>6. CASE Deactivate
  BY <1>6, UnchangedIInv DEF Deactivate
<1>7. CASE SwitchAway
  BY <1>7, UnchangedIInv DEF SwitchAway
<1>8. CASE SwitchBack
  BY <1>8, UnchangedIInv DEF SwitchBack
<1>9. CASE UNCHANGED vars
  BY <1>9, UnchangedIInv DEF vars, host, IInv, TypeOK
<1> QED BY <1>1, <1>2, <1>3, <1>4, <1>5, <1>6, <1>7, <1>8, <1>9 DEF Next

\* The inductive invariant holds in every reachable state.
LEMMA SpecIInv == Spec => []IInv
BY InitIInv, NextIInv, PTL DEF Spec

-----------------------------------------------------------------------------
\* The state of the translation keeps its types; no count goes below zero.
THEOREM TypeCorrect == Spec => []TypeOK
<1>1. IInv => TypeOK
  BY DEF IInv
<1> QED BY <1>1, SpecIInv, PTL

\* The bounded counts keep a modifier from sticking.
LEMMA IInvNoStuck == IInv => NoStuckModifier
<1> SUFFICES ASSUME IInv, mode = "on", seen, NEW v \in Mods, v \in shift_state
             PROVE  HeldFor(v) # {}
  BY DEF NoStuckModifier
<1>1. shift_down[v] \in Nat /\ shift_down[v] > 0 /\ shift_down[v] <= Cardinality(Known(v))
  BY DEF IInv, TypeOK, StateFollowsCounts, CountsBounded
<1>2. IsFiniteSet(Known(v)) /\ Cardinality(Known(v)) \in Nat
  BY KnownFinite DEF IInv
<1>3. Known(v) # {}
  BY <1>1, <1>2, FS_EmptySet
<1>4. Known(v) \subseteq HeldFor(v)
  BY DEF IInv, BelievedHeld, Known, HeldFor
<1> QED BY <1>3, <1>4

\* No modifier stays on when its last key is released, whatever was held at the
\* activation and however the keys of one modifier interleave.
THEOREM ModifiersNeverStick == Spec => []NoStuckModifier
BY SpecIInv, IInvNoStuck, PTL

\* Exact beliefs make exact modifiers.
LEMMA IInvExact == IInv => ModifiersExact
<1> SUFFICES ASSUME IInv, mode = "on", seen, fresh, NEW v \in Mods
             PROVE  /\ shift_down[v] = Cardinality(HeldFor(v))
                    /\ v \in shift_state <=> HeldFor(v) # {}
  BY DEF ModifiersExact
<1>1. HeldFor(v) = Known(v)
  BY DEF IInv, BelievedHeld, CountsExact, HeldFor, Known
<1>2. shift_down[v] = Cardinality(HeldFor(v))
  BY <1>1 DEF IInv, CountsExact
<1>3. IsFiniteSet(HeldFor(v)) /\ shift_down[v] \in Nat
  BY <1>1, KnownFinite DEF IInv, TypeOK
<1>4. shift_down[v] = 0 <=> HeldFor(v) = {}
  BY <1>2, <1>3, FS_EmptySet
<1> QED BY <1>2, <1>3, <1>4 DEF IInv, StateFollowsCounts

\* From an activation with no modifier held, the counts are the held keys.
THEOREM ModifiersAreExact == Spec => []ModifiersExact
BY SpecIInv, IInvExact, PTL

\* The table selector and the counts never disagree.
THEOREM SelectorFollowsCounts == Spec => []StateFollowsCounts
<1>1. IInv => StateFollowsCounts
  BY DEF IInv
<1> QED BY <1>1, SpecIInv, PTL

\* A composition in progress always has a modifier whose release ends it.
THEOREM CompositionsEnd == Spec => []CompositionEnds
<1>1. IInv => CompositionEnds
  BY DEF IInv
<1> QED BY <1>1, SpecIInv, PTL

\* The lamps and the letters agree from the activation on.
THEOREM LampsAgree == Spec => []LocksShown
<1>1. IInv => LocksShown
  BY DEF IInv
<1> QED BY <1>1, SpecIInv, PTL

\* A lock changes only at the press of a key that the library believes up.
LEMMA LocksChange ==
    ASSUME NEW kc \in Keys, NEW down \in BOOLEAN, Translate(kc, down),
           lock_state' # lock_state
    PROVE  down /\ kc \notin key_down
<1>1. down /\ ~Repeated(kc, down)
  BY DEF Translate, LocksAfter
<1> QED BY <1>1 DEF Repeated

\* No lock key toggles a second time while it is held, however often it repeats: the
\* library believes down whatever is, once it has had an event of it.
THEOREM LocksChangeOnPress == Spec => LocksOnlyOnPress
<1> DEFINE A == mode = "on" /\ mode' = "on" /\ seen' /\ lock_state' # lock_state =>
                  \E k \in held' : k \notin held \/ k \in kept \ kept'
<1>1. IInv /\ [Next]_vars => [A]_vars
  <2> SUFFICES ASSUME IInv, Next, mode = "on", mode' = "on", seen', lock_state' # lock_state
               PROVE  \E k \in held' : k \notin held \/ k \in kept \ kept'
    OBVIOUS
  <2>1. ASSUME NEW kc \in Keys, NEW down \in BOOLEAN, SendKey(kc, down)
        PROVE  \E k \in held' : k \notin held \/ k \in kept \ kept'
    <3>1. down /\ kc \notin key_down
      BY <2>1, LocksChange DEF SendKey
    <3>2. kc \in held' /\ kc \notin kept'
      BY <2>1, <3>1 DEF SendKey, After
    <3>3. seen
      BY <2>1 DEF SendKey
    <3>4. kc \notin held \/ kc \in kept
      BY <3>1, <3>3 DEF IInv, HeldBelieved
    <3> QED BY <3>2, <3>4
  <2>2. ASSUME NEW kc \in Keys, NEW down \in BOOLEAN, KeyElsewhere(kc, down)
        PROVE  FALSE
    BY <2>2 DEF KeyElsewhere
  <2>3. CASE \E first, kc \in Keys, firstDown, down \in BOOLEAN :
               SendTwoKeys(first, firstDown, kc, down)
    BY <2>3 DEF SendTwoKeys
  <2>4. CASE LockElsewhere \/ Activate \/ Deactivate \/ SwitchAway \/ SwitchBack
    BY <2>4 DEF LockElsewhere, Activate, Deactivate, SwitchAway, SwitchBack, state
  <2> QED BY <2>1, <2>2, <2>3, <2>4 DEF Next
<1> QED BY <1>1, SpecIInv, PTL DEF Spec, LocksOnlyOnPress
=============================================================================
