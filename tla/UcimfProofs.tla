---------------------------- MODULE UcimfProofs ----------------------------
(***************************************************************************)
(* Proofs about Ucimf, for whatever is installed, any number of keys,       *)
(* switches and characters, and libraries that do what their interfaces     *)
(* allow in any order.  What the widgets name (Names) and that the preedit   *)
(* ends on the current composition (Ended) hold between calls, until a       *)
(* fault; what is committed is, until the key ends, what the host has got     *)
(* (Covers) followed by what this key has committed (Drained).  Faults break  *)
(* these, but no character is in two places, except that libchewing keeps     *)
(* what it has delivered (Apart), nor is an index out of range (Ranged).      *)
(***************************************************************************)
EXTENDS Ucimf, FiniteSetTheorems, SequenceTheorems, TLAPS

Text == Seq(1..MaxTyped)

\* Nothing runs without a framework that has been loaded.
Typed ==
    /\ imfs \in Seq(Kinds)
    /\ call # "none" \/ ~dead => current_imf \in DOMAIN imfs
    /\ call = "switch" => imf = "ov"
    /\ typed \in 0..MaxTyped
    /\ received \in Text /\ sent \in Text
    /\ comp \in [Kinds -> Text] /\ commit \in [Kinds -> Text]

-----------------------------------------------------------------------------
\* A library that creates is the last that has opened.
LEMMA OneCreates ==
    ASSUME NEW directory, NEW n \in Int, NEW i, NEW j,
           Creates(directory, i, n), Creates(directory, j, n)
    PROVE  i = j
BY DEF Creates

\* scanImf yields frameworks, if it returns.
LEMMA ScanType ==
    ASSUME NEW directory \in Seq(FrameworkFiles), ~ScanCrashes(directory)
    PROVE  scanImf(directory) \in Seq(Kinds)
<1>1. ASSUME NEW n \in DOMAIN directory
      PROVE  directory[CHOOSE i \in 1..n : Creates(directory, i, n)].kind \in Kinds
  <2> DEFINE c == CHOOSE i \in 1..n : Creates(directory, i, n)
  <2>1. \E i \in 1..n : Creates(directory, i, n)
    BY DEF ScanCrashes
  <2>2. c \in 1..n
    BY <2>1
  <2>3. c \in DOMAIN directory
    BY <2>2
  <2> HIDE DEF c
  <2>4. directory[c] \in FrameworkFiles
    BY <2>3
  <2> QED BY <2>4 DEF c, FrameworkFiles
<1>2. DOMAIN directory = 1..Len(directory) /\ Len(directory) \in Nat
  OBVIOUS
<1>3. scanImf(directory) \in [1..Len(directory) -> Kinds]
  BY <1>1, <1>2, Zenon DEF scanImf
<1> QED BY <1>2, <1>3

\* The front end finds what is installed.
LEMMA InitTyped == Init => Typed
<1> SUFFICES ASSUME Init PROVE Typed
  OBVIOUS
<1>1. installed.frameworks \in Seq(FrameworkFiles)
  BY DirectoriesAssumption DEF Init
<1>2. CASE ScanCrashes(installed.frameworks)
  <2>1. imfs = <<>> /\ dead = TRUE
    BY <1>2, Zenon DEF Init
  <2> QED BY <2>1, NumbersAssumption DEF Init, Typed, Text
<1>3. CASE ~ScanCrashes(installed.frameworks)
  <2>1. imfs = scanImf(installed.frameworks)
    BY <1>3, Zenon DEF Init
  <2>2. imfs \in Seq(Kinds)
    BY <1>1, <1>3, <2>1, ScanType
  <2>3. ~dead => imfs # <<>>
    BY <1>3, Zenon DEF Init
  <2>4. ~dead => current_imf \in DOMAIN imfs
    BY <2>2, <2>3 DEF Init
  <2> QED BY <2>2, <2>4, NumbersAssumption DEF Init, Typed, Text
<1> QED BY <1>2, <1>3

\* F9 goes round and stays among the frameworks.
LEMMA NextImfInRange ==
    ASSUME NEW n \in Nat, NEW c \in 1..n
    PROVE  (c % n) + 1 \in 1..n
OBVIOUS

\* The present framework is one.
LEMMA ImfType == Typed /\ (call # "none" \/ ~dead) => imf \in Kinds
BY DEF Typed, imf

\* Texts are appended to, moved and dropped as a whole.
LEMMA TextType ==
    /\ <<>> \in Text
    /\ \A s \in Text, t \in Text : s \o t \in Text
    /\ \A s \in Text, n \in 1..MaxTyped : Append(s, n) \in Text
BY DEF Text

\* A text cut in two.
LEMMA CutType ==
    ASSUME NEW s \in Text, NEW n \in 0..Len(s)
    PROVE  /\ SubSeq(s, 1, n) \in Text /\ SubSeq(s, n + 1, Len(s)) \in Text
           /\ Len(SubSeq(s, 1, n)) = n /\ Len(SubSeq(s, n + 1, Len(s))) = Len(s) - n
           /\ \A i \in 1..n : SubSeq(s, 1, n)[i] = s[i]
           /\ \A i \in 1..(Len(s) - n) : SubSeq(s, n + 1, Len(s))[i] = s[n + i]
<1>1. Len(s) \in Nat /\ n \in Nat /\ n <= Len(s)
  BY DEF Text
<1>2. \A i \in 1..Len(s) : s[i] \in 1..MaxTyped
  BY ElementOfSeq DEF Text
<1>3. SubSeq(s, 1, n) = [i \in 1..n |-> s[i]]
  <2>1. SubSeq(s, 1, n) = [i \in 1..((n - 1) + 1) |-> s[(1 + i) - 1]]
    OBVIOUS
  <2> QED BY <1>1, <2>1
<1>4. SubSeq(s, n + 1, Len(s)) = [i \in 1..(Len(s) - n) |-> s[n + i]]
  OBVIOUS
<1>5. /\ \A i \in 1..n : s[i] \in 1..MaxTyped
      /\ \A i \in 1..(Len(s) - n) : s[n + i] \in 1..MaxTyped
  BY <1>1, <1>2
<1>6. n \in Nat /\ Len(s) - n \in Nat
  BY <1>1
<1> QED BY <1>3, <1>4, <1>5, <1>6 DEF Text

\* Chewing's step leaves texts.
LEMMA ChewingTyped ==
    ASSUME Typed, NEW text \in Text, ChewingActs(text), typed' \in 0..MaxTyped, UNCHANGED loaded
    PROVE  Typed'
<1>1. PICK n \in 0..Len(text) :
        /\ commit' = [commit EXCEPT !["chewing"] = SubSeq(text, 1, n)]
        /\ comp' = [comp EXCEPT !["chewing"] = SubSeq(text, n + 1, Len(text))]
        /\ sent' = sent \o SubSeq(text, 1, n)
  BY DEF ChewingActs
<1>2. SubSeq(text, 1, n) \in Text /\ SubSeq(text, n + 1, Len(text)) \in Text
  BY CutType
<1>3. sent' \in Text /\ comp' \in [Kinds -> Text] /\ commit' \in [Kinds -> Text]
  BY <1>1, <1>2, TextType DEF Typed
<1>4. UNCHANGED <<imfs, current_imf, call, dead, received>>
  BY DEF ChewingActs, loaded, front, trap
<1> QED BY <1>3, <1>4 DEF Typed, imf

\* Every step leaves the texts texts, and a framework with the key.
LEMMA NextTyped == Typed /\ [Next]_vars => Typed'
<1> SUFFICES ASSUME Typed, [Next]_vars PROVE Typed'
  OBVIOUS
<1> USE DEF loaded, front, ovim, texts, delivery, trap
<1>1. CASE UNCHANGED vars
  BY <1>1 DEF Typed, vars, imf
<1> SUFFICES ASSUME Next, UNCHANGED loaded PROVE Typed'
  BY <1>1 DEF Next
<1>2. ASSUME UNCHANGED <<current_imf, dead, comp, commit, received, sent, typed>>,
             call' = "none" \/ (call' # "switch" /\ ~dead) \/ UNCHANGED call
      PROVE  Typed'
  BY <1>2 DEF Typed, imf
<1>3. CASE Toggle
  BY <1>2, <1>3 DEF Toggle
<1>4. CASE NextImf
  <2>1. current_imf \in 1..Len(imfs) /\ Len(imfs) \in Nat
    BY <1>4 DEF NextImf, Idle, Typed
  <2>2. current_imf' \in DOMAIN imfs
    BY <1>4, <2>1, NextImfInRange DEF NextImf, Typed
  <2> QED BY <1>4, <2>2 DEF NextImf, Idle, Typed
<1>5. ASSUME NEW module, SwitchTo(module) PROVE Typed'
  BY <1>5 DEF SwitchTo, Idle, Typed, imf
<1>6. CASE \E edit \in BOOLEAN : Key(edit)
  BY <1>2, <1>6 DEF Key, Idle
<1>7. CASE AppendText
  <2>1. typed' \in 1..MaxTyped
    BY <1>7, NumbersAssumption DEF AppendText, Typed
  <2>2. Append(comp["ov"], typed') \in Text
    BY <2>1, TextType DEF Typed, Kinds
  <2>3. typed' \in 0..MaxTyped
    BY <2>1
  <2>4. comp' \in [Kinds -> Text]
    BY <1>7, <2>2 DEF AppendText, Typed
  <2> QED BY <1>7, <2>3, <2>4 DEF AppendText, Typed, imf
<1>8. CASE Clear
  BY <1>8, TextType DEF Clear, Typed, imf
<1>9. CASE SendBuffer
  <2>1. comp["ov"] \in Text
    BY DEF Typed, Kinds
  <2>2. sent' \in Text
    BY <1>9, <2>1, TextType DEF SendBuffer, Typed
  <2> QED BY <1>9, <2>1, <2>2, TextType DEF SendBuffer, Typed, imf
<1>10. CASE ListCandidates
  BY <1>2, <1>10 DEF ListCandidates
<1>11. CASE ChewingTypes
  <2>1. typed' \in 1..MaxTyped
    BY <1>11, NumbersAssumption DEF ChewingTypes, Typed
  <2>2. Append(comp["chewing"], typed') \in Text
    BY <2>1, TextType DEF Typed, Kinds
  <2> QED BY <1>11, <2>1, <2>2, TextType, ChewingTyped DEF ChewingTypes
<1>12. CASE ChewingHandles
  <2>1. comp["chewing"] \in Text /\ typed' \in 0..MaxTyped
    BY <1>12 DEF Typed, Kinds, ChewingHandles
  <2> QED BY <1>12, <2>1, ChewingTyped DEF ChewingHandles
<1>13. CASE ChewingEscapes
  <2>1. typed' \in 0..MaxTyped
    BY <1>13 DEF Typed, ChewingEscapes
  <2> QED BY <1>13, <2>1, TextType, ChewingTyped DEF ChewingEscapes
<1>14. CASE SunpinyinTypes
  <2>1. typed' \in 1..MaxTyped
    BY <1>14, NumbersAssumption DEF SunpinyinTypes, Typed
  <2>2. Append(comp["sunpinyin"], typed') \in Text
    BY <2>1, TextType DEF Typed, Kinds
  <2> QED BY <1>14, <2>1, <2>2 DEF SunpinyinTypes, SunpinyinUpdates, Typed, imf
<1>15. CASE SunpinyinCommits
  <2>1. comp["sunpinyin"] \in Text
    BY DEF Typed, Kinds
  <2>2. sent' \in Text
    BY <1>15, <2>1, TextType DEF SunpinyinCommits, Typed
  <2> QED BY <1>15, <2>1, <2>2, TextType DEF SunpinyinCommits, SunpinyinUpdates, Typed, imf
<1>16. CASE SwitchEnds
  BY <1>16, TextType DEF SwitchEnds, Typed, imf
<1>17. CASE KeyEnds
  <2>1. commit[imf] \in Text
    BY <1>17, ImfType DEF KeyEnds, Typed
  <2>2. received' \in Text
    BY <1>17, <2>1, TextType DEF KeyEnds, Typed
  <2> QED BY <1>17, <2>2, TextType DEF KeyEnds, Typed, imf
<1>18. CASE Throw \/ Signal
  BY <1>18 DEF Throw, Signal, Faults, Typed, imf
<1> QED BY <1>3, <1>4, <1>5, <1>6, <1>7, <1>8, <1>9, <1>10, <1>11, <1>12, <1>13, <1>14,
           <1>15, <1>16, <1>17, <1>18
        DEF Next, FrontNext, LibraryNext, SwitchIm, SwitchImReverse

\* The variables of the texts keep their types.
LEMMA TypedInv == Spec => []Typed
BY InitTyped, NextTyped, PTL DEF Spec

-----------------------------------------------------------------------------
(* The indices and the widgets' types.                                       *)

\* OpenVanilla's input methods are finitely many.
LEMMA ModulesFinite ==
    ASSUME NEW directory \in Seq(ModuleFiles)
    PROVE  Cardinality(mod_vector(directory)) \in Nat
<1> DEFINE Pairs == {{i} \X DOMAIN directory[i].modules : i \in DOMAIN directory}
<1>1. DOMAIN directory = 1..Len(directory) /\ Len(directory) \in Nat
  OBVIOUS
<1>2. IsFiniteSet(DOMAIN directory)
  BY <1>1, FS_Interval
<1>3. IsFiniteSet(Pairs)
  <2> DEFINE f == [i \in DOMAIN directory |-> {i} \X DOMAIN directory[i].modules]
  <2>1. f \in Surjection(DOMAIN directory, Pairs)
    BY DEF Surjection
  <2> HIDE DEF f, Pairs
  <2> QED BY <1>2, <2>1, FS_Surjection
<1>4. ASSUME NEW i \in DOMAIN directory PROVE IsFiniteSet({i} \X DOMAIN directory[i].modules)
  <2>1. directory[i] \in ModuleFiles
    BY <1>1
  <2>4. directory[i].modules \in Seq([name : STRING, type : STRING])
    BY <2>1 DEF ModuleFiles
  <2>2. DOMAIN directory[i].modules = 1..Len(directory[i].modules) /\ Len(directory[i].modules) \in Nat
    BY <2>4
  <2>3. IsFiniteSet(DOMAIN directory[i].modules)
    BY <2>2, FS_Interval
  <2>5. IsFiniteSet({i})
    BY FS_Singleton
  <2> QED BY <2>3, <2>5, FS_Product
<1>5. IsFiniteSet(UNION Pairs)
  BY <1>3, <1>4, FS_UNION
<1>6. mod_vector(directory) \subseteq UNION Pairs
  BY DEF mod_vector
<1> QED BY <1>5, <1>6, FS_Subset, FS_CardinalityType

\* Indices of mod_vector, also when it is empty.
Modules == 0..(IF Ims = 0 THEN 0 ELSE Ims - 1)

Ranged ==
    /\ focus \in BOOLEAN /\ acted \in BOOLEAN /\ blocked \in BOOLEAN /\ dead \in BOOLEAN
    /\ Ims \in Nat
    /\ stts \in (Kinds \union {"none"}) \X Nat /\ lkc \in (Kinds \union {"none"}) \X Nat
    /\ prdt \in Seq(0..MaxTyped)
    /\ current_module \in Modules /\ current_im_name \in Modules
    /\ cxt \in {"none", "live", "deleted"}
    /\ call \in {"none", "key", "switch"}
    /\ faults \in 0..MaxFaults

\* Switching goes round both ways and stays among the input methods.
LEMMA ModuleInRange ==
    ASSUME Ranged, Ims > 0
    PROVE  NextModule(current_module) \in Modules /\ PreviousModule(current_module) \in Modules
BY DEF Ranged, Modules, NextModule, PreviousModule

LEMMA InitRanged == Init => Ranged
<1> SUFFICES ASSUME Init PROVE Ranged
  OBVIOUS
<1>1. installed.modules \in Seq(ModuleFiles)
  BY DirectoriesAssumption DEF Init
<1>2. Ims \in Nat
  BY <1>1, ModulesFinite DEF Init
<1>3. dead \in BOOLEAN
  <2>1. dead = TRUE \/ dead = (imfs = <<>>)
    BY DEF Init
  <2> QED BY <2>1
<1>4. <<>> \in Seq(0..MaxTyped)
  OBVIOUS
<1>5. 0 \in 0..MaxFaults
  BY NumbersAssumption
<1>6. 0 \in Modules
  BY <1>2 DEF Modules
<1>7. stts \in {<<"ov", 0>>, Nobody} /\ cxt \in {"none", "live"}
  BY DEF Init
<1>8. \A e \in {"ov", "none"} : <<e, 0>> \in (Kinds \union {"none"}) \X Nat
  BY DEF Kinds
<1>9. stts \in (Kinds \union {"none"}) \X Nat /\ Nobody \in (Kinds \union {"none"}) \X Nat
  BY <1>7, <1>8 DEF Nobody
<1>10. /\ focus = FALSE /\ acted = FALSE /\ blocked = FALSE /\ lkc = Nobody /\ prdt = <<>>
       /\ current_module = 0 /\ current_im_name = 0 /\ call = "none" /\ faults = 0
  BY DEF Init
<1> QED BY <1>2, <1>3, <1>4, <1>5, <1>6, <1>7, <1>9, <1>10 DEF Ranged

\* What a widget may name, and show.
LEMMA WidgetTypes ==
    ASSUME Typed, Ranged, call # "none" \/ ~dead
    PROVE  /\ imf \in Kinds
           /\ Owner \in (Kinds \union {"none"}) \X Nat /\ Nobody \in (Kinds \union {"none"}) \X Nat
           /\ \A e \in Kinds : /\ Named(e) \in (Kinds \union {"none"}) \X Nat
                              /\ NotesOr(Nobody, e) \in (Kinds \union {"none"}) \X Nat
                              /\ NotesOr(lkc, e) \in (Kinds \union {"none"}) \X Nat
<1>1. imf \in Kinds
  BY ImfType
<1>2. current_module \in Nat /\ current_im_name \in Nat
  BY DEF Ranged, Modules
<1> QED BY <1>1, <1>2 DEF Owner, Nobody, Named, NotesOr, Ranged, Kinds

LEMMA TextShown ==
    /\ \A s \in Text : s \in Seq(0..MaxTyped) /\ Shown(s) \subseteq Seq(0..MaxTyped)
    /\ \A s \in Seq(0..MaxTyped), n \in 1..MaxTyped : Append(s, n) \in Seq(0..MaxTyped)
<1>1. ASSUME NEW s \in Text PROVE s \in Seq(0..MaxTyped) /\ Shown(s) \subseteq Seq(0..MaxTyped)
  <2>1. Len(s) \in Nat /\ DOMAIN s = 1..Len(s)
    BY DEF Text
  <2>2. s \in Seq(0..MaxTyped)
    <3>1. 1..MaxTyped \subseteq 0..MaxTyped
      BY NumbersAssumption
    <3> QED BY <3>1, SeqMonotonic DEF Text
  <2>3. 0 \in 0..MaxTyped
    BY NumbersAssumption
  <2>4. [i \in DOMAIN s |-> 0] \in Seq(0..MaxTyped)
    BY <2>1, <2>3
  <2> QED BY <2>2, <2>4 DEF Shown, Overwritten
<1> QED BY <1>1

\* Every step leaves the indices in range and the widgets with texts and names.
LEMMA NextRanged == Typed /\ Ranged /\ [Next]_vars => Ranged'
<1> SUFFICES ASSUME Typed, Ranged, [Next]_vars PROVE Ranged'
  OBVIOUS
<1> USE DEF loaded, front, ovim, texts, delivery, trap
<1>1. CASE UNCHANGED vars
  BY <1>1 DEF Ranged, Modules, vars
<1> SUFFICES ASSUME Next, UNCHANGED loaded PROVE Ranged'
  BY <1>1 DEF Next
<1>20. Modules' = Modules
  BY DEF Modules
<1>2. ASSUME UNCHANGED <<blocked, dead, faults, prdt, lkc>>,
             UNCHANGED <<focus, stts, ovim>>,
             acted' \in BOOLEAN, call' \in {"none", "key", "switch"}
      PROVE  Ranged'
  BY <1>2, <1>20 DEF Ranged
<1>3. CASE Toggle
  <2>1. stts' \in (Kinds \union {"none"}) \X Nat /\ lkc' \in (Kinds \union {"none"}) \X Nat
    BY <1>3, WidgetTypes DEF Toggle, Idle
  <2> QED BY <1>3, <1>20, <2>1 DEF Toggle, Ranged
<1>4. CASE NextImf
  <2>1. imfs[current_imf'] \in Kinds
    <3>1. current_imf \in 1..Len(imfs) /\ Len(imfs) \in Nat
      BY <1>4 DEF NextImf, Idle, Typed
    <3>2. current_imf' \in 1..Len(imfs)
      BY <1>4, <3>1, NextImfInRange DEF NextImf
    <3> QED BY <3>2 DEF Typed
  <2>2. stts' \in (Kinds \union {"none"}) \X Nat /\ lkc' \in (Kinds \union {"none"}) \X Nat
    BY <1>4, <2>1, WidgetTypes DEF NextImf, Idle
  <2>3. prdt' \in Seq(0..MaxTyped)
    BY <1>4 DEF NextImf
  <2> QED BY <1>4, <1>20, <2>2, <2>3 DEF NextImf, Ranged
<1>5. ASSUME NEW module \in Modules, SwitchTo(module) PROVE Ranged'
  BY <1>5, <1>20 DEF SwitchTo, Ranged
<1>6. CASE SwitchIm \/ SwitchImReverse
  <2>1. Ims > 0
    BY <1>6 DEF SwitchIm, SwitchImReverse, SwitchTo
  <2> QED BY <1>5, <1>6, <2>1, ModuleInRange DEF SwitchIm, SwitchImReverse
<1>7. CASE \E edit \in BOOLEAN : Key(edit)
  BY <1>2, <1>7 DEF Key
<1>8. ASSUME prdt' \in Seq(0..MaxTyped), lkc' \in {lkc, Owner, Nobody}, call # "none",
             UNCHANGED <<blocked, dead, faults, focus, stts, ovim>>,
             acted' \in BOOLEAN, call' \in {"none", "key", "switch"}
      PROVE  Ranged'
  <2>1. lkc' \in (Kinds \union {"none"}) \X Nat
    BY <1>8, WidgetTypes DEF Ranged
  <2> QED BY <1>8, <1>20, <2>1 DEF Ranged
<1>21. <<>> \in Seq(0..MaxTyped) /\ prdt \in Seq(0..MaxTyped) /\ acted \in BOOLEAN
       /\ call \in {"none", "key", "switch"}
  BY DEF Ranged
<1>9. CASE AppendText
  <2>1. typed' \in 1..MaxTyped
    BY <1>9, NumbersAssumption DEF AppendText, Typed
  <2>2. prdt' \in Seq(0..MaxTyped)
    BY <1>9, <1>21, <2>1, TextShown DEF AppendText
  <2> QED BY <1>8, <1>9, <1>21, <2>2 DEF AppendText, InOv
<1>10. CASE Clear
  BY <1>8, <1>10, <1>21 DEF Clear, InOv
<1>11. CASE SendBuffer
  BY <1>8, <1>11, <1>21 DEF SendBuffer, InOv
<1>12. CASE ListCandidates
  BY <1>8, <1>12, <1>21 DEF ListCandidates, InOv
<1>13. CASE ChewingTypes \/ ChewingHandles \/ ChewingEscapes
  BY <1>8, <1>13, <1>21 DEF ChewingTypes, ChewingHandles, ChewingEscapes, ChewingActs
<1>14. comp["sunpinyin"] \in Text /\ comp["chewing"] \in Text
  BY DEF Typed, Kinds
<1>15. CASE SunpinyinTypes
  <2>1. typed' \in 1..MaxTyped
    BY <1>15, NumbersAssumption DEF SunpinyinTypes, Typed
  <2>2. prdt' \in Seq(0..MaxTyped)
    BY <1>14, <1>15, <2>1, TextType, TextShown DEF SunpinyinTypes, SunpinyinUpdates
  <2> QED BY <1>8, <1>15, <1>21, <2>2 DEF SunpinyinTypes, SunpinyinUpdates
<1>16. CASE SunpinyinCommits
  BY <1>8, <1>16, <1>21 DEF SunpinyinCommits, SunpinyinUpdates
<1>17. CASE SwitchEnds
  <2>1. current_module \in Nat
    BY DEF Ranged, Modules
  <2>2. stts' \in (Kinds \union {"none"}) \X Nat /\ lkc' \in (Kinds \union {"none"}) \X Nat
    BY <1>17, <2>1, WidgetTypes DEF SwitchEnds, Kinds
  <2> QED BY <1>17, <1>20, <1>21, <2>2 DEF SwitchEnds, Ranged
<1>18. CASE KeyEnds
  <2>1. prdt' \in Seq(0..MaxTyped) /\ lkc' \in {lkc, Owner, Nobody}
    BY <1>14, <1>18, <1>21, TextShown DEF KeyEnds
  <2> QED BY <1>8, <1>18, <1>21, <2>1 DEF KeyEnds
<1>19. CASE Throw \/ Signal
  <2>1. faults' \in 0..MaxFaults
    BY <1>19, NumbersAssumption DEF Throw, Signal, Faults, Ranged
  <2> QED BY <1>19, <1>20, <2>1 DEF Throw, Signal, Faults, Ranged
<1> QED BY <1>3, <1>4, <1>6, <1>7, <1>9, <1>10, <1>11, <1>12, <1>13, <1>15, <1>16, <1>17, <1>18, <1>19
        DEF Next, FrontNext, LibraryNext

\* F9, F10 and F11 never leave imfs or mod_vector, and every variable keeps its type.
THEOREM TypeCorrect == Spec => []TypeOK
<1>1. Spec => []Ranged
  BY InitRanged, NextRanged, TypedInv, PTL DEF Spec
<1>2. Typed /\ Ranged => TypeOK
  <2> SUFFICES ASSUME Typed, Ranged PROVE TypeOK
    OBVIOUS
  <2>1. current_imf \in 1..Len(imfs) \/ dead
    BY DEF Typed
  <2>2. /\ {focus, acted, blocked, dead} \subseteq BOOLEAN
        /\ {current_module, current_im_name} \subseteq 0..(IF Ims = 0 THEN 0 ELSE Ims - 1)
    BY DEF Ranged, Modules
  <2>3. {stts, lkc} \subseteq (Kinds \union {"none"}) \X Nat
    BY DEF Ranged
  <2>4. {sent, received} \subseteq Seq(1..MaxTyped)
    BY DEF Typed, Text
  <2> QED BY <2>1, <2>2, <2>3, <2>4 DEF Typed, Ranged, Text, TypeOK
<1> QED BY <1>1, <1>2, TypedInv, PTL

-----------------------------------------------------------------------------
(* What is loaded.                                                           *)

\* imfs is what is installed and loads, and each of it.
LEMMA ScanComplete ==
    ASSUME NEW directory \in Seq(FrameworkFiles), ~ScanCrashes(directory)
    PROVE  ToSet(scanImf(directory)) = {file.kind : file \in {f \in ToSet(directory) : IsFramework(f)}}
<1> DEFINE Of(n) == CHOOSE i \in 1..n : Creates(directory, i, n)
<1>1. ASSUME NEW n \in DOMAIN directory
      PROVE  Of(n) \in DOMAIN directory /\ IsFramework(directory[Of(n)])
  <2>1. PICK i \in 1..n : Creates(directory, i, n) /\ directory[i].createImf
    BY DEF ScanCrashes
  <2>2. Of(n) \in 1..n /\ Creates(directory, Of(n), n)
    BY <2>1
  <2> HIDE DEF Of
  <2>3. Of(n) = i
    BY <2>1, <2>2, OneCreates
  <2> QED BY <2>1, <2>3 DEF Creates, IsFramework
<1>2. ASSUME NEW n \in DOMAIN directory, IsFramework(directory[n])
      PROVE  Of(n) = n
  <2>1. Creates(directory, n, n)
    BY <1>2 DEF Creates, IsFramework
  <2>2. Creates(directory, Of(n), n)
    BY <2>1
  <2> HIDE DEF Of
  <2> QED BY <2>1, <2>2, OneCreates
<1>3. DOMAIN scanImf(directory) = DOMAIN directory
      /\ \A n \in DOMAIN directory : scanImf(directory)[n] = directory[Of(n)].kind
  BY DEF scanImf
<1> HIDE DEF Of
<1>4. ToSet(scanImf(directory)) = {directory[Of(n)].kind : n \in DOMAIN directory}
  BY <1>3 DEF ToSet
<1> QED BY <1>1, <1>2, <1>4 DEF ToSet

\* What is loaded does not change, and the dead do not live again.
LEMMA LoadedSteps ==
    ASSUME [Next]_vars
    PROVE  UNCHANGED loaded /\ ((dead => call = "none") => (dead => dead') /\ (dead' => call' = "none"))
<1>1. CASE UNCHANGED vars
  BY <1>1 DEF vars, trap
<1>2. CASE Next
  <2>1. CASE Throw \/ Signal
    BY <1>2, <2>1 DEF Next, Throw, Signal, Faults
  <2>2. CASE FrontNext
    BY <1>2, <2>2 DEF Next, FrontNext, Toggle, NextImf, SwitchIm, SwitchImReverse, SwitchTo, Key,
                      Idle, trap
  <2>3. CASE LibraryNext
    <3>1. call # "none" /\ UNCHANGED dead
      BY <2>3 DEF LibraryNext, AppendText, Clear, SendBuffer, ListCandidates, InOv, ChewingTypes,
                  ChewingHandles, ChewingEscapes, ChewingActs, SunpinyinTypes, SunpinyinCommits,
                  SunpinyinUpdates, SwitchEnds, KeyEnds, trap
    <3> QED BY <1>2, <3>1 DEF Next
  <2> QED BY <1>2, <2>1, <2>2, <2>3 DEF Next
<1> QED BY <1>1, <1>2

\* What F9 goes through is what is installed and loads.
THEOREM AllIsLoaded == Spec => []Loaded
<1> DEFINE Inv == Loaded /\ (dead => call = "none")
<1>1. Init => Inv
  <2> SUFFICES ASSUME Init PROVE Inv
    OBVIOUS
  <2>1. installed.frameworks \in Seq(FrameworkFiles)
    BY DirectoriesAssumption DEF Init
  <2>2. CASE ScanCrashes(installed.frameworks)
    <3>1. dead
      BY <2>2, Zenon DEF Init
    <3> QED BY <3>1 DEF Init, Loaded
  <2>3. CASE ~ScanCrashes(installed.frameworks)
    <3>1. imfs = scanImf(installed.frameworks)
      BY <2>3, Zenon DEF Init
    <3> QED BY <2>1, <2>3, <3>1, ScanComplete DEF Init, Loaded
  <2> QED BY <2>2, <2>3
<1>2. Inv /\ [Next]_vars => Inv'
  BY LoadedSteps DEF Loaded, loaded
<1> QED BY <1>1, <1>2, PTL DEF Spec

-----------------------------------------------------------------------------
(* What the widgets name.                                                    *)

\* Unless an input method is being switched, the status bar and the candidates
\* are of what gets the next key.
Names ==
    /\ faults \in Nat
    /\ faults = 0 /\ call # "switch" =>
        /\ current_im_name = current_module
        /\ focus => stts = Owner
        /\ lkc \in {Owner, Nobody}

\* Every step that changes what gets the next key names it.
LEMMA NextNames == Typed /\ Names /\ [Next]_vars => Names'
<1> SUFFICES ASSUME Typed, Names, [Next]_vars PROVE Names'
  OBVIOUS
<1> USE DEF Names, Owner, imf, front, ovim, trap, loaded
<1>1. ASSUME UNCHANGED <<imfs, front, current_module, current_im_name, faults>>,
             lkc' \in {lkc, Owner, Nobody},
             call' = call \/ call # "switch"
      PROVE  Names'
  BY <1>1
<1>2. CASE UNCHANGED vars
  BY <1>1, <1>2 DEF vars
<1> SUFFICES ASSUME Next, UNCHANGED loaded PROVE Names'
  BY <1>2 DEF Next
<1>3. CASE Toggle
  BY <1>3 DEF Toggle, Idle, Named, NotesOr
<1>4. CASE NextImf
  BY <1>4 DEF NextImf, Idle, Named, NotesOr
<1>5. ASSUME NEW module, SwitchTo(module) PROVE Names'
  BY <1>5 DEF SwitchTo
<1>6. CASE \E edit \in BOOLEAN : Key(edit)
  BY <1>1, <1>6 DEF Key, Idle
<1>7. CASE AppendText
  BY <1>1, <1>7 DEF AppendText
<1>8. CASE Clear
  BY <1>1, <1>8 DEF Clear
<1>9. CASE SendBuffer
  BY <1>1, <1>9 DEF SendBuffer
<1>10. CASE ListCandidates
  BY <1>1, <1>10 DEF ListCandidates
<1>11. CASE ChewingTypes \/ ChewingHandles \/ ChewingEscapes
  BY <1>1, <1>11 DEF ChewingTypes, ChewingHandles, ChewingEscapes, ChewingActs
<1>12. CASE SunpinyinTypes \/ SunpinyinCommits
  BY <1>1, <1>12 DEF SunpinyinTypes, SunpinyinCommits, SunpinyinUpdates
<1>13. CASE SwitchEnds
  BY <1>13 DEF SwitchEnds, Typed
<1>14. CASE KeyEnds
  BY <1>1, <1>14 DEF KeyEnds
<1>15. CASE Throw \/ Signal
  BY <1>15 DEF Throw, Signal, Faults
<1> QED BY <1>3, <1>4, <1>5, <1>6, <1>7, <1>8, <1>9, <1>10, <1>11, <1>12, <1>13, <1>14, <1>15
        DEF Next, FrontNext, LibraryNext, SwitchIm, SwitchImReverse

\* The widgets name what gets the next key.
LEMMA NamesInv == Spec => []Names
<1>1. Init => Names
  BY DEF Init, Names
<1> QED BY <1>1, NextNames, TypedInv, PTL DEF Spec

\* The status bar names the framework and the input method of the next key.
THEOREM StatusCurrent == Spec => []StatusIsCurrent
<1>1. Names => StatusIsCurrent
  BY DEF Names, StatusIsCurrent, Untroubled, Idle
<1> QED BY <1>1, NamesInv, PTL

\* The candidates on display are those the next digit picks from.
THEOREM CandidatesCurrent == Spec => []CandidatesAreCurrent
<1>1. Names => CandidatesAreCurrent
  BY DEF Names, CandidatesAreCurrent, Untroubled, Idle
<1> QED BY <1>1, NamesInv, PTL

-----------------------------------------------------------------------------
(* What the host receives.                                                   *)

\* The elements of a sequence, as the actions build it.
LEMMA Elements ==
    /\ ToSet(<<>>) = {}
    /\ \A s \in Text, n \in Nat : ToSet(Append(s, n)) = ToSet(s) \union {n}
    /\ \A s, t \in Text : ToSet(s \o t) = ToSet(s) \union ToSet(t)
<1>1. ToSet(<<>>) = {}
  BY DEF ToSet
<1>2. ASSUME NEW s \in Text, NEW n \in Nat
      PROVE  ToSet(Append(s, n)) = ToSet(s) \union {n}
  <2>1. DOMAIN s = 1..Len(s) /\ Len(s) \in Nat /\ DOMAIN Append(s, n) = 1..(Len(s) + 1)
    BY DEF Text
  <2>2. Append(s, n)[Len(s) + 1] = n /\ \A i \in 1..Len(s) : Append(s, n)[i] = s[i]
    BY DEF Text
  <2>3. 1..(Len(s) + 1) = 1..Len(s) \union {Len(s) + 1}
    BY <2>1
  <2> QED BY <2>1, <2>2, <2>3, Zenon DEF ToSet
<1>3. ASSUME NEW s \in Text, NEW t \in Text
      PROVE  ToSet(s \o t) = ToSet(s) \union ToSet(t)
  <2>1. Len(s \o t) = Len(s) + Len(t) /\ Len(s) \in Nat /\ Len(t) \in Nat
    BY DEF Text
  <2>2. \A i \in 1..Len(s) : (s \o t)[i] = s[i]
    BY DEF Text
  <2>3. \A i \in 1..Len(t) : (s \o t)[Len(s) + i] = t[i] /\ Len(s) + i \in 1..Len(s \o t)
    BY DEF Text
  <2>4. \A i \in 1..Len(s \o t) : i \in 1..Len(s) \/ (i - Len(s) \in 1..Len(t) /\ i = Len(s) + (i - Len(s)))
    BY <2>1
  <2>5. DOMAIN s = 1..Len(s) /\ DOMAIN t = 1..Len(t) /\ DOMAIN (s \o t) = 1..Len(s \o t)
    BY DEF Text
  <2>6. 1..Len(s) \subseteq 1..Len(s \o t)
    BY <2>1
  <2>7. ToSet(s) \subseteq ToSet(s \o t)
    BY <2>2, <2>5, <2>6 DEF ToSet
  <2>8. ToSet(t) \subseteq ToSet(s \o t)
    BY <2>3, <2>5 DEF ToSet
  <2>9. ToSet(s \o t) \subseteq ToSet(s) \union ToSet(t)
    BY <2>2, <2>3, <2>4, <2>5 DEF ToSet
  <2> QED BY <2>7, <2>8, <2>9
<1> QED BY <1>1, <1>2, <1>3

\* What the host has got, s, is what has been committed, t: all of it, and what was
\* committed first has come first.
Covers(s, t) ==
    /\ ToSet(s) = ToSet(t)
    /\ \A n \in 0..Len(s) : \E m \in 0..Len(t) :
         ToSet(SubSeq(s, 1, n)) = ToSet(SubSeq(t, 1, m))

\* The beginnings of two texts put together.
LEMMA Beginnings ==
    ASSUME NEW s \in Text, NEW t \in Text
    PROVE  /\ Len(s \o t) = Len(s) + Len(t)
           /\ \A n \in 0..Len(s) : SubSeq(s \o t, 1, n) = SubSeq(s, 1, n)
           /\ \A n \in 0..Len(t) : SubSeq(s \o t, 1, Len(s) + n) = s \o SubSeq(t, 1, n)
           /\ SubSeq(s, 1, Len(s)) = s
BY DEF Text

\* Delivered text covers what has been committed with it; text that has been
\* delivered before changes nothing.
LEMMA CoversGrows ==
    ASSUME NEW s \in Text, NEW t \in Text, NEW u \in Text, Covers(s, t)
    PROVE  /\ Covers(s \o u, t \o u)
           /\ ToSet(u) \subseteq ToSet(s) => Covers(s \o u, t)
<1>1. /\ Len(s) \in Nat /\ Len(t) \in Nat /\ Len(u) \in Nat
      /\ Len(s \o u) = Len(s) + Len(u) /\ Len(t \o u) = Len(t) + Len(u)
  BY DEF Text
<1>2. /\ ToSet(s \o u) = ToSet(s) \union ToSet(u) /\ ToSet(t \o u) = ToSet(t) \union ToSet(u)
      /\ ToSet(s) = ToSet(t)
  BY Elements DEF Covers
<1>3. ASSUME NEW n \in 0..Len(s)
      PROVE  \E m \in 0..Len(t) : /\ ToSet(SubSeq(s \o u, 1, n)) = ToSet(SubSeq(t, 1, m))
                                  /\ ToSet(SubSeq(s \o u, 1, n)) = ToSet(SubSeq(t \o u, 1, m))
  <2>1. PICK m \in 0..Len(t) : ToSet(SubSeq(s, 1, n)) = ToSet(SubSeq(t, 1, m))
    BY DEF Covers
  <2>2. SubSeq(s \o u, 1, n) = SubSeq(s, 1, n) /\ SubSeq(t \o u, 1, m) = SubSeq(t, 1, m)
    BY Beginnings
  <2> QED BY <2>1, <2>2
<1>4. ASSUME NEW k \in 0..Len(u)
      PROVE  /\ ToSet(SubSeq(s \o u, 1, Len(s) + k)) = ToSet(s) \union ToSet(SubSeq(u, 1, k))
             /\ ToSet(SubSeq(t \o u, 1, Len(t) + k)) = ToSet(t) \union ToSet(SubSeq(u, 1, k))
             /\ ToSet(SubSeq(u, 1, k)) \subseteq ToSet(u)
  <2>1. SubSeq(s \o u, 1, Len(s) + k) = s \o SubSeq(u, 1, k)
        /\ SubSeq(t \o u, 1, Len(t) + k) = t \o SubSeq(u, 1, k)
    BY Beginnings
  <2>2. SubSeq(u, 1, k) \in Text
    BY CutType
  <2>3. ToSet(SubSeq(u, 1, k)) \subseteq ToSet(u)
    <3>1. DOMAIN SubSeq(u, 1, k) = 1..k /\ 1..k \subseteq DOMAIN u
          /\ \A i \in 1..k : SubSeq(u, 1, k)[i] = u[i]
      BY <1>1, <2>2, CutType DEF Text
    <3> QED BY <3>1 DEF ToSet
  <2> QED BY <2>1, <2>2, <2>3, Elements
<1>5. ASSUME NEW n \in 0..Len(s \o u)
      PROVE  n \in 0..Len(s) \/ \E k \in 0..Len(u) : n = Len(s) + k
  <2>1. CASE n > Len(s)
    <3>1. n - Len(s) \in 0..Len(u) /\ n = Len(s) + (n - Len(s))
      BY <1>1, <2>1
    <3> QED BY <3>1
  <2> QED BY <1>1, <2>1
<1>6. ASSUME NEW n \in 0..Len(s \o u)
      PROVE  \E m \in 0..Len(t \o u) : ToSet(SubSeq(s \o u, 1, n)) = ToSet(SubSeq(t \o u, 1, m))
  <2>1. CASE n \in 0..Len(s)
    <3>1. 0..Len(t) \subseteq 0..Len(t \o u)
      BY <1>1
    <3> QED BY <1>3, <2>1, <3>1
  <2>2. ASSUME NEW k \in 0..Len(u), n = Len(s) + k
        PROVE  \E m \in 0..Len(t \o u) : ToSet(SubSeq(s \o u, 1, n)) = ToSet(SubSeq(t \o u, 1, m))
    <3>1. Len(t) + k \in 0..Len(t \o u)
      BY <1>1
    <3>2. ToSet(SubSeq(s \o u, 1, n)) = ToSet(SubSeq(t \o u, 1, Len(t) + k))
      BY <1>2, <1>4, <2>2
    <3> QED BY <3>1, <3>2
  <2> QED BY <1>5, <2>1, <2>2
<1>7. ASSUME ToSet(u) \subseteq ToSet(s), NEW n \in 0..Len(s \o u)
      PROVE  \E m \in 0..Len(t) : ToSet(SubSeq(s \o u, 1, n)) = ToSet(SubSeq(t, 1, m))
  <2>1. CASE n \in 0..Len(s)
    BY <1>3, <2>1
  <2>2. ASSUME NEW k \in 0..Len(u), n = Len(s) + k
        PROVE  \E m \in 0..Len(t) : ToSet(SubSeq(s \o u, 1, n)) = ToSet(SubSeq(t, 1, m))
    <3>1. Len(t) \in 0..Len(t) /\ SubSeq(t, 1, Len(t)) = t
      BY <1>1, Beginnings
    <3>2. ToSet(SubSeq(s \o u, 1, n)) = ToSet(t)
      BY <1>2, <1>4, <1>7, <2>2
    <3> QED BY <3>1, <3>2
  <2> QED BY <1>5, <2>1, <2>2
<1> QED BY <1>2, <1>6, <1>7 DEF Covers

\* What the key has committed so far.
Pending == IF call = "key" /\ acted THEN commit[imf] ELSE <<>>

\* Without a fault, only the framework that has the key may hold text the host has
\* not got; what libchewing keeps, it has.
Drained ==
    /\ faults \in Nat
    /\ faults = 0 =>
        /\ \A e \in Kinds : e # "chewing" /\ ~(call = "key" /\ acted /\ e = imf) => commit[e] = <<>>
        /\ ~(call = "key" /\ acted /\ imf = "chewing") => ToSet(commit["chewing"]) \subseteq ToSet(received)
        /\ \E past \in Text : sent = past \o Pending /\ Covers(received, past)

\* A step that commits and delivers nothing, unless it has just begun or ended.
LEMMA StaysDrained ==
    ASSUME Typed, Drained, UNCHANGED <<imfs, commit, sent, received, faults>>,
           ~(call = "key" /\ acted), ~(call = "key" /\ acted)'
    PROVE  Drained'
BY DEF Drained, Pending

\* A framework commits once in a key.
LEMMA CommitsOnce ==
    ASSUME Typed, Drained, call = "key", ~acted, NEW text \in Text,
           UNCHANGED <<imfs, current_imf, call, received, faults>>, acted',
           commit' = [commit EXCEPT ![imf] = text], sent' = sent \o text
    PROVE  Drained'
<1>1. imf \in Kinds
  BY ImfType
<1>2. imf' = imf
  BY DEF imf
<1>3. commit'[imf] = text /\ \A e \in Kinds \ {imf} : commit'[e] = commit[e]
  BY <1>1 DEF Typed
<1>4. Pending = <<>> /\ Pending' = text
  BY <1>2, <1>3 DEF Pending
<1>5. ASSUME faults = 0 PROVE \E past \in Text : sent' = past \o Pending' /\ Covers(received', past)
  <2>1. PICK past \in Text : sent = past \o <<>> /\ Covers(received, past)
    BY <1>4, <1>5 DEF Drained
  <2>2. sent = past
    BY <2>1 DEF Text
  <2> QED BY <1>4, <2>1, <2>2
<1>6. "chewing" \in Kinds
  BY DEF Kinds
<1>7. ASSUME faults = 0, imf # "chewing" PROVE ToSet(commit'["chewing"]) \subseteq ToSet(received')
  <2>1. commit'["chewing"] = commit["chewing"]
    BY <1>3, <1>6, <1>7
  <2> QED BY <1>7, <2>1 DEF Drained
<1> QED BY <1>2, <1>3, <1>5, <1>7 DEF Drained

\* The end of a key delivers what it has committed; if chewing has not handled it,
\* what the host has got already.
LEMMA EndsDrained ==
    ASSUME Typed, Drained, KeyEnds, UNCHANGED loaded
    PROVE  Drained'
<1>1. imf \in Kinds /\ "chewing" \in Kinds
  BY ImfType DEF KeyEnds, Kinds
<1>2. UNCHANGED <<imfs, sent, faults>> /\ call' = "none" /\ received' = received \o commit[imf]
  BY DEF KeyEnds, loaded, trap
<1>3. commit[imf] \in Text /\ received \in Text /\ commit["chewing"] \in Text
  BY <1>1 DEF Typed
<1>4. \A e \in Kinds : commit'[e] = IF e = imf /\ imf # "chewing" THEN <<>> ELSE commit[e]
  BY <1>1 DEF KeyEnds, Typed
<1>5. Pending' = <<>>
  BY <1>2 DEF Pending
<1>6. ToSet(received') = ToSet(received) \union ToSet(commit[imf])
  BY <1>2, <1>3, Elements
<1> SUFFICES ASSUME faults = 0
             PROVE  /\ \A e \in Kinds : e # "chewing" => commit'[e] = <<>>
                    /\ ToSet(commit'["chewing"]) \subseteq ToSet(received')
                    /\ \E past \in Text : sent' = past \o <<>> /\ Covers(received', past)
  BY <1>2, <1>5 DEF Drained
<1>7. \A e \in Kinds : e # "chewing" => commit'[e] = <<>>
  BY <1>4 DEF Drained
<1>8. ToSet(commit'["chewing"]) \subseteq ToSet(received')
  <2>1. commit'["chewing"] = commit["chewing"]
    BY <1>1, <1>4
  <2>2. CASE imf = "chewing"
    BY <1>6, <2>1, <2>2
  <2>3. CASE imf # "chewing"
    BY <1>6, <2>1, <2>3 DEF Drained
  <2> QED BY <2>2, <2>3
<1>9. PICK past \in Text : sent = past \o Pending /\ Covers(received, past)
  BY DEF Drained
<1>10. CASE acted
  <2>1. Pending = commit[imf]
    BY <1>10 DEF Pending, KeyEnds
  <2>2. Covers(received', sent)
    BY <1>2, <1>3, <1>9, <2>1, CoversGrows
  <2>3. sent' \in Text /\ sent' = sent' \o <<>>
    BY <1>2 DEF Typed, Text
  <2> QED BY <1>2, <1>7, <1>8, <2>2, <2>3
<1>11. CASE ~acted
  <2>1. Pending = <<>>
    BY <1>11 DEF Pending
  <2>2. sent' = past \o <<>>
    BY <1>2, <1>9, <2>1
  <2>3. ToSet(commit[imf]) \subseteq ToSet(received)
    <3>1. CASE imf = "chewing"
      BY <1>11, <3>1 DEF Drained
    <3>2. CASE imf # "chewing"
      <4>1. commit[imf] = <<>>
        BY <1>1, <1>11, <3>2 DEF Drained
      <4> QED BY <4>1, Elements
    <3> QED BY <3>1, <3>2
  <2>4. Covers(received', past)
    BY <1>2, <1>3, <1>9, <2>3, CoversGrows
  <2> QED BY <1>7, <1>8, <2>2, <2>4
<1> QED BY <1>10, <1>11

\* Every step keeps the balance of what is committed and what is received.
LEMMA NextDrained == Typed /\ Drained /\ [Next]_vars => Drained'
<1> SUFFICES ASSUME Typed, Drained, [Next]_vars PROVE Drained'
  OBVIOUS
<1> USE DEF front, delivery, trap, loaded
<1>1. ASSUME UNCHANGED <<imfs, current_imf, call, delivery, faults>>
      PROVE  Drained'
  BY <1>1 DEF Drained, Pending, imf
<1>2. CASE UNCHANGED vars
  BY <1>1, <1>2 DEF vars
<1> SUFFICES ASSUME Next, UNCHANGED loaded PROVE Drained'
  BY <1>2 DEF Next
<1>3. CASE Toggle
  BY <1>1, <1>3 DEF Toggle
<1>4. CASE NextImf
  BY <1>4, StaysDrained DEF NextImf, Idle
<1>5. ASSUME NEW module, SwitchTo(module) PROVE Drained'
  BY <1>5, StaysDrained DEF SwitchTo, Idle
<1>6. CASE \E edit \in BOOLEAN : Key(edit)
  BY <1>6, StaysDrained DEF Key, Idle
<1>7. CASE AppendText
  BY <1>1, <1>7 DEF AppendText
<1>8. CASE Clear
  BY <1>1, <1>8 DEF Clear
<1>9. CASE SendBuffer
  <2>1. comp["ov"] \in Text
    BY DEF Typed, Kinds
  <2> QED BY <1>9, <2>1, CommitsOnce DEF SendBuffer, InOv
<1>10. CASE ListCandidates
  BY <1>1, <1>10 DEF ListCandidates
<1>11. ASSUME NEW text \in Text, ChewingActs(text) PROVE Drained'
  <2>1. PICK n \in 0..Len(text) :
          /\ commit' = [commit EXCEPT !["chewing"] = SubSeq(text, 1, n)]
          /\ sent' = sent \o SubSeq(text, 1, n)
    BY <1>11 DEF ChewingActs
  <2>2. SubSeq(text, 1, n) \in Text
    BY CutType
  <2> QED BY <1>11, <2>1, <2>2, CommitsOnce DEF ChewingActs
<1>12. comp["chewing"] \in Text
  BY DEF Typed, Kinds
<1>13. CASE ChewingTypes
  <2>1. typed' \in 1..MaxTyped
    BY <1>13, NumbersAssumption DEF ChewingTypes, Typed
  <2> QED BY <1>11, <1>12, <1>13, <2>1, TextType DEF ChewingTypes
<1>20. CASE ChewingHandles \/ ChewingEscapes
  BY <1>11, <1>12, <1>20, TextType DEF ChewingHandles, ChewingEscapes
<1>14. CASE SunpinyinTypes
  BY <1>1, <1>14 DEF SunpinyinTypes, SunpinyinUpdates
<1>15. CASE SunpinyinCommits
  <2>1. comp["sunpinyin"] \in Text
    BY DEF Typed, Kinds
  <2> QED BY <1>15, <2>1, CommitsOnce DEF SunpinyinCommits, SunpinyinUpdates
<1>16. CASE SwitchEnds
  BY <1>16, StaysDrained DEF SwitchEnds
<1>17. CASE KeyEnds
  BY <1>17, EndsDrained
<1>18. CASE Throw \/ Signal
  BY <1>18 DEF Throw, Signal, Faults, Drained
<1> QED BY <1>3, <1>4, <1>5, <1>6, <1>7, <1>8, <1>9, <1>10, <1>13, <1>14, <1>15, <1>16, <1>17,
           <1>18, <1>20
        DEF Next, FrontNext, LibraryNext, SwitchIm, SwitchImReverse

\* The host has received what the frameworks have committed, and in that order.
THEOREM CommitsDelivered == Spec => []CommitDelivered
<1>1. Init => Drained
  <2> SUFFICES ASSUME Init PROVE Drained
    OBVIOUS
  <2>1. /\ faults = 0 /\ call = "none" /\ sent = <<>> /\ received = <<>>
        /\ \A e \in Kinds : commit[e] = <<>>
    BY DEF Init
  <2>2. Pending = <<>> /\ <<>> \in Text /\ <<>> = <<>> \o <<>>
    BY <2>1 DEF Pending, Text
  <2>3. Covers(<<>>, <<>>)
    <3>1. \A n \in 0..Len(<<>>) : n \in 0..Len(<<>>)
      OBVIOUS
    <3> QED BY <3>1 DEF Covers
  <2> QED BY <2>1, <2>2, <2>3 DEF Drained, Kinds
<1>2. Typed /\ Drained => CommitDelivered
  <2> SUFFICES ASSUME Typed, Drained, Untroubled PROVE Covers(received, sent)
    BY DEF CommitDelivered, Covers
  <2>1. faults = 0 /\ Pending = <<>>
    BY DEF Untroubled, Idle, Pending
  <2>2. PICK past \in Text : sent = past \o <<>> /\ Covers(received, past)
    BY <2>1 DEF Drained
  <2>3. sent = past
    BY <2>2 DEF Text
  <2> QED BY <2>2, <2>3
<1> QED BY <1>1, <1>2, NextDrained, TypedInv, PTL DEF Spec

-----------------------------------------------------------------------------
(* What is received twice.                                                   *)

Distinct(s) == \A i, j \in DOMAIN s : s[i] = s[j] => i = j

\* A sequence stays without repetition.
LEMMA StaysDistinct ==
    /\ Distinct(<<>>)
    /\ \A s \in Text, n \in Nat : Distinct(s) /\ n \notin ToSet(s) => Distinct(Append(s, n))
    /\ \A s, t \in Text :
         Distinct(s) /\ Distinct(t) /\ ToSet(s) \cap ToSet(t) = {} => Distinct(s \o t)
<1>1. Distinct(<<>>)
  BY DEF Distinct
<1>2. ASSUME NEW s \in Text, NEW n \in Nat, Distinct(s), n \notin ToSet(s)
      PROVE  Distinct(Append(s, n))
  BY <1>2 DEF Distinct, ToSet, Text
<1>3. ASSUME NEW s \in Text, NEW t \in Text, Distinct(s), Distinct(t), ToSet(s) \cap ToSet(t) = {}
      PROVE  Distinct(s \o t)
  <2> SUFFICES ASSUME NEW i \in 1..(Len(s) + Len(t)), NEW j \in 1..(Len(s) + Len(t)),
                      (s \o t)[i] = (s \o t)[j]
               PROVE  i = j
    BY DEF Distinct, Text
  <2>1. Len(s) \in Nat /\ Len(t) \in Nat /\ DOMAIN s = 1..Len(s) /\ DOMAIN t = 1..Len(t)
    BY DEF Text
  <2>2. \A k \in 1..(Len(s) + Len(t)) :
          IF k <= Len(s) THEN k \in DOMAIN s /\ (s \o t)[k] = s[k] /\ s[k] \in ToSet(s)
          ELSE k - Len(s) \in DOMAIN t /\ (s \o t)[k] = t[k - Len(s)] /\ t[k - Len(s)] \in ToSet(t)
    BY DEF ToSet, Text
  <2>3. CASE i <= Len(s) /\ j <= Len(s)
    BY <1>3, <2>2, <2>3 DEF Distinct
  <2>4. CASE i > Len(s) /\ j > Len(s)
    <3>1. i - Len(s) = j - Len(s)
      BY <1>3, <2>1, <2>2, <2>4 DEF Distinct
    <3> QED BY <2>1, <3>1
  <2>5. CASE i <= Len(s) /\ j > Len(s)
    BY <1>3, <2>1, <2>2, <2>5
  <2>6. CASE i > Len(s) /\ j <= Len(s)
    BY <1>3, <2>1, <2>2, <2>6
  <2> QED BY <2>1, <2>3, <2>4, <2>5, <2>6
<1> QED BY <1>1, <1>2, <1>3

\* A sequence without repetition is as long as its set is large.
LEMMA DistinctLength ==
    ASSUME NEW s \in Text, Distinct(s)
    PROVE  Len(s) = Cardinality(ToSet(s))
<1>1. Len(s) \in Nat /\ DOMAIN s = 1..Len(s)
  BY DEF Text
<1>2. s \in [1..Len(s) -> ToSet(s)]
  <2>1. s = [i \in 1..Len(s) |-> s[i]]
    BY <1>1 DEF Text
  <2>2. \A i \in 1..Len(s) : s[i] \in ToSet(s)
    BY <1>1 DEF ToSet
  <2> QED BY <2>1, <2>2, Zenon
<1>3. IsInjective(s)
  BY DEF IsInjective, Distinct
<1>4. \A t \in ToSet(s) : \E i \in 1..Len(s) : s[i] = t
  BY <1>1 DEF ToSet
<1>5. s \in Bijection(1..Len(s), ToSet(s))
  BY <1>2, <1>3, <1>4 DEF Bijection, Injection, Surjection
<1>6. ExistsBijection(1..Len(s), ToSet(s))
  BY <1>5 DEF ExistsBijection
<1> QED BY <1>1, <1>6, FS_CountingElements

\* The two parts of a text without repetition.
LEMMA CutApart ==
    ASSUME NEW s \in Text, Distinct(s), NEW n \in 0..Len(s)
    PROVE  LET t == SubSeq(s, 1, n)
               u == SubSeq(s, n + 1, Len(s))
           IN  /\ Distinct(t) /\ Distinct(u)
               /\ ToSet(t) \cap ToSet(u) = {}
               /\ ToSet(t) \union ToSet(u) \subseteq ToSet(s)
<1> DEFINE t == SubSeq(s, 1, n)
           u == SubSeq(s, n + 1, Len(s))
<1>1. /\ t \in Text /\ u \in Text /\ Len(t) = n /\ Len(u) = Len(s) - n
      /\ \A i \in 1..n : t[i] = s[i]
      /\ \A i \in 1..(Len(s) - n) : u[i] = s[n + i]
  BY CutType
<1> HIDE DEF t, u
<1>2. /\ Len(s) \in Nat /\ DOMAIN s = 1..Len(s)
      /\ DOMAIN t = 1..n /\ DOMAIN u = 1..(Len(s) - n)
  BY <1>1 DEF Text
<1>3. /\ \A i \in 1..n : i \in 1..Len(s)
      /\ \A i \in 1..(Len(s) - n) : n + i \in 1..Len(s) /\ n + i \notin 1..n
  BY <1>2
<1>4. Distinct(t)
  BY <1>1, <1>2, <1>3 DEF Distinct
<1>5. Distinct(u)
  <2> SUFFICES ASSUME NEW i \in 1..(Len(s) - n), NEW j \in 1..(Len(s) - n), u[i] = u[j] PROVE i = j
    BY <1>2 DEF Distinct
  <2>1. n + i = n + j
    BY <1>1, <1>2, <1>3 DEF Distinct
  <2> QED BY <1>2, <2>1
<1>6. ToSet(t) \cap ToSet(u) = {}
  <2> SUFFICES ASSUME NEW i \in 1..n, NEW j \in 1..(Len(s) - n), t[i] = u[j] PROVE FALSE
    BY <1>2, Zenon DEF ToSet
  <2>1. s[i] = s[n + j] /\ i \in DOMAIN s /\ n + j \in DOMAIN s
    BY <1>1, <1>2, <1>3
  <2>2. i = n + j
    BY <2>1 DEF Distinct
  <2> QED BY <1>3, <2>2
<1>7. ToSet(t) \subseteq ToSet(s)
  BY <1>1, <1>2, <1>3 DEF ToSet
<1>8. ToSet(u) \subseteq ToSet(s)
  BY <1>1, <1>2, <1>3 DEF ToSet
<1> QED BY <1>4, <1>5, <1>6, <1>7, <1>8 DEF t, u

\* What the framework e has committed the host has not got: always, but libchewing
\* keeps what it has delivered until it handles a key.
New(e) == e # "chewing" \/ (call = "key" /\ imf = "chewing" /\ acted)

\* No character is in two places, or twice in one, but where chewing keeps one that
\* is delivered; what is received or about to be has been committed.
Apart ==
    /\ ToSet(received) \subseteq ToSet(sent) \cap (1..typed)
    /\ \A e \in Kinds :
        /\ Distinct(comp[e]) /\ Distinct(commit[e])
        /\ ToSet(comp[e]) \subseteq 1..typed
        /\ ToSet(commit[e]) \subseteq ToSet(sent) \cap (1..typed)
        /\ ToSet(received) \cap ToSet(comp[e]) = {}
        /\ New(e) => ToSet(received) \cap ToSet(commit[e]) = {}
    /\ \A e, f \in Kinds :
        /\ ToSet(comp[e]) \cap ToSet(commit[f]) = {}
        /\ e # f => ToSet(comp[e]) \cap ToSet(comp[f]) = {}
                   /\ ToSet(commit[e]) \cap ToSet(commit[f]) = {}

\* A framework that shares what it has and one new character among its composition
\* and what it commits keeps all apart; chewing puts nothing back.
LEMMA SharesOut ==
    ASSUME Typed, Apart, NEW e \in Kinds, NEW text \in Text, NEW output \in Text,
           comp' = [comp EXCEPT ![e] = text], commit' = [commit EXCEPT ![e] = output],
           UNCHANGED received, typed' \in {typed, typed + 1},
           New("chewing")' => New("chewing") \/ e = "chewing",
           ToSet(sent) \union ToSet(output) \subseteq ToSet(sent'),
           ToSet(text) \union ToSet(output)
              \subseteq ToSet(comp[e]) \union ToSet(commit[e]) \union (1..typed' \ 1..typed),
           e = "chewing" =>
              ToSet(output) \subseteq ToSet(comp[e]) \union (1..typed' \ 1..typed),
           ToSet(text) \cap ToSet(output) = {}, Distinct(text), Distinct(output),
           ToSet(text) \cap ToSet(received) = {}
    PROVE  Apart'
<1> DEFINE new == 1..typed' \ 1..typed
<1>1. \A f \in Kinds : /\ comp'[f] = IF f = e THEN text ELSE comp[f]
                       /\ commit'[f] = IF f = e THEN output ELSE commit[f]
  BY DEF Typed
<1>2. 1..typed \subseteq 1..typed' /\ new \cap 1..typed = {} /\ new \subseteq 1..typed'
  BY DEF Typed
<1>3. /\ ToSet(text) \union ToSet(output) \subseteq ToSet(comp[e]) \union ToSet(commit[e]) \union new
      /\ e = "chewing" => ToSet(output) \subseteq ToSet(comp[e]) \union new
  OBVIOUS
<1> HIDE DEF new
<1>4. ToSet(text) \subseteq 1..typed' /\ ToSet(output) \subseteq 1..typed'
  BY <1>2, <1>3 DEF Apart
<1>5. (ToSet(received) \subseteq ToSet(sent) \cap (1..typed))'
  BY <1>2 DEF Apart
<1>9. ToSet(received) \cap ToSet(output) = {}
  <2>1. ToSet(received) \cap ToSet(comp[e]) = {} /\ ToSet(received) \cap new = {}
    BY <1>2 DEF Apart
  <2>2. e # "chewing" => ToSet(received) \cap ToSet(commit[e]) = {}
    BY DEF Apart, New
  <2> QED BY <1>3, <2>1, <2>2
<1>10. \A f \in Kinds : f # e /\ New(f)' => New(f)
  BY DEF New
<1>6. ASSUME NEW f \in Kinds
      PROVE  /\ Distinct(comp'[f]) /\ Distinct(commit'[f])
             /\ ToSet(comp'[f]) \subseteq 1..typed'
             /\ ToSet(commit'[f]) \subseteq ToSet(sent') \cap (1..typed')
             /\ ToSet(received') \cap ToSet(comp'[f]) = {}
             /\ New(f)' => ToSet(received') \cap ToSet(commit'[f]) = {}
  <2>1. CASE f = e
    BY <1>1, <1>4, <1>9, <2>1
  <2>2. CASE f # e
    BY <1>1, <1>2, <1>10, <2>2 DEF Apart
  <2> QED BY <2>1, <2>2
<1>7. ASSUME NEW f \in Kinds, f # e
      PROVE  /\ (ToSet(text) \union ToSet(output)) \cap (ToSet(comp[f]) \union ToSet(commit[f])) = {}
  BY <1>2, <1>3, <1>7 DEF Apart
<1>8. ASSUME NEW f \in Kinds, NEW g \in Kinds
      PROVE  /\ ToSet(comp'[f]) \cap ToSet(commit'[g]) = {}
             /\ f # g => ToSet(comp'[f]) \cap ToSet(comp'[g]) = {}
                        /\ ToSet(commit'[f]) \cap ToSet(commit'[g]) = {}
  <2>1. CASE f = e /\ g = e
    BY <1>1, <2>1
  <2>2. CASE f = e /\ g # e
    BY <1>1, <1>7, <2>2
  <2>3. CASE f # e /\ g = e
    BY <1>1, <1>7, <2>3
  <2>4. CASE f # e /\ g # e
    BY <1>1, <2>4 DEF Apart
  <2> QED BY <2>1, <2>2, <2>3, <2>4
<1> QED BY <1>5, <1>6, <1>8 DEF Apart

\* The end of a key brings the host what the framework has committed.
LEMMA DrainsApart == Typed /\ Apart /\ KeyEnds => Apart'
<1> SUFFICES ASSUME Typed, Apart, KeyEnds PROVE Apart'
  OBVIOUS
<1>1. imf \in Kinds
  BY ImfType DEF KeyEnds
<1>2. UNCHANGED <<comp, typed, sent>> /\ received' = received \o commit[imf] /\ call' = "none"
  BY DEF KeyEnds
<1>3. \A e \in Kinds : commit'[e] = IF e = imf /\ imf # "chewing" THEN <<>> ELSE commit[e]
  BY <1>1 DEF KeyEnds, Typed
<1>4. ToSet(received') = ToSet(received) \union ToSet(commit[imf])
  BY <1>1, <1>2, Elements DEF Typed
<1>6. ToSet(<<>>) = {} /\ Distinct(<<>>)
  BY Elements, StaysDistinct
<1>5. ToSet(received') \subseteq ToSet(sent') \cap (1..typed')
  BY <1>1, <1>2, <1>4 DEF Apart
<1>7. ASSUME NEW e \in Kinds
      PROVE  /\ ToSet(received') \cap ToSet(comp[e]) = {}
             /\ New(e)' => ToSet(received') \cap ToSet(commit'[e]) = {}
  <2>1. ToSet(received') \cap ToSet(comp[e]) = {}
    BY <1>1, <1>4 DEF Apart
  <2>2. New(e)' => e # "chewing"
    BY <1>2 DEF New
  <2>3. ASSUME e # "chewing" PROVE ToSet(received') \cap ToSet(commit'[e]) = {}
    <3>1. CASE e = imf
      BY <1>3, <1>6, <2>3, <3>1
    <3>2. CASE e # imf
      <4>1. ToSet(received) \cap ToSet(commit[e]) = {} /\ ToSet(commit[imf]) \cap ToSet(commit[e]) = {}
        BY <1>1, <2>3, <3>2 DEF Apart, New
      <4> QED BY <1>3, <1>4, <3>2, <4>1
    <3> QED BY <3>1, <3>2
  <2> QED BY <2>1, <2>2, <2>3
<1>8. \A e \in Kinds : ToSet(commit'[e]) \subseteq ToSet(commit[e]) /\ Distinct(commit'[e])
  BY <1>3, <1>6 DEF Apart
<1>9. ASSUME NEW e \in Kinds
      PROVE  /\ Distinct(comp[e]) /\ Distinct(commit'[e])
             /\ ToSet(comp[e]) \subseteq 1..typed
             /\ ToSet(commit'[e]) \subseteq ToSet(sent) \cap (1..typed)
  BY <1>8 DEF Apart
<1>10. ASSUME NEW e \in Kinds, NEW f \in Kinds
       PROVE  /\ ToSet(comp[e]) \cap ToSet(commit'[f]) = {}
              /\ e # f => ToSet(comp[e]) \cap ToSet(comp[f]) = {}
                         /\ ToSet(commit'[e]) \cap ToSet(commit'[f]) = {}
  BY <1>8 DEF Apart
<1> QED BY <1>2, <1>5, <1>7, <1>9, <1>10 DEF Apart

\* Every step keeps the characters apart, wherever a fault ends a call.
LEMMA NextApart == Typed /\ Apart /\ [Next]_vars => Apart'
<1> SUFFICES ASSUME Typed, Apart, [Next]_vars PROVE Apart'
  OBVIOUS
<1> USE DEF front, delivery, trap, texts
<1>1. ASSUME UNCHANGED <<comp, commit, received, sent, typed>>, New("chewing")' => New("chewing")
      PROVE  Apart'
  <2>1. \A e \in Kinds : New(e)' => New(e)
    BY <1>1 DEF New
  <2> QED BY <1>1, <2>1 DEF Apart
<1>20. ASSUME UNCHANGED <<imfs, current_imf, call, acted>> PROVE New("chewing")' => New("chewing")
  BY <1>20 DEF New, imf
<1>21. UNCHANGED imfs
  BY DEF Next, loaded, vars
<1>2. ASSUME NEW e \in Kinds
      PROVE  /\ comp[e] \in Text /\ commit[e] \in Text
             /\ Distinct(comp[e]) /\ Distinct(commit[e])
             /\ ToSet(comp[e]) \cap ToSet(commit[e]) = {}
             /\ ToSet(comp[e]) \cap ToSet(received) = {}
             /\ ToSet(commit[e]) \subseteq ToSet(sent)
  BY DEF Typed, Apart
<1>3. ToSet(<<>>) = {} /\ Distinct(<<>>) /\ <<>> \in Text
  BY Elements, StaysDistinct, TextType
<1>4. ASSUME typed < MaxTyped, typed' = typed + 1, NEW e \in Kinds
      PROVE  /\ typed' \in 1..typed' \ 1..typed
             /\ Append(comp[e], typed') \in Text
             /\ Distinct(Append(comp[e], typed'))
             /\ ToSet(Append(comp[e], typed')) = ToSet(comp[e]) \union {typed'}
             /\ typed' \notin ToSet(commit[e])
             /\ typed' \notin ToSet(received)
  <2>1. typed' \in 1..MaxTyped /\ typed' \in Nat /\ typed' \in 1..typed' \ 1..typed
    BY <1>4, NumbersAssumption DEF Typed
  <2>2. typed' \notin ToSet(comp[e]) /\ typed' \notin ToSet(commit[e]) /\ typed' \notin ToSet(received)
    BY <2>1 DEF Apart
  <2> QED BY <1>2, <2>1, <2>2, Elements, StaysDistinct, TextType
<1>5. \A e \in Kinds : commit = [commit EXCEPT ![e] = commit[e]]
  BY DEF Typed
<1>6. ASSUME NEW e \in Kinds, e # "chewing", typed < MaxTyped, typed' = typed + 1,
             comp' = [comp EXCEPT ![e] = Append(@, typed')],
             commit' = commit, sent' = sent, received' = received,
             UNCHANGED <<current_imf, call, acted>>
      PROVE  Apart'
  <2> DEFINE text == Append(comp[e], typed')
  <2>1. /\ text \in Text /\ Distinct(text) /\ ToSet(text) \cap ToSet(commit[e]) = {}
        /\ ToSet(text) \cap ToSet(received) = {}
        /\ ToSet(text) \union ToSet(commit[e])
              \subseteq ToSet(comp[e]) \union ToSet(commit[e]) \union (1..typed' \ 1..typed)
    <3>1. ToSet(text) = ToSet(comp[e]) \union {typed'}
      BY <1>4, <1>6
    <3>2. text \in Text /\ Distinct(text) /\ typed' \in 1..typed' \ 1..typed
          /\ typed' \notin ToSet(commit[e]) /\ typed' \notin ToSet(received)
      BY <1>4, <1>6
    <3> QED BY <1>2, <3>1, <3>2
  <2>2. comp' = [comp EXCEPT ![e] = text] /\ commit' = [commit EXCEPT ![e] = commit[e]]
    BY <1>5, <1>6
  <2>3. ToSet(sent) \union ToSet(commit[e]) \subseteq ToSet(sent')
    BY <1>2, <1>6
  <2>4. New("chewing")' => New("chewing")
    BY <1>6, <1>20, <1>21
  <2> HIDE DEF text
  <2> QED BY <1>2, <1>6, <2>1, <2>2, <2>3, <2>4, SharesOut
<1>8. CASE AppendText
  BY <1>6, <1>8 DEF AppendText, Kinds
<1>9. ASSUME NEW e \in Kinds, e # "chewing", comp' = [comp EXCEPT ![e] = <<>>],
             UNCHANGED <<commit, sent, received, typed>>, New("chewing")' => New("chewing")
      PROVE  Apart'
  BY <1>2, <1>3, <1>5, <1>9, SharesOut
<1>22. CASE SwitchEnds
  <2>1. ~New("chewing")'
    BY <1>22 DEF SwitchEnds, New
  <2> QED BY <1>9, <1>22, <2>1 DEF SwitchEnds, Kinds
<1>23. CASE Clear
  BY <1>9, <1>20, <1>21, <1>23 DEF Clear, Kinds
<1>10. ASSUME NEW e \in Kinds, imf = e, e # "chewing", comp' = [comp EXCEPT ![e] = <<>>],
              commit' = [commit EXCEPT ![e] = comp[e]], sent' = sent \o comp[e],
              UNCHANGED <<received, typed, current_imf>>
       PROVE  Apart'
  <2>1. ToSet(sent') = ToSet(sent) \union ToSet(comp[e])
    BY <1>2, <1>10, Elements DEF Typed
  <2>2. ~New("chewing")'
    BY <1>10, <1>21 DEF New, imf
  <2>3. ToSet(<<>>) \cap ToSet(comp[e]) = {} /\ ToSet(<<>>) \cap ToSet(received) = {}
    BY <1>3
  <2> QED BY <1>2, <1>3, <1>10, <2>1, <2>2, <2>3, SharesOut
<1>11. CASE SendBuffer
  BY <1>10, <1>11 DEF SendBuffer, InOv, Kinds
<1>13. CASE SunpinyinCommits
  BY <1>10, <1>13 DEF SunpinyinCommits, SunpinyinUpdates, Kinds
<1>12. ASSUME NEW text \in Text, ChewingActs(text), typed' \in {typed, typed + 1}, Distinct(text),
              ToSet(text) \subseteq ToSet(comp["chewing"]) \union (1..typed' \ 1..typed),
              ToSet(text) \cap ToSet(received) = {}
       PROVE  Apart'
  <2>1. PICK n \in 0..Len(text) :
          /\ commit' = [commit EXCEPT !["chewing"] = SubSeq(text, 1, n)]
          /\ comp' = [comp EXCEPT !["chewing"] = SubSeq(text, n + 1, Len(text))]
          /\ sent' = sent \o SubSeq(text, 1, n)
    BY <1>12 DEF ChewingActs
  <2> DEFINE t == SubSeq(text, 1, n)
             u == SubSeq(text, n + 1, Len(text))
  <2>2. t \in Text /\ u \in Text
    BY CutType
  <2>3. /\ Distinct(t) /\ Distinct(u) /\ ToSet(u) \cap ToSet(t) = {}
        /\ ToSet(t) \subseteq ToSet(text) /\ ToSet(u) \subseteq ToSet(text)
    BY <1>12, CutApart
  <2>4. commit' = [commit EXCEPT !["chewing"] = t] /\ comp' = [comp EXCEPT !["chewing"] = u]
        /\ sent' = sent \o t /\ UNCHANGED received /\ "chewing" \in Kinds
    BY <1>12, <2>1 DEF ChewingActs, Kinds
  <2> HIDE DEF t, u
  <2>5. ToSet(sent') = ToSet(sent) \union ToSet(t)
    BY <2>2, <2>4, Elements DEF Typed
  <2>6. /\ ToSet(t) \subseteq ToSet(comp["chewing"]) \union (1..typed' \ 1..typed)
        /\ ToSet(u) \subseteq ToSet(comp["chewing"]) \union (1..typed' \ 1..typed)
        /\ ToSet(u) \cap ToSet(received) = {}
    BY <1>12, <2>3
  <2> QED BY <1>12, <2>2, <2>3, <2>4, <2>5, <2>6, SharesOut
<1>14. "chewing" \in Kinds
  BY DEF Kinds
<1>24. CASE ChewingHandles
  <2>1. typed' \in {typed, typed + 1} /\ ChewingActs(comp["chewing"])
    BY <1>24 DEF ChewingHandles
  <2>2. /\ comp["chewing"] \in Text /\ Distinct(comp["chewing"])
        /\ ToSet(comp["chewing"]) \cap ToSet(received) = {}
    BY <1>2, <1>14
  <2>3. ToSet(comp["chewing"]) \subseteq ToSet(comp["chewing"]) \union (1..typed' \ 1..typed)
    OBVIOUS
  <2> QED BY <1>12, <2>1, <2>2, <2>3
<1>25. CASE ChewingEscapes
  <2>1. typed' \in {typed, typed + 1} /\ ChewingActs(<<>>)
    BY <1>25 DEF ChewingEscapes
  <2> QED BY <1>3, <1>12, <2>1
<1>15. CASE ChewingTypes
  <2> DEFINE text == Append(comp["chewing"], typed')
  <2>1. ChewingActs(text) /\ typed < MaxTyped /\ typed' = typed + 1
    BY <1>15 DEF ChewingTypes
  <2>2. /\ text \in Text /\ Distinct(text) /\ ToSet(text) = ToSet(comp["chewing"]) \union {typed'}
        /\ typed' \in 1..typed' \ 1..typed /\ typed' \notin ToSet(received)
    BY <1>4, <1>14, <2>1
  <2> HIDE DEF text
  <2>3. ToSet(comp["chewing"]) \cap ToSet(received) = {}
    BY <1>2, <1>14
  <2> QED BY <1>12, <2>1, <2>2, <2>3
<1>16. CASE SunpinyinTypes
  BY <1>6, <1>16 DEF SunpinyinTypes, SunpinyinUpdates, Kinds
<1>17. CASE KeyEnds
  BY <1>17, DrainsApart
<1>18. CASE FrontNext \/ Throw \/ Signal
  <2>1. UNCHANGED <<comp, commit, received, sent, typed>>
    BY <1>18 DEF FrontNext, Toggle, NextImf, SwitchIm, SwitchImReverse, SwitchTo, Key, Throw, Signal,
                 Faults
  <2>2. call' # "key" \/ acted' = FALSE
    BY <1>18 DEF FrontNext, Toggle, NextImf, SwitchIm, SwitchImReverse, SwitchTo, Key, Idle, Throw,
                 Signal, Faults
  <2>3. ~New("chewing")'
    BY <2>2 DEF New
  <2> QED BY <1>1, <2>1, <2>3
<1>26. CASE ListCandidates
  BY <1>1, <1>20, <1>21, <1>26 DEF ListCandidates
<1>19. CASE UNCHANGED vars
  BY <1>1, <1>19, <1>20 DEF vars, loaded
<1> QED BY <1>8, <1>11, <1>13, <1>15, <1>16, <1>17, <1>18, <1>19, <1>22, <1>23, <1>24, <1>25, <1>26
        DEF Next, LibraryNext

\* Only the end of a key brings the host text.
LEMMA OnlyKeyEnds == [Next]_vars /\ received' # received => KeyEnds
BY DEF Next, FrontNext, LibraryNext, Toggle, NextImf, SwitchIm, SwitchImReverse, SwitchTo, Key,
       AppendText, Clear, SendBuffer, ListCandidates, ChewingTypes, ChewingHandles, ChewingEscapes,
       ChewingActs, SunpinyinTypes, SunpinyinCommits, SunpinyinUpdates, SwitchEnds, Throw, Signal,
       Faults, delivery, vars

\* Even with faults, which end a call anywhere, nothing comes a second time but from
\* chewing, at a key that it does not handle.
THEOREM RepeatsAreChewings == Spec => OnlyChewingRepeats
<1>1. Init => Apart
  BY Elements, StaysDistinct DEF Init, Apart
<1>2. ASSUME Typed, Apart, [Next]_vars, received' # received
      PROVE  /\ ToSet(Delivered) \subseteq ToSet(sent)
             /\ Cardinality(ToSet(Delivered)) = Len(Delivered)
             /\ ToSet(Delivered) \cap ToSet(received) # {} => imf = "chewing" /\ ~acted
  <2>1. KeyEnds
    BY <1>2, OnlyKeyEnds
  <2>2. imf \in Kinds /\ received' = received \o commit[imf] /\ call = "key"
    BY <2>1, <1>2, ImfType DEF KeyEnds
  <2>3. commit[imf] \in Text /\ received \in Text
    BY <1>2, <2>2 DEF Typed
  <2>4. Delivered = commit[imf]
    BY <2>2, <2>3 DEF Delivered, Text
  <2>5. Distinct(commit[imf]) /\ ToSet(commit[imf]) \subseteq ToSet(sent)
    BY <1>2, <2>2 DEF Apart
  <2>6. New(imf) => ToSet(commit[imf]) \cap ToSet(received) = {}
    BY <1>2, <2>2 DEF Apart
  <2> QED BY <2>2, <2>3, <2>4, <2>5, <2>6, DistinctLength DEF New
<1>3. Typed /\ Apart /\ [Next]_vars =>
        [received' # received =>
           /\ ToSet(Delivered) \subseteq ToSet(sent)
           /\ Cardinality(ToSet(Delivered)) = Len(Delivered)
           /\ ToSet(Delivered) \cap ToSet(received) # {} => imf = "chewing" /\ ~acted]_vars
  BY <1>2
<1> QED BY <1>1, <1>3, NextApart, TypedInv, PTL DEF Spec, OnlyChewingRepeats

-----------------------------------------------------------------------------
(* What the preedit widget shows.                                            *)

\* s is the end of t, place by place.
Ends(s, t) ==
    /\ Len(s) <= Len(t)
    /\ \A i \in 1..Len(s) : s[i] = t[Len(t) - Len(s) + i]

LEMMA SuffixIs ==
    ASSUME NEW S, NEW s \in Seq(S), NEW t \in Seq(S)
    PROVE  IsSuffix(s, t) <=> Ends(s, t)
<1> DEFINE m == Len(s)
           n == Len(t)
           r == Reverse(s)
           q == Reverse(t)
<1>1. m \in Nat /\ n \in Nat
  OBVIOUS
<1>2. /\ r \in Seq(S) /\ Len(r) = m /\ \A i \in 1..m : r[i] = s[(m - i) + 1]
      /\ q \in Seq(S) /\ Len(q) = n /\ \A i \in 1..n : q[i] = t[(n - i) + 1]
  BY <1>1 DEF Reverse
<1>3. IsSuffix(s, t) <=> m <= n /\ SubSeq(r, 1, m) = SubSeq(q, 1, m)
  BY <1>2 DEF IsSuffix, IsPrefix
<1> HIDE DEF m, n, r, q
<1>4. ASSUME m <= n
      PROVE  SubSeq(r, 1, m) = SubSeq(q, 1, m) <=> \A i \in 1..m : r[i] = q[i]
  <2>1. /\ SubSeq(r, 1, m) \in Seq(S) /\ Len(SubSeq(r, 1, m)) = m
        /\ \A i \in 1..m : SubSeq(r, 1, m)[i] = r[i]
    BY <1>1, <1>2
  <2>2. /\ SubSeq(q, 1, m) \in Seq(S) /\ Len(SubSeq(q, 1, m)) = m
        /\ \A i \in 1..m : SubSeq(q, 1, m)[i] = q[i]
    BY <1>1, <1>2, <1>4
  <2> QED BY <2>1, <2>2, SeqEqual
<1>5. ASSUME m <= n
      PROVE  (\A i \in 1..m : r[i] = q[i]) <=> \A i \in 1..m : s[i] = t[n - m + i]
  <2>1. \A i \in 1..m : /\ (m - i) + 1 \in 1..m /\ (m - ((m - i) + 1)) + 1 = i
                        /\ (n - i) + 1 = n - m + ((m - i) + 1)
                        /\ (n - ((m - i) + 1)) + 1 = n - m + i
                        /\ i \in 1..n
    BY <1>1, <1>5
  <2>2. ASSUME \A i \in 1..m : r[i] = q[i], NEW i \in 1..m PROVE s[i] = t[n - m + i]
    <3> DEFINE j == (m - i) + 1
    <3>1. j \in 1..m /\ (m - j) + 1 = i /\ (n - j) + 1 = n - m + i /\ j \in 1..n
      BY <2>1
    <3> HIDE DEF j
    <3> QED BY <1>2, <2>2, <3>1
  <2>3. ASSUME \A i \in 1..m : s[i] = t[n - m + i], NEW i \in 1..m PROVE r[i] = q[i]
    <3> DEFINE j == (m - i) + 1
    <3>2. j \in 1..m /\ i \in 1..n /\ (n - i) + 1 = n - m + j
      BY <2>1
    <3>1. r[i] = s[j] /\ q[i] = t[n - m + j] /\ j \in 1..m
      BY <1>2, <3>2
    <3> HIDE DEF j
    <3> QED BY <2>3, <3>1
  <2> QED BY <2>2, <2>3
<1> QED BY <1>3, <1>4, <1>5 DEF Ends, m, n

\* Ends grow together.
LEMMA EndsGrow ==
    /\ \A S : \A t \in Seq(S) : Ends(<<>>, t) /\ Ends(t, t)
    /\ \A S : \A s \in Seq(S), t \in Seq(S) : \A e : Ends(s, t) => Ends(Append(s, e), Append(t, e))
<1>1. ASSUME NEW S, NEW t \in Seq(S) PROVE Ends(<<>>, t) /\ Ends(t, t)
  BY DEF Ends
<1>2. ASSUME NEW S, NEW s \in Seq(S), NEW t \in Seq(S), NEW e, Ends(s, t)
      PROVE  Ends(Append(s, e), Append(t, e))
  <2>1. Len(s) \in Nat /\ Len(t) \in Nat /\ Len(s) <= Len(t)
    BY <1>2 DEF Ends
  <2>2. Len(Append(s, e)) = Len(s) + 1 /\ Len(Append(t, e)) = Len(t) + 1
    OBVIOUS
  <2>3. ASSUME NEW i \in 1..(Len(s) + 1)
        PROVE  Append(s, e)[i] = Append(t, e)[(Len(t) + 1) - (Len(s) + 1) + i]
    <3>1. CASE i = Len(s) + 1
      <4>1. (Len(t) + 1) - (Len(s) + 1) + i = Len(t) + 1
        BY <2>1, <3>1
      <4> QED BY <3>1, <4>1
    <3>2. CASE i # Len(s) + 1
      <4>1. i \in 1..Len(s) /\ (Len(t) + 1) - (Len(s) + 1) + i = Len(t) - Len(s) + i
            /\ Len(t) - Len(s) + i \in 1..Len(t)
        BY <2>1, <3>2
      <4>2. Append(s, e)[i] = s[i] /\ Append(t, e)[Len(t) - Len(s) + i] = t[Len(t) - Len(s) + i]
        BY <4>1
      <4> QED BY <1>2, <4>1, <4>2 DEF Ends
    <3> QED BY <3>1, <3>2
  <2>4. Len(Append(s, e)) <= Len(Append(t, e))
    BY <2>1, <2>2
  <2>5. ASSUME NEW i \in 1..Len(Append(s, e))
        PROVE  Append(s, e)[i] = Append(t, e)[Len(Append(t, e)) - Len(Append(s, e)) + i]
    BY <2>2, <2>3, <2>5
  <2> QED BY <2>4, <2>5 DEF Ends
<1> QED BY <1>1, <1>2

\* What the framework e may let the preedit widget end on.
Texts(e) == {comp[e]} \union (IF e = "chewing" THEN Shown(comp[e]) ELSE {})

\* Without a fault, the widget shows an end of the current composition, except
\* while chewing has the key, which fills the widget when it ends.
Ended ==
    /\ prdt \in Seq(0..MaxTyped) /\ faults \in Nat
    /\ faults = 0 /\ ~dead /\ ~(call = "key" /\ imf = "chewing") =>
         \E text \in Texts(imf) : Ends(prdt, text)

\* A step of the framework that has the control, other than chewing, which grows
\* the widget and the composition together, or sets the one to the other.
LEMMA KeepsEnding ==
    ASSUME Typed, Ended, call # "none", UNCHANGED <<imfs, current_imf, dead, faults>>,
           imf # "chewing", prdt' \in Seq(0..MaxTyped),
           ~dead /\ Ends(prdt, comp[imf]) => Ends(prdt', comp'[imf])
    PROVE  Ended'
<1>1. imf' = imf
  BY DEF imf
<1>2. Texts(imf) = {comp[imf]} /\ Texts(imf)' = {comp'[imf]}
  BY <1>1 DEF Texts
<1>3. ASSUME faults = 0, ~dead PROVE Ends(prdt', comp'[imf])
  BY <1>2, <1>3 DEF Ended
<1> QED BY <1>1, <1>2, <1>3 DEF Ended

LEMMA NextEnded == Typed /\ Ranged /\ Ranged' /\ Ended /\ [Next]_vars => Ended'
<1> SUFFICES ASSUME Typed, Ranged, Ranged', Ended, [Next]_vars PROVE Ended'
  OBVIOUS
<1> USE DEF loaded, front, texts, delivery, trap
<1>1. prdt' \in Seq(0..MaxTyped)
  BY DEF Ranged
<1>2. faults' \in Nat
  BY NumbersAssumption DEF Ranged
<1>3. ASSUME UNCHANGED <<imfs, current_imf, prdt, comp, dead, faults>>,
             call' = "key" \/ ~(call = "key" /\ imf = "chewing")
      PROVE  Ended'
  <2>1. imf' = imf
    BY <1>3 DEF imf
  <2>2. Texts(imf)' = Texts(imf)
    BY <1>3, <2>1 DEF Texts
  <2> QED BY <1>1, <1>2, <1>3, <2>1, <2>2 DEF Ended
<1>4. CASE UNCHANGED vars
  BY <1>3, <1>4 DEF vars
<1> SUFFICES ASSUME Next, UNCHANGED loaded PROVE Ended'
  BY <1>4 DEF Next
<1>5. CASE Toggle
  BY <1>3, <1>5 DEF Toggle, Idle
<1>6. CASE NextImf
  <2>1. prdt' = <<>> /\ comp' = comp /\ dead' = dead /\ ~dead /\ call' = "none" /\ call = "none"
    BY <1>6 DEF NextImf, Idle
  <2>2. imf' \in Kinds
    <3>1. current_imf \in 1..Len(imfs) /\ Len(imfs) \in Nat
      BY <2>1 DEF Typed
    <3>2. current_imf' \in 1..Len(imfs)
      BY <1>6, <3>1, NextImfInRange DEF NextImf
    <3> QED BY <3>2 DEF Typed, imf
  <2>3. comp'[imf'] \in Text /\ comp'[imf'] \in Texts(imf)'
    BY <2>1, <2>2 DEF Typed, Texts
  <2>4. Ends(prdt', comp'[imf'])
    BY <2>1, <2>3, EndsGrow DEF Text
  <2> QED BY <1>1, <1>2, <2>3, <2>4 DEF Ended
<1>7. CASE SwitchIm \/ SwitchImReverse
  BY <1>3, <1>7 DEF SwitchIm, SwitchImReverse, SwitchTo, Idle
<1>8. CASE \E edit \in BOOLEAN : Key(edit)
  BY <1>3, <1>8 DEF Key
<1>9. ASSUME call # "none" PROVE comp[imf] \in Seq(0..MaxTyped) /\ imf \in Kinds
  <2>1. imf \in Kinds
    BY <1>9, ImfType
  <2> QED BY <2>1, TextShown DEF Typed
<1>10. CASE AppendText
  <2>1. imf = "ov" /\ call # "none" /\ prdt' = Append(prdt, typed')
        /\ comp' = [comp EXCEPT !["ov"] = Append(@, typed')]
        /\ UNCHANGED <<current_imf, dead, faults>>
    BY <1>10 DEF AppendText, InOv
  <2>2. comp'[imf] = Append(comp[imf], typed')
    BY <2>1 DEF Typed, Kinds
  <2>3. Ends(prdt, comp[imf]) => Ends(prdt', comp'[imf])
    BY <1>9, <2>1, <2>2, EndsGrow DEF Ended
  <2> QED BY <1>1, <2>1, <2>3, KeepsEnding
<1>11. CASE Clear \/ SendBuffer
  <2>1. imf = "ov" /\ call # "none" /\ prdt' = <<>> /\ comp' = [comp EXCEPT !["ov"] = <<>>]
        /\ UNCHANGED <<current_imf, dead, faults>>
    BY <1>11 DEF Clear, SendBuffer, InOv
  <2>2. comp'[imf] = <<>>
    BY <2>1 DEF Typed, Kinds
  <2>3. Ends(prdt', comp'[imf])
    BY <2>1, <2>2 DEF Ends
  <2> QED BY <1>1, <2>1, <2>3, KeepsEnding
<1>12. CASE ListCandidates
  BY <1>3, <1>12 DEF ListCandidates, InOv
<1>13. CASE ChewingTypes \/ ChewingHandles \/ ChewingEscapes
  <2>1. call' = "key" /\ imf = "chewing" /\ UNCHANGED <<imfs, current_imf>>
    BY <1>13 DEF ChewingTypes, ChewingHandles, ChewingEscapes, ChewingActs
  <2>2. imf' = "chewing"
    BY <2>1 DEF imf
  <2> QED BY <1>1, <1>2, <2>1, <2>2 DEF Ended
<1>14. ASSUME NEW text \in Text, SunpinyinUpdates(text) PROVE Ended'
  <2>1. imf = "sunpinyin" /\ call # "none" /\ prdt' = text /\ comp' = [comp EXCEPT !["sunpinyin"] = text]
        /\ UNCHANGED <<current_imf, dead, faults>>
    BY <1>14 DEF SunpinyinUpdates
  <2>2. comp'[imf] = text
    BY <2>1 DEF Typed, Kinds
  <2>3. Ends(prdt', comp'[imf])
    BY <1>14, <2>1, <2>2, EndsGrow DEF Text
  <2> QED BY <1>1, <2>1, <2>3, KeepsEnding
<1>15. CASE SunpinyinTypes
  <2>1. typed' \in 1..MaxTyped /\ comp["sunpinyin"] \in Text
    BY <1>15, NumbersAssumption DEF SunpinyinTypes, Typed, Kinds
  <2>2. Append(comp["sunpinyin"], typed') \in Text
    BY <2>1, TextType
  <2> QED BY <1>14, <1>15, <2>2 DEF SunpinyinTypes
<1>16. CASE SunpinyinCommits
  BY <1>14, <1>16, TextType DEF SunpinyinCommits
<1>17. CASE SwitchEnds
  <2>1. imf = "ov" /\ call # "none"
    BY <1>17 DEF SwitchEnds, Typed
  <2>2. prdt' = <<>> /\ comp' = [comp EXCEPT !["ov"] = <<>>] /\ UNCHANGED <<current_imf, dead, faults>>
    BY <1>17 DEF SwitchEnds
  <2>3. comp'[imf] = <<>>
    BY <2>1, <2>2 DEF Typed, Kinds
  <2>4. Ends(prdt', comp'[imf])
    BY <2>2, <2>3 DEF Ends
  <2> QED BY <1>1, <2>1, <2>2, <2>4, KeepsEnding
<1>18. CASE KeyEnds
  <2>1. call = "key" /\ comp' = comp /\ UNCHANGED <<current_imf, dead, faults>>
    BY <1>18 DEF KeyEnds
  <2>2. CASE imf = "chewing"
    <3>1. prdt' \in Shown(comp["chewing"])
      BY <1>18, <2>2 DEF KeyEnds
    <3>2. imf' = "chewing"
      BY <2>1, <2>2 DEF imf
    <3>3. prdt' \in Texts(imf)'
      BY <2>1, <3>1, <3>2 DEF Texts, Shown
    <3>4. Ends(prdt', prdt')
      BY <1>1 DEF Ends
    <3> QED BY <1>1, <1>2, <3>3, <3>4 DEF Ended
  <2>3. CASE imf # "chewing"
    <3>1. prdt' = prdt
      BY <1>18, <2>3 DEF KeyEnds
    <3> QED BY <1>3, <2>1, <2>3, <3>1
  <2> QED BY <2>2, <2>3
<1>19. CASE Throw \/ Signal
  <2>1. faults' # 0
    BY <1>19 DEF Throw, Signal, Faults, Ended
  <2> QED BY <1>1, <1>2, <2>1 DEF Ended
<1> QED BY <1>5, <1>6, <1>7, <1>8, <1>10, <1>11, <1>12, <1>13, <1>15, <1>16, <1>17, <1>18, <1>19
        DEF Next, FrontNext, LibraryNext

\* The preedit shows nothing but the end of what the current framework composes,
\* whichever way the frameworks are switched and whatever they commit.
THEOREM PreeditCurrent == Spec => []PreeditIsCurrent
<1>1. Init => Ended
  <2> SUFFICES ASSUME Init PROVE Ended
    OBVIOUS
  <2>1. Typed
    BY InitTyped
  <2>2. prdt = <<>> /\ prdt \in Seq(0..MaxTyped) /\ faults = 0 /\ call = "none"
    BY DEF Init
  <2>3. ASSUME ~dead PROVE comp[imf] \in Text
    BY <2>1, <2>3, ImfType DEF Typed
  <2>4. ASSUME ~dead PROVE comp[imf] \in Texts(imf) /\ Ends(prdt, comp[imf])
    BY <2>2, <2>3, <2>4, EndsGrow DEF Texts, Text
  <2> QED BY <2>2, <2>4 DEF Ended
<1>2. Typed /\ Ended => PreeditIsCurrent
  <2> SUFFICES ASSUME Typed, Ended, Untroubled
               PROVE  \E text \in Texts(imf) : IsSuffix(prdt, text)
    BY DEF PreeditIsCurrent, Texts
  <2>1. PICK text \in Texts(imf) : Ends(prdt, text)
    BY DEF Ended, Untroubled, Idle
  <2>2. imf \in Kinds
    BY ImfType DEF Untroubled, Idle
  <2>3. comp[imf] \in Text
    BY <2>2 DEF Typed
  <2>4. text \in Seq(0..MaxTyped)
    BY <2>1, <2>3, TextShown DEF Texts
  <2> QED BY <2>1, <2>4, SuffixIs DEF Ended
<1>3. Spec => []Ranged
  BY InitRanged, NextRanged, TypedInv, PTL DEF Spec
<1> QED BY <1>1, <1>2, <1>3, NextEnded, TypedInv, PTL DEF Spec
=============================================================================
