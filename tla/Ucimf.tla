------------------------------- MODULE Ucimf -------------------------------
(***************************************************************************)
(* The front end of libucimf (ucimf.cpp) with the input method frameworks   *)
(* (imfs) it loads: OpenVanilla, chewing, sunpinyin and the dummy sample.   *)
(* They share the three widgets and keep their own composition.  The        *)
(* libraries behind them are external: while they have control (call) they  *)
(* do what their interfaces allow, in any order, and they may fault.        *)
(*                                                                         *)
(* A character is the number of the append that produced it, so that no two *)
(* are alike.  Where widgets are drawn is the matter of module Cwm, which   *)
(* keys and characters there are of module Keyboard.                        *)
(***************************************************************************)
EXTENDS Loading, FiniteSets

CONSTANTS
    Directories,    \* what may be installed: [frameworks, modules], each a directory
    Raw,            \* the host gives raw key codes (fbterm_ucimf), not bytes
    MaxTyped,       \* bound: the characters appended
    MaxReceived,    \* bound: the characters after which no more keys are tried
    MaxFaults       \* bound: the faults of the libraries

ASSUME DirectoriesAssumption ==
    \A d \in Directories :
        /\ d.frameworks \in Seq(FrameworkFiles)
        /\ d.modules \in Seq(ModuleFiles)
ASSUME NumbersAssumption == {MaxTyped, MaxReceived, MaxFaults} \subseteq Nat
ASSUME RawAssumption == Raw \in BOOLEAN

VARIABLES
    installed,      \* the directories
    imfs,           \* what scanImf has found
    Ims,            \* the number of OpenVanilla's input methods: of mod_vector
    focus,          \* Cwm::_focus
    current_imf,    \* the index of imf in imfs
    stts,           \* the framework and the input method the status bar names
    prdt,           \* the text of the preedit widget
    lkc,            \* who has filled the candidate widget
    comp,           \* the text each framework is composing
    commit,         \* commit_buf of each framework; of chewing, whose commit_buf is
                    \* full only while a key ends, the text libchewing keeps
    current_module, \* OpenVanilla's input method ...
    current_im_name,\* ... and the one it names
    cxt,            \* its context: "none", "live" or "deleted"
    call,           \* which call the library has control in: "none", "key", "switch"
    acted,          \* it has done what it does once in a call
    typed,          \* the number of characters appended
    sent,           \* what the libraries have committed
    received,       \* what the host has got
    faults,
    blocked,        \* the fault signal is blocked
    dead            \* the process has been killed

loaded == <<installed, imfs, Ims>>
front == <<focus, current_imf, stts>>
ovim == <<current_module, current_im_name, cxt>>
texts == <<prdt, comp>>
delivery == <<commit, acted, sent, received>>
trap == <<faults, blocked, dead>>
vars == <<loaded, front, texts, lkc, ovim, call, delivery, typed, trap>>

imf == imfs[current_imf]
Nobody == <<"none", 0>>

\* Who fills the candidates: OpenVanilla for one of its input methods.
Owner == <<imf, IF imf = "ov" THEN current_module ELSE 0>>

Idle == call = "none" /\ ~dead

-----------------------------------------------------------------------------
(* Switching.                                                                *)

\* What refresh makes the status bar name, and the dummy's page of notes.
Named(e) == <<e, IF e = "ov" THEN current_im_name ELSE 0>>
NotesOr(other, e) == IF e = "dummy" THEN <<"dummy", 0>> ELSE other

\* F12 of ucimf_switch; fbterm_ucimf does it for Active and Deactive.
Toggle ==
    /\ Idle
    /\ focus' = ~focus
    /\ stts' = Named(imf)
    /\ lkc' = NotesOr(lkc, imf)
    /\ UNCHANGED <<current_imf, texts, ovim, call, delivery, typed, trap>>

\* Mutated forms: the preedit is not cleared; the new framework is not asked to
\* refresh.
NextImfKeepsPreedit ==
    /\ Raw /\ Idle
    /\ current_imf' = (current_imf % Len(imfs)) + 1
    /\ stts' = Named(imfs[current_imf'])
    /\ lkc' = NotesOr(Nobody, imfs[current_imf'])
    /\ UNCHANGED <<focus, texts, ovim, call, delivery, typed, trap>>

NextImfUnrefreshed ==
    /\ Raw /\ Idle
    /\ current_imf' = (current_imf % Len(imfs)) + 1
    /\ prdt' = <<>>
    /\ stts' = Nobody
    /\ lkc' = Nobody
    /\ UNCHANGED <<focus, comp, ovim, call, delivery, typed, trap>>

\* F9 of ucimf_process_raw: the widgets are cleared, the framework keeps what
\* it is composing, whether the focus is on or not.
NextImf ==
    /\ Raw /\ Idle
    /\ current_imf' = (current_imf % Len(imfs)) + 1
    /\ prdt' = <<>>
    /\ stts' = Named(imfs[current_imf'])
    /\ lkc' = NotesOr(Nobody, imfs[current_imf'])
    /\ UNCHANGED <<focus, comp, ovim, call, delivery, typed, trap>>

\* Mutated form: one module too far.
NextModulePastEnd(m) == IF m + 1 > Ims THEN 0 ELSE m + 1

NextModule(m) == IF m + 1 >= Ims THEN 0 ELSE m + 1
PreviousModule(m) == IF m - 1 < 0 THEN Ims - 1 ELSE m - 1

\* OVImf::switch_im and switch_im_reverse up to im->initialize, where the
\* library of the new input method gets control; the other frameworks' are
\* empty.
SwitchTo(module) ==
    /\ Idle /\ focus
    /\ imf = "ov" /\ Ims > 0
    /\ current_module' = module
    /\ cxt' = "deleted"
    /\ call' = "switch"
    /\ acted' = FALSE
    /\ UNCHANGED <<front, texts, lkc, current_im_name, commit, sent, received, typed>>
    /\ UNCHANGED trap

\* F11 and F10, or Ctrl with the left and the right Shift.  Without the focus they
\* set it, which FbTerm never lets happen: it sends keys while the focus is on
\* (StateAgrees of module ImApi).
SwitchIm == SwitchTo(NextModule(current_module))
SwitchImReverse == SwitchTo(PreviousModule(current_module))

\* Mutated form: the candidates are not cleared.
SwitchEndsListed ==
    /\ call = "switch"
    /\ call' = "none"
    /\ cxt' = "live"
    /\ current_im_name' = current_module
    /\ stts' = <<"ov", current_module>>
    /\ prdt' = <<>>
    /\ comp' = [comp EXCEPT !["ov"] = <<>>]
    /\ UNCHANGED <<focus, current_imf, lkc, current_module, delivery, typed, trap>>

\* The new context has started: the rest of switch_im.
SwitchEnds ==
    /\ call = "switch"
    /\ call' = "none"
    /\ cxt' = "live"
    /\ current_im_name' = current_module
    /\ stts' = <<"ov", current_module>>
    /\ prdt' = <<>>
    /\ lkc' = Nobody
    /\ comp' = [comp EXCEPT !["ov"] = <<>>]
    /\ UNCHANGED <<focus, current_imf, current_module, delivery, typed, trap>>

-----------------------------------------------------------------------------
(* A key.                                                                    *)

\* Backspace, Return, Left and Right pass OpenVanilla and sunpinyin by as long as
\* they compose nothing.
PassesBy(edit) == edit /\ imf \in {"ov", "sunpinyin"} /\ comp[imf] = <<>>

\* ucimf_process_stdin and ucimf_process_raw give a key to the framework while
\* the focus is on.  The others are back at the host at once, changing nothing:
\* without the focus, those that pass by, those the dummy echoes, and those that
\* OpenVanilla swallows when it has no input method.
Key(edit) ==
    /\ Idle /\ focus
    /\ imf # "dummy"
    /\ imf = "ov" => Ims > 0
    /\ ~PassesBy(edit)
    /\ Len(received) < MaxReceived
    /\ call' = "key"
    /\ acted' = FALSE
    /\ UNCHANGED <<front, texts, lkc, ovim, commit, sent, received, typed, trap>>

\* A new context in cxt->start, or one in keyEvent, has the same interfaces.
InOv == call # "none" /\ imf = "ov"

\* OVImfBuffer.
AppendText ==
    /\ InOv
    /\ typed < MaxTyped
    /\ typed' = typed + 1
    /\ prdt' = Append(prdt, typed')
    /\ comp' = [comp EXCEPT !["ov"] = Append(@, typed')]
    /\ UNCHANGED <<front, lkc, ovim, call, delivery, trap>>

Clear ==
    /\ InOv
    /\ prdt' = <<>>
    /\ comp' = [comp EXCEPT !["ov"] = <<>>]
    /\ UNCHANGED <<front, lkc, ovim, call, delivery, typed, trap>>

\* send, which input methods call once in a keyEvent, with some text: a second
\* one would replace the text of the first in commit_buf.
SendBuffer ==
    /\ InOv /\ call = "key" /\ ~acted
    /\ comp["ov"] # <<>>
    /\ acted' = TRUE
    /\ commit' = [commit EXCEPT !["ov"] = comp["ov"]]
    /\ sent' = sent \o comp["ov"]
    /\ prdt' = <<>>
    /\ comp' = [comp EXCEPT !["ov"] = <<>>]
    /\ UNCHANGED <<front, lkc, ovim, call, received, typed, trap>>

\* OVImfCandidate.
ListCandidates ==
    /\ InOv
    /\ lkc' \in {Owner, Nobody}
    /\ UNCHANGED <<front, texts, ovim, call, delivery, typed, trap>>

\* chewing: one chewing_handle call, by which libchewing may commit what has been
\* composed first.  It keeps that text, in place of the last, until the next such
\* call.
ChewingActs(text) ==
    /\ call = "key" /\ imf = "chewing" /\ ~acted
    /\ acted' = TRUE
    /\ \E n \in 0..Len(text) :
        /\ commit' = [commit EXCEPT !["chewing"] = SubSeq(text, 1, n)]
        /\ comp' = [comp EXCEPT !["chewing"] = SubSeq(text, n + 1, Len(text))]
        /\ sent' = sent \o SubSeq(text, 1, n)
    /\ UNCHANGED <<front, prdt, lkc, ovim, call, received, trap>>

ChewingTypes ==
    /\ typed < MaxTyped
    /\ typed' = typed + 1
    /\ ChewingActs(Append(comp["chewing"], typed'))

\* Enter commits, the cursor keys move, and Esc drops the composition.
ChewingHandles == ChewingActs(comp["chewing"]) /\ UNCHANGED typed
ChewingEscapes == ChewingActs(<<>>) /\ UNCHANGED typed

\* sunpinyin: the session calls updatePreedit, updateCandidates and commit back.
SunpinyinUpdates(text) ==
    /\ call = "key" /\ imf = "sunpinyin"
    /\ prdt' = text
    /\ comp' = [comp EXCEPT !["sunpinyin"] = text]
    /\ UNCHANGED <<front, ovim, call, received, trap>>

SunpinyinTypes ==
    /\ typed < MaxTyped
    /\ typed' = typed + 1
    /\ SunpinyinUpdates(Append(comp["sunpinyin"], typed'))
    /\ lkc' \in {Owner, Nobody}
    /\ UNCHANGED <<commit, acted, sent>>

SunpinyinCommits ==
    /\ ~acted
    /\ acted' = TRUE
    /\ commit' = [commit EXCEPT !["sunpinyin"] = comp["sunpinyin"]]
    /\ sent' = sent \o comp["sunpinyin"]
    /\ SunpinyinUpdates(<<>>)
    /\ lkc' = Nobody
    /\ UNCHANGED typed

\* How chewing's text is shown: _utf32_to_str returns a pointer into a string that
\* is destroyed, and whatever is there by then is shown in place of a character.
Overwritten == 0
Shown(text) == {text, [i \in DOMAIN text |-> Overwritten]}

\* Mutated forms: commit_buf is not emptied; it waits for the composition to end.
KeyEndsUndrained ==
    /\ call = "key"
    /\ call' = "none"
    /\ received' = received \o commit[imf]
    /\ IF imf = "chewing"
       THEN prdt' \in Shown(comp["chewing"]) /\ lkc' \in {Owner, Nobody}
       ELSE UNCHANGED <<prdt, lkc>>
    /\ UNCHANGED <<front, comp, ovim, commit, acted, sent, typed, trap>>

KeyEndsLate ==
    /\ call = "key"
    /\ call' = "none"
    /\ IF comp[imf] = <<>>
       THEN /\ received' = received \o commit[imf]
            /\ commit' = IF imf = "chewing" THEN commit ELSE [commit EXCEPT ![imf] = <<>>]
       ELSE UNCHANGED <<received, commit>>
    /\ IF imf = "chewing"
       THEN prdt' \in Shown(comp["chewing"]) /\ lkc' \in {Owner, Nobody}
       ELSE UNCHANGED <<prdt, lkc>>
    /\ UNCHANGED <<front, comp, ovim, acted, sent, typed, trap>>

\* The rest of process_input: the host gets what is in commit_buf.  chewing fills
\* the widgets and commit_buf from libchewing first, also after a key it has made
\* no chewing_handle call for, as for PgUp and PgDn.
KeyEnds ==
    /\ call = "key"
    /\ call' = "none"
    /\ received' = received \o commit[imf]
    /\ commit' = IF imf = "chewing" THEN commit ELSE [commit EXCEPT ![imf] = <<>>]
    /\ IF imf = "chewing"
       THEN prdt' \in Shown(comp["chewing"]) /\ lkc' \in {Owner, Nobody}
       ELSE UNCHANGED <<prdt, lkc>>
    /\ UNCHANGED <<front, comp, ovim, acted, sent, typed, trap>>

-----------------------------------------------------------------------------
(* _TRAP: the call ends where it is.                                         *)

Faults ==
    /\ call # "none"
    /\ faults < MaxFaults
    /\ faults' = faults + 1
    /\ call' = "none"
    /\ UNCHANGED <<front, texts, lkc, ovim, delivery, typed>>

\* catch( ... )
Throw == Faults /\ UNCHANGED <<blocked, dead>>

\* SIGSEGV, SIGFPE or SIGILL: the handler leaves with longjmp.  glibc's setjmp
\* keeps no signal mask, so the signal stays blocked as it is in a handler, and
\* the kernel kills a process that faults with the signal blocked.
Signal ==
    /\ Faults
    /\ blocked' = TRUE
    /\ dead' = blocked

-----------------------------------------------------------------------------
\* ucimf_init.  OpenVanilla, when it is loaded, refreshes the status bar, though
\* it need not be the first of imfs.  ucimf_init takes the first one whether there
\* is one or not; a fault ends the host, for nothing traps it yet.
Init ==
    /\ installed \in Directories
    /\ IF ScanCrashes(installed.frameworks)
       THEN imfs = <<>> /\ dead = TRUE
       ELSE imfs = scanImf(installed.frameworks) /\ dead = (imfs = <<>>)
    /\ Ims = Cardinality(mod_vector(installed.modules))
    /\ focus = FALSE
    /\ current_imf = 1
    /\ stts = IF "ov" \in ToSet(imfs) /\ Ims > 0 THEN <<"ov", 0>> ELSE Nobody
    /\ prdt = <<>>
    /\ lkc = Nobody
    /\ comp = [e \in Kinds |-> <<>>]
    /\ commit = [e \in Kinds |-> <<>>]
    /\ current_module = 0
    /\ current_im_name = 0
    /\ cxt = IF "ov" \in ToSet(imfs) /\ Ims > 0 THEN "live" ELSE "none"
    /\ call = "none"
    /\ acted = FALSE
    /\ typed = 0
    /\ sent = <<>>
    /\ received = <<>>
    /\ faults = 0
    /\ blocked = FALSE

FrontNext == Toggle \/ NextImf \/ SwitchIm \/ SwitchImReverse \/ \E edit \in BOOLEAN : Key(edit)

LibraryNext ==
    \/ AppendText \/ Clear \/ SendBuffer \/ ListCandidates
    \/ ChewingTypes \/ ChewingHandles \/ ChewingEscapes
    \/ SunpinyinTypes \/ SunpinyinCommits
    \/ SwitchEnds \/ KeyEnds

Next == (FrontNext \/ LibraryNext \/ Throw \/ Signal) /\ UNCHANGED loaded

Spec == Init /\ [][Next]_vars

-----------------------------------------------------------------------------
(* Properties.                                                               *)

\* The variables keep their types: current_imf and current_module, which index
\* imfs and mod_vector unchecked, stay in range, whichever way they go round.
TypeOK ==
    /\ {focus, acted, blocked, dead} \subseteq BOOLEAN
    /\ imfs \in Seq(Kinds) /\ Ims \in Nat
    /\ current_imf \in 1..Len(imfs) \/ dead
    /\ {stts, lkc} \subseteq (Kinds \union {"none"}) \X Nat
    /\ prdt \in Seq(0..MaxTyped)
    /\ {sent, received} \subseteq Seq(1..MaxTyped)
    /\ comp \in [Kinds -> Seq(1..MaxTyped)]
    /\ commit \in [Kinds -> Seq(1..MaxTyped)]
    /\ {current_module, current_im_name} \subseteq 0..(IF Ims = 0 THEN 0 ELSE Ims - 1)
    /\ cxt \in {"none", "live", "deleted"}
    /\ call \in {"none", "key", "switch"}
    /\ typed \in 0..MaxTyped
    /\ faults \in 0..MaxFaults

\* Between calls, none of which has faulted: a fault leaves a framework where it
\* was, which OnlyChewingRepeats and ContextAlive are about.
Untroubled == Idle /\ faults = 0

\* What can be reached with F9 is just what is installed and loads, though a file
\* that does not load lets a framework appear twice.
Loaded ==
    ~dead => ToSet(imfs) = {file.kind : file \in {f \in ToSet(installed.frameworks) : IsFramework(f)}}

\* The preedit widget, which all frameworks share, never shows text of another
\* framework nor text that has been committed or dropped: what it shows is the
\* end of what the current framework is composing, up to the characters chewing
\* loses.  (After F9 and back, the beginning may be missing.)
PreeditIsCurrent ==
    Untroubled =>
        \E text \in {comp[imf]} \union (IF imf = "chewing" THEN Shown(comp[imf]) ELSE {}) :
            IsSuffix(prdt, text)

\* The candidates on display are those of the current framework and input
\* method, for these are the ones the next digit picks from.
CandidatesAreCurrent == Untroubled => lkc \in {Owner, Nobody}

\* While the input method is on, the status bar names the framework and the
\* input method that get the next key.
StatusIsCurrent == Untroubled /\ focus => stts = Owner

\* Between calls, the host has received all that the frameworks have committed, and
\* in that order, whichever way it has switched: what has come so far is always what
\* was committed first.  (chewing repeats text, which then adds nothing.)
CommitDelivered ==
    Untroubled =>
        /\ ToSet(received) = ToSet(sent)
        /\ \A n \in 0..Len(received) : \E m \in 0..Len(sent) :
             ToSet(SubSeq(received, 1, n)) = ToSet(SubSeq(sent, 1, m))

\* The text the host gets in a step.
Delivered == SubSeq(received', Len(received) + 1, Len(received'))

\* Even with faults, which end a call anywhere, the host gets what was committed and
\* no character a second time, but from chewing at a key that it does not handle.
OnlyChewingRepeats ==
    [][received' # received =>
        /\ ToSet(Delivered) \subseteq ToSet(sent)
        /\ Cardinality(ToSet(Delivered)) = Len(Delivered)
        /\ ToSet(Delivered) \cap ToSet(received) # {} => imf = "chewing" /\ ~acted]_vars

\* A key never goes to an input method context that has been deleted.
ContextAlive == call = "key" /\ imf = "ov" => cxt = "live"
=============================================================================
