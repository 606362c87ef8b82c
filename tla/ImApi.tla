------------------------------- MODULE ImApi -------------------------------
(***************************************************************************)
(* The message library of the FbTerm host (patches/fbterm/imapi.c), between *)
(* FbTerm and the callbacks of an input method server.  FbTerm is another   *)
(* program, modelled from immessage.h.  fbterm_ucimf.cpp is a server whose  *)
(* callbacks never announce a window (it announces {}).  The servers that   *)
(* immessage.h describes call set_im_window inside their callbacks, which   *)
(* waits for AckWin and keeps whatever else arrives in pending_msg_buf.     *)
(*                                                                         *)
(* The socket pair loses nothing and keeps the order.  A read takes all     *)
(* that has arrived; the 10240 bytes of a buffer are never exceeded.        *)
(***************************************************************************)
EXTENDS Integers, Sequences, SequencesExt

CONSTANTS
    Servers         \* the servers there may be, each [announces, maxSent]:
                    \*   the callbacks that call set_im_window, and as a bound
                    \*   the messages FbTerm sends it of its own accord

\* The callbacks that draw, and the one that erases.
ASSUME ServersAssumption ==
    \A s \in Servers :
        /\ s.announces \subseteq {"Active", "Deactive", "SendKey", "CursorPosition", "ShowUI"}
        /\ s.maxSent \in Nat

VARIABLES
    server,         \* which one it is
    fbterm,         \* "off", "on", "hiding" (waits for AckHideUI), "away", "gone"
    area,           \* FbTerm spares the area of the server's window
    sent,           \* how many messages FbTerm has sent of its own accord
    toServer,       \* the socket, towards the server
    toFbterm,       \* the socket, towards FbTerm
    phase,          \* where check_im_message is
    batch,          \* what process_messages has still to process
    pending,        \* pending_msg_buf
    waiting,        \* the message whose callback is in wait_message, or "none"
    imfd,           \* the socket is open
    im_active,      \* imapi.c:35
    focus,          \* Cwm::_focus, which im_active and im_deactive toggle
    drawn           \* a server that announces its window has drawn it

terminal == <<server, fbterm, area, sent>>
library == <<phase, batch, pending, waiting, imfd>>
ui == <<im_active, focus, drawn>>
vars == <<terminal, toServer, toFbterm, library, ui>>

FromFbterm == {"Active", "Deactive", "SendKey", "CursorPosition", "ShowUI", "HideUI",
               "Disconnect", "AckWin", "AckPing"}
FromServer == {"SetWin", "Unset", "PutText", "Ping", "AckHideUI"}
Callbacks == {"Active", "Deactive", "SendKey", "CursorPosition", "ShowUI", "HideUI"}

Msg(type) == [type |-> type, of |-> "none"]

\* The bytes wait_message leaves behind pending_msg_buf's messages: they start
\* with a copy of a message of type "of", or with nothing in particular.
Garbage(of) == [type |-> "Garbage", of |-> of]
Messages == {Msg(t) : t \in FromFbterm} \union {Garbage(t) : t \in FromFbterm \union {"none"}}

-----------------------------------------------------------------------------
(* FbTerm.                                                                   *)

FbtermSends(from, to, types) ==
    /\ fbterm = from
    /\ fbterm' = to
    /\ sent + Len(types) <= server.maxSent
    /\ sent' = sent + Len(types)
    /\ toServer' = toServer \o [i \in 1..Len(types) |-> Msg(types[i])]
    /\ UNCHANGED <<server, area, toFbterm, library, ui>>

SwitchOn == FbtermSends("off", "on", <<"Active", "CursorPosition">>)
SwitchOff == FbtermSends("on", "off", <<"Deactive">>)
Key == FbtermSends("on", "on", <<"SendKey">>)
CursorMoves == FbtermSends("on", "on", <<"CursorPosition">>)
Leave == FbtermSends("on", "hiding", <<"HideUI">>)
Return == FbtermSends("away", "on", <<"ShowUI">>)
Quit == \E from \in {"off", "on", "away"} : FbtermSends(from, "gone", <<"Disconnect">>)

\* FbTerm takes a message of the server, also while it waits for AckHideUI.
FbtermReceives ==
    /\ fbterm # "gone"
    /\ toFbterm # <<>>
    /\ toFbterm' = Tail(toFbterm)
    /\ LET type == Head(toFbterm)
       IN  /\ fbterm' = IF type = "AckHideUI" /\ fbterm = "hiding" THEN "away" ELSE fbterm
           /\ area' = ((area \/ type = "SetWin") /\ type # "Unset")
           /\ toServer' = toServer \o CASE type \in {"SetWin", "Unset"} -> <<Msg("AckWin")>>
                                        [] type = "Ping" -> <<Msg("AckPing")>>
                                        [] OTHER -> <<>>
    /\ UNCHANGED <<server, sent, library, ui>>

-----------------------------------------------------------------------------
(* The callbacks.                                                            *)

\* A write to a closed descriptor fails; one to a FbTerm that is gone raises
\* SIGPIPE, which nothing handles.
Write(types) ==
    /\ toFbterm' = IF imfd THEN toFbterm \o types ELSE toFbterm
    /\ phase' = IF imfd /\ fbterm = "gone" /\ types # <<>> THEN "exit" ELSE phase

\* Mutated form: only a server with a hide_ui callback acknowledges.
AnswersIfCalledBack(type) ==
    CASE type = "HideUI" -> IF im_active /\ server.announces # {} THEN {<<"AckHideUI">>} ELSE {<<>>}
      [] type = "SendKey" /\ im_active -> {<<>>, <<"PutText">>}
      [] OTHER -> {<<>>}

\* Mutated form: ShowUI is acknowledged as well.
AnswersTwice(type) ==
    CASE type \in {"HideUI", "ShowUI"} -> {<<"AckHideUI">>}
      [] type = "SendKey" /\ im_active -> {<<>>, <<"PutText">>}
      [] OTHER -> {<<>>}

\* What a case of process_message writes at its end: a key may yield a text,
\* HideUI is always acknowledged.
Answers(type) ==
    CASE type = "HideUI" -> {<<"AckHideUI">>}
      [] type = "SendKey" /\ im_active -> {<<>>, <<"PutText">>}
      [] OTHER -> {<<>>}

\* process_message calls them while im_active, Active and Deactive always.
Runs(type) == im_active \/ type \in {"Active", "Deactive"}

\* Mutated form: Deactive leaves im_active set.
FinishKeepsActive(type, first) ==
    /\ im_active' = (im_active \/ type = "Active")
    /\ focus' = IF type \in {"Active", "Deactive"} THEN ~focus ELSE focus
    /\ drawn' = IF Runs(type)
                THEN (drawn \/ type \in server.announces) /\ type \notin {"Deactive", "HideUI"}
                ELSE drawn
    /\ \E types \in Answers(type) : Write(first \o types)

\* A case of process_message after set_im_window, if it was called: Active and
\* Deactive toggle the focus (the F12 they give to ucimf_switch), Deactive ends
\* with im_active = 0, a server that announces draws.
Ends(type) ==
    /\ im_active' = ((im_active \/ type = "Active") /\ type # "Deactive")
    /\ focus' = IF type \in {"Active", "Deactive"} THEN ~focus ELSE focus
    /\ drawn' = IF Runs(type)
                THEN (drawn \/ type \in server.announces) /\ type \notin {"Deactive", "HideUI"}
                ELSE drawn

\* What it writes follows what wait_message has written before.
Finish(type, first) ==
    /\ Ends(type)
    /\ \E types \in Answers(type) : Write(first \o types)

-----------------------------------------------------------------------------
(* process_messages and process_message.                                     *)

Processing == phase \in {"pending", "read"} /\ waiting = "none"
Takes(type) == Processing /\ batch # <<>> /\ Head(batch).type = type /\ batch' = Tail(batch)

\* Mutated form: AckWin is not waited for.
AnnounceAtOnce(type) ==
    /\ type \in server.announces /\ Runs(type) /\ imfd
    /\ im_active' = (type # "Deactive")
    /\ focus' = IF type \in {"Active", "Deactive"} THEN ~focus ELSE focus
    /\ drawn' = (type # "Deactive")
    /\ Write(<<IF type = "Deactive" THEN "Unset" ELSE "SetWin">>)
    /\ UNCHANGED waiting

\* set_im_window up to wait_message.  To hide, the server erases its window
\* and announces an empty area.
Announce(type) ==
    /\ type \in server.announces /\ imfd /\ (im_active \/ type = "Active")
    /\ waiting' = type
    /\ im_active' = TRUE
    /\ drawn' = (drawn /\ type # "Deactive")
    /\ Write(<<IF type = "Deactive" THEN "Unset" ELSE "SetWin">>)
    /\ UNCHANGED focus

Process(type) ==
    /\ Takes(type)
    /\ \/ Announce(type)
       \/ /\ ~(type \in server.announces /\ imfd /\ (im_active \/ type = "Active"))
          /\ Finish(type, <<>>)
          /\ UNCHANGED waiting
    /\ UNCHANGED <<terminal, toServer, pending, imfd>>

Disconnect ==
    /\ Takes("Disconnect")
    /\ imfd' = FALSE
    /\ UNCHANGED <<terminal, toServer, toFbterm, phase, pending, waiting, ui>>

\* The default case; AckPing only ends a read.
Ignore ==
    /\ Takes("AckPing")
    /\ UNCHANGED <<terminal, toServer, toFbterm, phase, pending, waiting, imfd, ui>>

\* Bytes behind the last message.  A copied head asks for a whole message: at
\* the end of the buffer nothing happens, otherwise the copy is processed and
\* takes its missing bytes from the next message.  Other bytes pass for a
\* message of any length, 0 included, with which process_messages never ends.
ProcessGarbage ==
    /\ Processing
    /\ batch # <<>>
    /\ Head(batch).type = "Garbage"
    /\ LET of == Head(batch).of
           rest == Tail(batch)
       IN  \/ /\ of # "none"
              /\ batch' = IF rest = <<>> THEN <<>>
                          ELSE <<Msg(of)>>
                               \o (IF Head(rest).type = "SendKey" THEN <<>> ELSE <<Garbage("none")>>)
                               \o Tail(rest)
              /\ UNCHANGED phase
           \/ /\ of = "none"
              /\ \E n \in 0..Len(rest) : batch' = SubSeq(rest, n + 1, Len(rest))
              /\ UNCHANGED phase
           \/ /\ of = "none"
              /\ phase' = "hung"
              /\ UNCHANGED batch
    /\ UNCHANGED <<terminal, toServer, toFbterm, pending, waiting, imfd, ui>>

-----------------------------------------------------------------------------
(* wait_message and check_im_message.                                        *)

\* Mutated form: only the first message of a read is looked at.
AckInFirst(read) == IF Head(read) = Msg("AckWin") THEN 1 ELSE 0

\* Mutated form: the place after it.
AckInNext(read) ==
    IF Msg("AckWin") \in ToSet(read)
    THEN SelectInSeq(read, LAMBDA m : m = Msg("AckWin")) + 1 ELSE 0

\* The place of the first AckWin of a read, 0 if there is none.
AckIn(read) == SelectInSeq(read, LAMBDA m : m = Msg("AckWin"))

\* The read without its AckWin, which FbTerm sends as a whole Message.  The
\* length taken off pending_msg_buf_len is read after memcpy has put the next
\* message in AckWin's place: too small if that is a SendKey, the one message
\* shorter than a Message.
WithoutAck(read, i) ==
    LET after == SubSeq(read, i + 1, Len(read))
        last  == Last(read)
    IN  SubSeq(read, 1, i - 1) \o after
        \o (IF after = <<>> \/ Head(after).type # "SendKey" THEN <<>>
            ELSE <<Garbage(IF last.type = "SendKey" THEN "none" ELSE last.type)>>)

\* A read in wait_message.  After AckWin it asks for a Ping, to be woken up for
\* what is pending, and the callback goes on.
WaitReads ==
    /\ waiting # "none" /\ phase # "exit"
    /\ toServer # <<>>
    /\ toServer' = <<>>
    /\ LET i == AckIn(toServer)
       IN  IF i = 0
           THEN /\ pending' = pending \o toServer
                /\ UNCHANGED <<toFbterm, phase, waiting, ui>>
           ELSE /\ pending' = pending \o WithoutAck(toServer, i)
                /\ waiting' = "none"
                /\ Finish(waiting, IF pending' = <<>> THEN <<>> ELSE <<"Ping">>)
    /\ UNCHANGED <<terminal, batch, imfd>>

\* The end of the file: the callback goes on as if AckWin had come, but what it
\* writes is lost, for the descriptor is closed.
WaitEndOfFile ==
    /\ waiting # "none" /\ phase # "exit"
    /\ fbterm = "gone" /\ toServer = <<>>
    /\ imfd' = FALSE
    /\ waiting' = "none"
    /\ Ends(waiting)
    /\ UNCHANGED <<terminal, toServer, toFbterm, phase, batch, pending>>

\* check_im_message: first what is pending ...
TakePending ==
    /\ phase = "check"
    /\ phase' = CASE ~imfd -> "exit" [] pending # <<>> -> "pending" [] OTHER -> "reading"
    /\ batch' = IF imfd THEN pending ELSE batch
    /\ pending' = IF imfd THEN <<>> ELSE pending
    /\ UNCHANGED <<terminal, toServer, toFbterm, waiting, imfd, ui>>

\* ... then a read, which waits for something to arrive ...
CheckReads ==
    /\ phase = "reading"
    /\ imfd /\ toServer # <<>>
    /\ batch' = toServer
    /\ toServer' = <<>>
    /\ phase' = "read"
    /\ UNCHANGED <<terminal, toFbterm, pending, waiting, imfd, ui>>

CheckEndOfFile ==
    /\ phase = "reading"
    /\ ~imfd \/ (fbterm = "gone" /\ toServer = <<>>)
    /\ imfd' = FALSE
    /\ phase' = "exit"
    /\ UNCHANGED <<terminal, toServer, toFbterm, batch, pending, waiting, ui>>

\* ... and the loop of main() calls it again until it returns 0.
BatchDone ==
    /\ Processing
    /\ batch = <<>>
    /\ phase' = IF phase = "pending" THEN "reading" ELSE "check"
    /\ UNCHANGED <<terminal, toServer, toFbterm, batch, pending, waiting, imfd, ui>>

-----------------------------------------------------------------------------
Init ==
    /\ server \in Servers
    /\ fbterm = "off"
    /\ area = FALSE
    /\ sent = 0
    /\ toServer = <<>>
    /\ toFbterm = <<>>
    /\ phase = "check"
    /\ batch = <<>>
    /\ pending = <<>>
    /\ waiting = "none"
    /\ imfd = TRUE
    /\ im_active = FALSE
    /\ focus = FALSE
    /\ drawn = FALSE

FbtermNext ==
    \/ SwitchOn \/ SwitchOff \/ Key \/ CursorMoves \/ Leave \/ Return \/ Quit

ServerNext ==
    \/ \E type \in Callbacks : Process(type)
    \/ Disconnect \/ Ignore \/ ProcessGarbage
    \/ WaitReads \/ WaitEndOfFile
    \/ TakePending \/ CheckReads \/ CheckEndOfFile \/ BatchDone

Next == FbtermNext \/ FbtermReceives \/ ServerNext

Spec == Init /\ [][Next]_vars

\* The server does nothing but its loop, FbTerm serves the socket from its own
\* loop; nobody is obliged to press a key.
FairSpec == Spec /\ WF_vars(ServerNext) /\ WF_vars(FbtermReceives)

-----------------------------------------------------------------------------
(* Properties.                                                               *)

\* The variables keep their types, and each AckWin is taken by the callback that
\* waits for it: none stays in pending_msg_buf or reaches process_message.
TypeOK ==
    /\ fbterm \in {"off", "on", "hiding", "away", "gone"}
    /\ server \in Servers /\ sent \in 0..server.maxSent
    /\ {area, imfd, im_active, focus, drawn} \subseteq BOOLEAN
    /\ toServer \in Seq(Messages)
    /\ batch \in Seq(Messages \ {Msg("AckWin")}) /\ pending \in Seq(Messages \ {Msg("AckWin")})
    /\ toFbterm \in Seq(FromServer)
    /\ phase \in {"check", "pending", "reading", "read", "exit", "hung"}
    /\ waiting \in Callbacks \union {"none"}

\* Whenever the server waits for messages with none on the way, it is active,
\* and libucimf has the focus, exactly if FbTerm has the input method switched
\* on: immessage.h:80-83 has FbTerm redirect its keys to the server just then.  (Of a
\* server that announces a window the bytes wait_message leaves may cost a message.)
StateAgrees ==
    server.announces = {} /\ phase = "reading" /\ imfd /\ pending = <<>> /\ toServer = <<>> /\ fbterm # "gone" =>
        /\ im_active = (fbterm \in {"on", "hiding", "away"})
        /\ focus = im_active

\* The number of members of T in the sequence s.
HowMany(s, T) == Cardinality({i \in 1..Len(s) : s[i] \in T})

\* FbTerm waits for as many acknowledgements as are on the way: a HideUI is
\* answered once, so that no left over AckHideUI ends a later wait too early.
OneAckPerHide ==
    server.announces = {} /\ phase # "exit" =>
        HowMany(toServer \o batch \o pending, {Msg("HideUI")}) + HowMany(toFbterm, {"AckHideUI"})
            = IF fbterm = "hiding" THEN 1 ELSE 0

\* FbTerm never waits for ever to switch to another console: the server, busy
\* or not, comes to its HideUI and acknowledges it (immessage.h:110-113).
HideAcknowledged == (fbterm = "hiding") ~> (fbterm # "hiding")

\* Nor does it for ever with a server that announces no window, as fbterm_ucimf.
SilentServerAcknowledges ==
    (fbterm = "hiding" /\ server.announces = {}) ~> (fbterm # "hiding")

\* What the server shows lies in an area FbTerm has been told to spare, which
\* is what SetWin and the wait for AckWin are for (immessage.h:52-55).
DrawnWhereAnnounced == drawn /\ phase # "exit" /\ fbterm # "gone" => area

\* set_im_window always returns: AckWin is found wherever it stands among the
\* messages that arrive with it or before it.
WaitEnds == (waiting # "none") ~> (waiting = "none" \/ phase = "exit")
=============================================================================
