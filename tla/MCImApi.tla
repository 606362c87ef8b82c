------------------------------ MODULE MCImApi ------------------------------
(* fbterm_ucimf, whose callbacks announce no window, and a server as          *)
(* immessage.h describes it.                                                  *)
EXTENDS ImApi
Drawing == {"Active", "Deactive", "SendKey", "CursorPosition", "ShowUI"}
Both == {[announces |-> {}, maxSent |-> 7], [announces |-> Drawing, maxSent |-> 5]}
DrawingOnly == {[announces |-> Drawing, maxSent |-> 6]}
=============================================================================
