------------------------------ MODULE MCUcimf ------------------------------
(* What may be installed: all frameworks, in an order in which OpenVanilla,   *)
(* whose status bar is the one shown first, is not the first of imfs, with    *)
(* three input methods; two with a broken library behind the first of them;   *)
(* a library of something else; nothing; and OpenVanilla by itself.           *)
EXTENDS Ucimf
File(opens, createImf, destroyImf, kind) ==
    [opens |-> opens, createImf |-> createImf, destroyImf |-> destroyImf, kind |-> kind]
Good(kind) == File(TRUE, TRUE, TRUE, kind)
CreatesOnly(kind) == File(TRUE, TRUE, FALSE, kind)
Broken == File(FALSE, FALSE, FALSE, "dummy")
Foreign == File(TRUE, FALSE, TRUE, "dummy")

Im(name) == [name |-> name, type |-> "OVInputMethod"]
Filter == [name |-> "filter", type |-> "OVOutputFilter"]
Library(opens, current, modules) ==
    [opens |-> opens, symbols |-> TRUE, current |-> current, modules |-> modules]
ThreeIms == <<Library(TRUE, TRUE, <<Im("a"), Filter, Im("b")>>), Library(FALSE, TRUE, <<Im("c")>>),
              Library(TRUE, FALSE, <<Im("d")>>), Library(TRUE, TRUE, <<Im("e")>>)>>
TwoIms == <<Library(TRUE, TRUE, <<Im("a"), Filter, Im("b")>>)>>

AllDirectories ==
    {[frameworks |-> <<Good("chewing"), Good("ov"), CreatesOnly("sunpinyin"), Good("dummy")>>,
      modules |-> ThreeIms],
     [frameworks |-> <<Good("ov"), Broken, Good("chewing")>>, modules |-> TwoIms],
     [frameworks |-> <<Good("chewing"), Foreign, Good("ov")>>, modules |-> <<>>],
     [frameworks |-> <<Broken>>, modules |-> <<>>],
     [frameworks |-> <<>>, modules |-> <<>>]}
OvOnly == {[frameworks |-> <<Good("ov")>>, modules |-> TwoIms]}
=============================================================================
