------------------------------ MODULE Loading ------------------------------
(***************************************************************************)
(* What is loaded before the first key: scanImf (libucimf/src/ucimf.cpp)    *)
(* loads the input method frameworks, and OpenVanilla's constructor         *)
(* (ucimf-openvanilla/src/ovimf.cpp) its input methods.  A directory is the *)
(* sequence of its files that are named ".so", in the order readdir or      *)
(* alphasort gives; scanImf and OVImf skip the others.                      *)
(***************************************************************************)
EXTENDS Integers, Sequences, SequencesExt

Kinds == {"ov", "chewing", "sunpinyin", "dummy"}

\* A file of the frameworks' directory: whether the library opens, whether it has
\* createImf and destroyImf, and whose it is.  A missing destroyImf is only logged.
FrameworkFiles ==
    [opens : BOOLEAN, createImf : BOOLEAN, destroyImf : BOOLEAN, kind : Kinds]

IsFramework(file) == file.opens /\ file.createImf

\* Mutated form: create_imf is looked up once.
CreatesFirst(directory, i, n) ==
    i \in 1..n /\ directory[i].opens /\ \A j \in 1..(i - 1) : ~directory[j].opens

\* At the n-th file, create_imf is that of the last one that has opened: one that
\* does not leaves it as it was, so the framework before it is entered once more.
Creates(directory, i, n) ==
    i \in 1..n /\ directory[i].opens /\ \A j \in (i + 1)..n : ~directory[j].opens

\* create_imf is called even if it is NULL.
ScanCrashes(directory) ==
    \E n \in DOMAIN directory :
        ~\E i \in 1..n : Creates(directory, i, n) /\ directory[i].createImf

\* imfs after scanImf, if it returns.
scanImf(directory) ==
    [n \in DOMAIN directory |-> directory[CHOOSE i \in 1..n : Creates(directory, i, n)].kind]

\* A file of OpenVanilla's directory: also, whether its version is the current one,
\* and its modules.
ModuleFiles ==
    [opens : BOOLEAN, symbols : BOOLEAN, current : BOOLEAN,
     modules : Seq([name : STRING, type : STRING])]

\* What OVImf::OVImf pushes on mod_vector: module m[2] of the directory's file m[1].
\* The order, backwards through the directory, is left out: the front end knows an
\* input method by its index only.
mod_vector(directory) ==
    {m \in UNION {{i} \X DOMAIN directory[i].modules : i \in DOMAIN directory} :
        LET file == directory[m[1]]
        IN  /\ file.opens /\ file.symbols /\ file.current
            /\ file.modules[m[2]].type = "OVInputMethod"}
=============================================================================
