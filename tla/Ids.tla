-------------------------------- MODULE Ids --------------------------------
(***************************************************************************)
(* The identifiers that tie one translation unit to another                 *)
(* (src/src/Annotation.h).  intglobal loads every module in an LLVMContext  *)
(* of its own, so no two modules share a Value: the three global passes     *)
(* meet only in maps keyed by these strings, "var.x", "arg.f.0", "ret.f",   *)
(* "struct.s.1".  An identifier is kept as a record of its parts instead of *)
(* the text they are printed to; "ret." may be prefixed to any other        *)
(* identifier, so the kind is a sequence of prefixes.                       *)
(***************************************************************************)
EXTENDS Integers, Sequences

CONSTANTS
    NumModules,  \* the number of modules named on the command line and loaded
    Stem         \* module -> file name without its directory and extension

ASSUME IdsAssumption ==
    /\ NumModules \in Nat
    /\ Stem \in [1..NumModules -> STRING]

ModuleNo == 1..NumModules

\* The stem of an identifier that is not qualified by its module.
NoStem == "(none)"

Id == [kind: Seq({"var", "arg", "ret", "struct"}),
       stem: STRING \cup {NoStem}, name: STRING \cup {NoStem}, no: Nat]

\* What getLoadStoreId and getRetId return when there is no identifier.
NoId == [kind |-> <<>>, stem |-> NoStem, name |-> NoStem, no |-> 0]

\* A global value: a function or a variable.  ext is external linkage, body
\* says that the module holds its definition and not only a declaration.
GlobalValue == [name: STRING, mod: ModuleNo, ext: BOOLEAN, body: BOOLEAN]

\* A value without external linkage is qualified by the stem of its module
\* only: two files of the same name in two directories share their statics.
ScopeStem(gv) == IF gv.ext THEN NoStem ELSE Stem[gv.mod]

VarId(gv) ==
    [kind |-> <<"var">>, stem |-> ScopeStem(gv), name |-> gv.name, no |-> 0]

\* A slip of the argument number, kept to show that TypeOK notices it.
ArgIdOneBased(f, no) ==
    [kind |-> <<"arg">>, stem |-> ScopeStem(f), name |-> f.name, no |-> no - 1]

ArgId(f, no) ==
    [kind |-> <<"arg">>, stem |-> ScopeStem(f), name |-> f.name, no |-> no]

RetId(f) ==
    [kind |-> <<"ret">>, stem |-> ScopeStem(f), name |-> f.name, no |-> 0]

\* A struct is named by its type; an anonymous one is qualified by the stem.
StructId(sty, m, offset) ==
    [kind |-> <<"struct">>, stem |-> IF sty.anon THEN Stem[m] ELSE NoStem,
     name |-> sty.name, no |-> offset]
=============================================================================
