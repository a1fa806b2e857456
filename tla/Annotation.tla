----------------------------- MODULE Annotation -----------------------------
(***************************************************************************)
(* AnnotationPass (src/src/Annotation.cc): before the global passes, main    *)
(* gives the loads and stores of integers and function pointers the          *)
(* identifier of what they access, replaces the integer arguments of a       *)
(* function by calls that carry theirs, and marks taint sources and the      *)
(* sizes that are passed to an allocation.                                  *)
(***************************************************************************)
EXTENDS Ids, SequencesExt

CONSTANTS
    Sys,     \* the functions whose name starts with "sys_"
    Allocs   \* the table of annotateSink: pairs of a name and a position

NoFn == [name |-> "(none)"]
NoStruct == [name |-> "(none)", fields |-> 0]
NotConstant == -1

KintTaint == "__kint_taint"
Syscall == "syscall"

\* The call that stands for an argument, by the integer type it is of.
KintArg(m) == [name |-> "kint_arg.i32", mod |-> m, ext |-> TRUE, body |-> FALSE]

(* A function is [fn, vararg, params, code].  A parameter has the label of   *)
(* the call that would stand for it and says whether it is an integer.  An   *)
(* instruction:                                                              *)
(*   label       its name, an integer                                        *)
(*   op, ops     "load", "store", "return", "call" or "other"; its operands  *)
(*   ptr         what a load or store accesses: a variable [at, gv], a field *)
(*               [at, sty, offset] or something else; scalar: an integer or  *)
(*               a function pointer                                          *)
(*   callee      of a direct call; callees is what the call graph says       *)
(*   called      the value an indirect call goes through, or a constant      *)
(*   desc        the first argument of a call of __kint_taint                *)
(*   strip       its value without pointer casts, asm: inline assembly       *)
(*   sty         the struct it yields a pointer to                           *)
(*   id, src, sink   what is annotated: initially nothing                    *)

Yield(m, l) == [kind |-> "instr", m |-> m, i |-> l]
Arg(f, n) == [kind |-> "arg", fn |-> f, no |-> n]

Operands(I) == {I.ops[j] : j \in DOMAIN I.ops}
Uses(F, v) == \E j \in DOMAIN F.code : v \in Operands(F.code[j])

----------------------------------------------------------------------------
(* annotateArguments *)

Needed(F, n) == ~F.vararg /\ F.params[n + 1].int /\ Uses(F, Arg(F.fn, n))

Substitute(m, F, v) ==
    IF v.kind = "arg" /\ v.fn = F.fn /\ Needed(F, v.no)
    THEN Yield(m, F.params[v.no + 1].label) ELSE v

ArgumentCall(m, F, n) ==
    LET self == Yield(m, F.params[n + 1].label)
    IN [label |-> self.i, op |-> "call", ops |-> <<>>, ptr |-> [at |-> "none"],
        callee |-> KintArg(m), callees |-> {KintArg(m)}, called |-> [kind |-> "const"],
        desc |-> "", strip |-> self,
        asm |-> FALSE, sty |-> NoStruct, id |-> ArgId(F.fn, n), src |-> {}, sink |-> FALSE]

\* Each call is put first in its turn, so that the last argument comes first.
annotateArguments(m, F) ==
    LET used == SelectSeq([n \in DOMAIN F.params |-> n - 1], LAMBDA n : Needed(F, n))
        calls == [j \in DOMAIN used |-> ArgumentCall(m, F, used[j])]
        rest == [j \in DOMAIN F.code |->
                   [F.code[j] EXCEPT !.ops = [x \in DOMAIN @ |-> Substitute(m, F, @[x])],
                                     !.strip = Substitute(m, F, @)]]
    IN [F EXCEPT !.code = Reverse(calls) \o rest]

----------------------------------------------------------------------------
(* annotateLoadStore *)

getAnnotation(m, p) ==
    CASE p.at = "var" -> VarId(p.gv)
      [] p.at = "field" /\ p.offset # NotConstant -> StructId(p.sty, m, p.offset)
      [] OTHER -> NoId

annotateLoadStore(m, I) ==
    IF I.op \in {"load", "store"} /\ I.ptr.scalar THEN
        LET anno == getAnnotation(m, I.ptr) IN IF anno = NoId THEN I.id ELSE anno
    ELSE I.id

----------------------------------------------------------------------------
(* annotateTaintSource, annotateSink *)

IsCallOf(I, name) == I.op = "call" /\ I.callee # NoFn /\ I.callee.name = name

IsArgument(I) == I.op = "call" /\ I.callee # NoFn /\ I.callee.name = "kint_arg.i32"

\* What the call at j is told of is marked: a value, and the call if it is used.
Marked(m, F, j) ==
    LET I == F.code[j]
        self == Yield(m, I.label)
    IN IF IsArgument(I) /\ F.fn \in Sys THEN {self}
       ELSE IF IsCallOf(I, KintTaint)
       THEN {v \in {I.ops[2]} : v.kind = "instr"}
              \cup (IF Uses(F, self) THEN {self} ELSE {})
       ELSE {}

Description(I) == IF IsArgument(I) THEN Syscall ELSE I.desc

\* Without keeping what an earlier run has marked.
annotateTaintSourceAnew(m, F, I) ==
    {Description(F.code[j]) : j \in {n \in DOMAIN F.code : Yield(m, I.label) \in Marked(m, F, n)}}

\* The last mark wins; what was marked by an earlier run stays otherwise.
annotateTaintSource(m, F, I) ==
    LET marking == {j \in DOMAIN F.code : Yield(m, I.label) \in Marked(m, F, j)}
    IN IF marking = {} THEN I.src ELSE {Description(F.code[Max(marking)])}

\* Of the positions of a function in the table the first one whose argument is
\* an instruction: only that is marked.
SinkOf(I) ==
    LET matches == {k \in DOMAIN Allocs :
                      IsCallOf(I, Allocs[k][1]) /\ I.ops[Allocs[k][2]].kind = "instr"}
    IN IF matches = {} THEN {} ELSE {I.ops[Allocs[Min(matches)][2]]}

annotateSink(m, F, I) ==
    I.sink \/ \E j \in DOMAIN F.code : Yield(m, I.label) \in SinkOf(F.code[j])

\* A call of __kint_taint whose result is not used.
Erased(m, F, I) == IsCallOf(I, KintTaint) /\ ~Uses(F, Yield(m, I.label))

runOnFunction(m, F) ==
    LET G == annotateArguments(m, F)
        marked ==
          [j \in DOMAIN G.code |->
             [G.code[j] EXCEPT !.id = annotateLoadStore(m, G.code[j]),
                               !.src = annotateTaintSource(m, G, G.code[j]),
                               !.sink = annotateSink(m, G, G.code[j])]]
    IN [G EXCEPT !.code = SelectSeq(marked, LAMBDA I : ~Erased(m, G, I))]

----------------------------------------------------------------------------
(* The annotated instruction, as TaintPass looks at it: getValueId, and the  *)
(* identifiers of the fields of the struct it points to                      *)

InstrAt(F, l) == F.code[CHOOSE j \in DOMAIN F.code : F.code[j].label = l]

\* What an indirect call goes through, without the prefix that tells the two apart.
Unprefixed(id) == id

\* "ret." is prefixed to an identifier, unless it is the empty one.
Prefixed(id) == IF id = NoId THEN NoId ELSE [id EXCEPT !.kind = <<"ret">> \o @]

\* An indirect call has the identifier of what it goes through: all calls through
\* one field share it.
RECURSIVE getValueId(_, _)
getValueId(F, v) ==
    CASE v.kind = "arg" -> ArgId(v.fn, v.no)
      [] v.kind = "const" -> NoId
      [] OTHER ->
           LET I == InstrAt(F, v.i) IN
           IF I.op # "call" \/ IsArgument(I) THEN I.id
           ELSE IF I.callee # NoFn THEN RetId(I.callee)
           ELSE Prefixed(getValueId(F, I.called))

Fields(m, I) == {StructId(I.sty, m, n) : n \in 0..(I.sty.fields - 1)}

ForTaint(m, F) ==
    [j \in DOMAIN F.code |->
       LET I == F.code[j] IN
       [label |-> I.label, op |-> IF I.op = "load" THEN "other" ELSE I.op,
        fn |-> F.fn, ops |-> I.ops, id |-> getValueId(F, Yield(m, I.label)), strip |-> I.strip,
        callees |-> I.callees, asm |-> I.asm, src |-> I.src, fields |-> Fields(m, I)]]

\* A program is a sequence of modules, each a sequence of functions.
Annotate(raw) == [m \in DOMAIN raw |-> [f \in DOMAIN raw[m] |-> runOnFunction(m, raw[m][f])]]

Analysed(annotated) ==
    [m \in DOMAIN annotated |->
        FlattenSeq([f \in DOMAIN annotated[m] |-> ForTaint(m, annotated[m][f])])]
=============================================================================
