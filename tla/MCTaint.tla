------------------------------ MODULE MCTaint ------------------------------
(***************************************************************************)
(* Small instances of Taint: modules as Clang leaves them, annotated as main *)
(* does before the pass.  The taint a program deserves is defined here on    *)
(* the program before it was annotated: by what its instructions access, not *)
(* by identifiers.                                                          *)
(***************************************************************************)
EXTENDS Taint, Annotation

VARIABLE pick  \* which program it is: see MCRaw

MCStem == <<"a", "b">>

Gv(n, m, e, b) == [name |-> n, mod |-> m, ext |-> e, body |-> b]
taint == Gv(KintTaint, 1, TRUE, FALSE)
kmalloc == Gv("kcalloc", 1, TRUE, FALSE)
f1 == Gv("f", 1, TRUE, TRUE)
g2 == Gv("g", 2, TRUE, TRUE)
h1 == Gv("h", 1, FALSE, TRUE)
sys == Gv("sys_s", 1, TRUE, TRUE)
MCFns == {taint, kmalloc, f1, g2, h1, sys, KintArg(1), KintArg(2)}
MCOpaque == {taint, KintArg(1), KintArg(2)}
MCSys == {sys}
MCAllocs == <<<<"kcalloc", 1>>, <<"kcalloc", 2>>>>

----------------------------------------------------------------------------
(* Programs *)

Const == [kind |-> "const"]
Void == [at |-> "none", scalar |-> FALSE]
x == [at |-> "var", gv |-> Gv("x", 1, TRUE, TRUE), scalar |-> TRUE]
x2 == [at |-> "var", gv |-> Gv("x", 2, TRUE, FALSE), scalar |-> TRUE]
\* Both modules have a variable y of their own.
y(m) == [at |-> "var", gv |-> Gv("y", m, FALSE, TRUE), scalar |-> TRUE]
s == [name |-> "s", anon |-> FALSE, fields |-> 2]
field(n) == [at |-> "field", sty |-> s, offset |-> n, scalar |-> TRUE]
element == [at |-> "element", scalar |-> TRUE]
\* Where function pointers are: an anonymous struct and a static variable, of which
\* both modules have one of their own, and an array.
ops == [name |-> "struct.anon", anon |-> TRUE, fields |-> 2]
Pointers(m) ==
    <<[at |-> "field", sty |-> ops, offset |-> 0, scalar |-> TRUE],
      [at |-> "field", sty |-> ops, offset |-> 1, scalar |-> TRUE],
      [at |-> "var", gv |-> Gv("handler", m, FALSE, TRUE), scalar |-> TRUE], element>>

I(m, l, op, vs) ==
    [label |-> l, op |-> op, ops |-> vs, ptr |-> Void, callee |-> NoFn, callees |-> {},
     called |-> Const, desc |-> "", strip |-> Yield(m, l), asm |-> FALSE, sty |-> NoStruct,
     id |-> NoId, src |-> {}, sink |-> FALSE]
Load(m, l, p) == [I(m, l, "load", <<Const>>) EXCEPT !.ptr = p]
Store(m, l, v, p) == [I(m, l, "store", <<v, Const>>) EXCEPT !.ptr = p]
Plus(m, l, v) == I(m, l, "other", <<Const, v>>)
Cast(m, l, v) == [I(m, l, "other", <<v>>) EXCEPT !.strip = v]
Call(m, l, f, vs) == [I(m, l, "call", vs) EXCEPT !.callee = f, !.callees = {f}]
Indirect(m, l, fs, v, vs) == [I(m, l, "call", vs) EXCEPT !.callees = fs, !.called = v]
TaintCall(l, d, v) == [Call(1, l, taint, <<Const, v>>) EXCEPT !.desc = d]
Struct(m, l) == [I(m, l, "other", <<Const>>) EXCEPT !.sty = s]

Fn(f, params, code) == [fn |-> f, vararg |-> FALSE, params |-> params, code |-> code]
IntParam(l) == [label |-> l, int |-> TRUE]
PtrParam(l) == [label |-> l, int |-> FALSE]

\* One module: what the last of three instructions of f is told of or passes on.
R1(i) == Yield(1, i)
First == <<TaintCall(1, "net", Const), Load(1, 1, x), Struct(1, 1)>>
Second ==
    <<TaintCall(2, "net", R1(1)), TaintCall(2, "disk", R1(1)), Plus(1, 2, R1(1)),
      Store(1, 2, R1(1), x), Load(1, 2, x), Cast(1, 2, R1(1)), Store(1, 2, R1(1), field(0)),
      Indirect(1, 2, {g2, h1}, Const, <<Const, R1(1)>>)>>
Third ==
    <<TaintCall(3, "net", R1(2)), TaintCall(3, "disk", R1(1)), Load(1, 3, field(1)), Load(1, 3, x), Store(1, 3, R1(2), y(1)),
      Call(1, 3, h1, <<R1(2), R1(1)>>), Call(1, 3, kmalloc, <<R1(2), R1(1)>>),
      Cast(1, 3, R1(2)), [I(1, 3, "call", <<R1(1)>>) EXCEPT !.asm = TRUE],
      Store(1, 3, R1(2), element)>>

h == Fn(h1, <<PtrParam(10), IntParam(11)>>,
        <<Plus(1, 12, Arg(h1, 1)), Cast(1, 13, Arg(h1, 0)), I(1, 14, "return", <<Yield(1, 13)>>)>>)

\* A system call, which may tell of its argument too.
Telling == <<TaintCall(24, "net", Arg(sys, 0)), TaintCall(24, "net", Arg(sys, 0)), Plus(1, 24, Arg(sys, 0))>>
system(n) ==
    Fn(sys, <<IntParam(20), IntParam(21)>>,
       <<Store(1, 22, Arg(sys, 0), x), Plus(1, 23, Arg(sys, 1)), Telling[n], Plus(1, 25, IF n = 1 THEN Const ELSE R1(24))>>)

\* The other module is entered through g.
Other ==
    <<Plus(2, 1, Arg(g2, 1)), Store(2, 1, Arg(g2, 1), y(2)), Load(2, 1, x2),
      Load(2, 1, y(2)), Load(2, 1, field(0))>>
Entered2(code) == <<Fn(g2, <<IntParam(10), IntParam(11)>>, code)>>
Module2(n) == Entered2(<<Other[n], I(2, 2, "return", <<Yield(2, 1)>>)>>)

\* Calls through pointers: one is told of, one may go through the same place or
\* through the pointer the first has returned, one is in the other module.
Through ==
    LET second(j) == IF j > Len(Pointers(1)) THEN R1(1) ELSE R1(6)
    IN [i \in DOMAIN Pointers(1), j \in 1..(Len(Pointers(1)) + 1) |->
          <<Load(1, 5, Pointers(1)[i]), Indirect(1, 1, {}, R1(5), <<>>),
            Load(1, 6, Pointers(1)[IF j > Len(Pointers(1)) THEN i ELSE j]),
            Indirect(1, 2, {g2}, second(j), <<>>), Plus(1, 3, R1(2)), TaintCall(4, "net", R1(1))>>]
Through2(n) ==
    Entered2(<<Load(2, 1, Pointers(2)[n]), Indirect(2, 3, {}, Yield(2, 1), <<>>), Plus(2, 4, Yield(2, 3)),
               I(2, 2, "return", <<Const>>)>>)

MCRaw(p) ==
    IF p[1] > Len(First)
    THEN <<<<Fn(f1, <<>>, Through[p[2], p[3]])>>, Through2(p[4])>>
    ELSE IF p[1] = 0
    THEN <<<<system(p[3]), Fn(f1, <<>>, <<Load(1, 1, x), Second[p[2]], Plus(1, 3, R1(2)),
                                          TaintCall(4, "disk", R1(1))>>)>>, Module2(p[4])>>
    ELSE <<<<Fn(f1, <<>>, <<First[p[1]], Second[p[2]], Third[p[3]]>>), h>>, Module2(p[4])>>

Picks ==
    {p \in (0..Len(First)) \X (1..Len(Second)) \X (1..Len(Third)) \X (1..Len(Other)) :
        p[1] = 0 => p[3] \in DOMAIN Telling}
      \cup {Len(First) + 1} \X (1..4) \X (1..5) \X (1..4)

raw == MCRaw(pick)

MCInit == /\ pick \in Picks
          /\ prog = Analysed(Annotate(raw))
          /\ Init

MCNext == Next /\ UNCHANGED pick

MCSpec == MCInit /\ [][MCNext]_<<vars, pick>> /\ WF_<<vars, pick>>(MCNext)

----------------------------------------------------------------------------
(* The taint a program deserves *)

\* The instructions before they are annotated, with their functions.
Sites ==
    UNION {UNION {{[m |-> m, fn |-> F.fn, I |-> F.code[j]] : j \in DOMAIN F.code} :
                  F \in {raw[m][n] : n \in DOMAIN raw[m]}} : m \in DOMAIN raw}
ValueAt(t) == Yield(t.m, t.I.label)

\* What is known under an identifier: a global is one in all modules, a static
\* one in its own, and a field is one for all structs of its type, of an anonymous
\* one in its module.
Global(gv) == IF gv.ext THEN [gv |-> gv.name] ELSE [gv |-> gv.name, m |-> gv.mod]
Field(sty, m, n) ==
    [at |-> [sty |-> sty.name, n |-> n, m |-> IF sty.anon THEN {m} ELSE {}]]
Place(m, p) ==
    CASE p.at = "var" /\ p.scalar -> {[at |-> Global(p.gv)]}
      [] p.at = "field" /\ p.scalar -> {Field(p.sty, m, p.offset)}
      [] OTHER -> {}
Returned(f) == [ret |-> Global(f)]
Parameter(f, n) == [arg |-> Global(f), n |-> n]

\* What functions called through one pointer return is one too.
RECURSIVE Accesses(_)
Accesses(t) ==
    IF t.I.op # "call" THEN Place(t.m, t.I.ptr)
    ELSE IF t.I.callee # NoFn THEN {Returned(t.I.callee)}
    ELSE {[ret |-> pl] : pl \in UNION {Accesses(u) : u \in {w \in Sites : ValueAt(w) = t.I.called}}}

\* A value as a node: an argument is one for its function.
Node(v) == IF v.kind = "arg" THEN Parameter(v.fn, v.no) ELSE v

\* Pairs <<from, to>>.
FlowsAt(t) ==
    LET to == Node(ValueAt(t))
        from == {Node(v) : v \in Operands(t.I)}
    IN {<<Node(t.I.strip), to>>}
         \cup CASE t.I.op = "call" ->
                     ((IF t.I.asm THEN {} ELSE {Returned(f) : f \in t.I.callees})
                        \cup Accesses(t)) \X {to}
                     \cup UNION {{<<Node(t.I.ops[j]), Parameter(f, j - 1)>> : j \in DOMAIN t.I.ops} :
                                 f \in IF t.I.asm THEN {} ELSE t.I.callees \ Opaque}
                [] t.I.op = "load" -> (from \cup Accesses(t)) \X {to}
                [] t.I.op = "store" -> from \X ({to} \cup Accesses(t))
                [] t.I.op = "return" -> from \X {to, Returned(t.fn)}
                [] OTHER -> from \X {to}

Flows == UNION {FlowsAt(t) : t \in Sites}

Reach(E, S) ==
    LET Grow(T) == T \cup {e[2] : e \in {d \in E : d[1] \in T}}
        R[n \in 0..Cardinality(E)] == IF n = 0 THEN S ELSE Grow(R[n - 1])
    IN R[Cardinality(E)]

Used(t) == \E u \in Sites : ValueAt(t) \in Operands(u.I)

Functions == UNION {{[m |-> m, F |-> raw[m][n]] : n \in DOMAIN raw[m]} : m \in DOMAIN raw}
IsIntArgument(v) == v.kind = "arg" /\ \E f \in Functions : f.F.fn = v.fn /\ Needed(f.F, v.no)

\* What __kint_taint is told of, in the place it comes from too, what it
\* returns if that is used, and what a system call is passed.
Told(d) ==
    LET calls == {t \in Sites : IsCallOf(t.I, KintTaint) /\ t.I.desc = d}
        marked == {t \in Sites : \E c \in calls : c.I.ops[2] = ValueAt(t)}
                    \cup {c \in calls : Used(c)}
    IN {ValueAt(t) : t \in marked} \cup UNION {Accesses(t) : t \in marked}
         \cup {Node(v) : v \in {u \in {c.I.ops[2] : c \in calls} : IsIntArgument(u)}}
         \cup UNION {{Field(t.I.sty, t.m, n) : n \in 0..(t.I.sty.fields - 1)} : t \in marked}
         \cup (IF d = Syscall
               THEN {Parameter(f, n) : f \in Sys, n \in 0..1} ELSE {})

Deserves(d) == Reach(Flows, Told(d))

\* The node that a value or an identifier stands for once annotated.
StandsFor(v) ==
    LET of == {p \in Functions :
                 v.kind = "instr" /\ p.m = v.m /\ \E n \in DOMAIN p.F.params : p.F.params[n].label = v.i}
    IN IF of = {} THEN Node(v)
       ELSE LET F == (CHOOSE p \in of : TRUE).F
            IN Parameter(F.fn, (CHOOSE n \in DOMAIN F.params : F.params[n].label = v.i) - 1)

Scope(id) == IF id.stem = NoStem THEN [gv |-> id.name]
             ELSE [gv |-> id.name, m |-> CHOOSE m \in ModuleNo : Stem[m] = id.stem]
RECURSIVE Names(_)
Names(id) ==
    CASE id.kind = <<"var">> -> [at |-> Scope(id)]
      [] id.kind = <<"struct">> ->
           [at |-> [sty |-> id.name, n |-> id.no,
                    m |-> {m \in ModuleNo : Stem[m] = id.stem}]]
      [] id.kind = <<"arg">> -> [arg |-> Scope(id), n |-> id.no]
      [] id.kind = <<"ret">> -> [ret |-> Scope(id)]
      [] OTHER -> [ret |-> Names([id EXCEPT !.kind = Tail(@)])]

\* No value or identifier is ever tainted by a source it does not derive from:
\* neither the annotations nor the pass mix up two things.  (Entries only grow,
\* so it is enough to look at the end.)
NoSpuriousTaint ==
    phase = "done" => \A d \in Desc :
        LET D == Deserves(d) IN
        /\ \A v \in DOMAIN VTS : d \in VTS[v] => StandsFor(v) \in D
        /\ \A i \in DOMAIN GTS : d \in GTS[i] => Names(i) \in D

\* Every operand is produced by an earlier instruction or is no instruction.
Position(v) == CHOOSE j \in DOMAIN prog[v.m] : prog[v.m][j].label = v.i
Forward ==
    \A m \in ModuleNo : \A j \in DOMAIN prog[m] :
        \A v \in {prog[m][j].ops[n] : n \in DOMAIN prog[m][j].ops} :
            v.kind = "instr" => Position(v) < j

\* Without loops, whatever derives from a source ends up marked, through any
\* chain of calls, returns, variables and fields over the modules: the sweeps
\* end only when nothing is missing, and all accesses of one thing are annotated
\* alike.
MarksAllForward ==
    phase = "done" /\ Forward =>
        LET D == UNION {Deserves(d) : d \in Desc}
        IN \A m \in ModuleNo : \A j \in DOMAIN prog[m] :
             StandsFor(Yield(m, prog[m][j].label)) \in D => <<m, j>> \in DOMAIN Marks

\* A call of __kint_taint that is erased is told of what something else marks too:
\* another such call is told of it or returns it, or it is an integer argument of
\* a system call.
Entangled ==
    \E u \in Sites :
        /\ IsCallOf(u.I, KintTaint) /\ ~Used(u)
        /\ LET v == u.I.ops[2] IN
           \/ v.kind = "arg" /\ v.fn \in Sys /\ IsIntArgument(v)
           \/ \E t \in Sites \ {u} :
                 IsCallOf(t.I, KintTaint) /\ v \in {ValueAt(t), t.I.ops[2]} \ {Const}

\* A program killed and run again annotates what it has annotated before: the
\* modules stay as they are, but for entangled calls, of which the first run has
\* erased one that had the last word on a mark.
AnnotatingAgainIsIdle ==
    phase = "init" /\ mod = 1 /\ ~Entangled => Annotate(Annotate(raw)) = Annotate(raw)
=============================================================================
