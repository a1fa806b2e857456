------------------------------- MODULE Taint -------------------------------
(***************************************************************************)
(* TaintPass (src/src/Taint.cc) over TaintMap (src/src/IntGlobal.h): which   *)
(* values of the whole program derive from an untrusted source, and from    *)
(* which ones.  Taint is kept in two maps that persist over the sweeps: VTS  *)
(* for the values inside functions, GTS for the identifiers that join        *)
(* functions and modules.  VTS is also a cache of GTS: once a value has an   *)
(* entry, GTS is not consulted for it again.                                *)
(***************************************************************************)
EXTENDS IterativePass, FiniteSets

CONSTANTS
    Fns,       \* the functions: GlobalValues, opaque ones not entered (below)
    Opaque,    \* those that are variadic or have a '.' in their name
    Desc       \* descriptions of taint sources

----------------------------------------------------------------------------
(* Programs *)

\* The result of the instruction of module m with label i, an argument, or a
\* constant.
Value ==
    [kind: {"instr"}, m: ModuleNo, i: Int]
        \cup [kind: {"arg"}, fn: Fns, no: Nat]
        \cup [kind: {"const"}]

\* id is getValueId of the instruction (of a store: the identifier it writes),
\* strip its value without pointer casts, src the descriptions annotated on it
\* as a taint source (at most one), fields the identifiers of the struct's
\* fields when it yields a pointer to a struct.
Instr ==
    [label: Int, op: {"store", "return", "call", "other"}, fn: Fns, ops: Seq(Value),
     id: Id, strip: Value, callees: SUBSET Fns, asm: BOOLEAN,
     src: SUBSET Desc, fields: SUBSET Id]

Program == [ModuleNo -> Seq(Instr)]

ASSUME TaintAssumption ==
    /\ Fns \subseteq GlobalValue /\ IsFiniteSet(Fns)
    /\ Opaque \subseteq Fns

----------------------------------------------------------------------------
VARIABLES
    prog,      \* the program under analysis
    GTS,       \* identifier -> descriptions; absent when there is no entry
    Source,    \* the identifiers whose entry is marked as a source
    VTS,       \* value -> descriptions; absent when there is no entry
    Marks,     \* the taint metadata written on the instructions, by site
    k,         \* the next instruction of the module
    todo,      \* callees of the current call whose arguments are not yet done,
               \* in the order they are taken
    no,        \* the next argument for the first of them
    Changed,   \* this sweep over the module has changed something
    ret        \* an earlier sweep over the module has

passVars == <<GTS, Source, VTS, Marks, k, todo, no, Changed, ret>>
vars == <<driverVars, prog, passVars>>

Code == prog[mod]
Current == Code[k]
Result == [kind |-> "instr", m |-> mod, i |-> Current.label]

TypeOK ==
    /\ DriverTypeOK
    /\ prog \in Program
    /\ DOMAIN GTS \subseteq Id /\ \A x \in DOMAIN GTS : GTS[x] \subseteq Desc
    /\ Source \subseteq DOMAIN GTS
    /\ DOMAIN VTS \subseteq Value /\ \A v \in DOMAIN VTS : VTS[v] \subseteq Desc
    /\ \A s \in DOMAIN Marks : Marks[s] \subseteq Desc
    /\ k \in Nat \ {0}
    /\ todo \in Seq(Fns)
    /\ no \in Nat
    /\ Changed \in BOOLEAN /\ ret \in BOOLEAN

Init ==
    /\ DriverInit
    /\ prog \in Program
    /\ GTS = [x \in {} |-> {}] /\ Source = {}
    /\ VTS = [v \in {} |-> {}]
    /\ Marks = [s \in {} |-> {}]
    /\ k = 1 /\ todo = <<>> /\ no = 0
    /\ Changed = FALSE /\ ret = FALSE

----------------------------------------------------------------------------
(* TaintMap.  G is a value of GTS, V a value of VTS. *)

\* map[x] grows by descs for every x in keys; entries are made as needed.
Insert(map, keys, descs) ==
    [x \in DOMAIN map \cup keys |->
        (IF x \in DOMAIN map THEN map[x] ELSE {})
          \cup (IF x \in keys THEN descs ELSE {})]

\* add(ID, D) refuses the empty identifier.
AddGlobal(G, ids, descs) == Insert(G, ids \ {NoId}, descs)

\* A test for an entry that is there and empty: a missing one is not new.
IsNewPresent(G, ids) == \E x \in (ids \ {NoId}) \cap DOMAIN G : G[x] = {}

\* What add returns: the entry was empty.  That an entry gains descriptions
\* or becomes a source does not count.
IsNew(G, ids) ==
    \E x \in ids \ {NoId} : x \notin DOMAIN G \/ G[x] = {}

----------------------------------------------------------------------------
(* getTaint *)

InstrOf(v) == prog[v.m][CHOOSE j \in DOMAIN prog[v.m] : prog[v.m][j].label = v.i]

Strip(v) == IF v.kind = "instr" THEN InstrOf(v).strip ELSE v

\* The identifiers GTS is asked for: of a call, also what each callee returns.
GlobalIds(v) ==
    CASE v.kind = "arg" -> {ArgId(v.fn, v.no)}
      [] v.kind = "instr" ->
            LET c == InstrOf(v)
            IN ({c.id} \cup {RetId(f) : f \in IF c.op = "call" /\ ~c.asm
                                              THEN c.callees ELSE {}}) \ {NoId}
      [] OTHER -> {}

Known(V, v) == v \in DOMAIN V \/ Strip(v) \in DOMAIN V

FromGlobal(G, v) == UNION {G[x] : x \in GlobalIds(v) \cap DOMAIN G}

getTaint(G, V, v) ==
    IF v \in DOMAIN V THEN V[v]
    ELSE IF Strip(v) \in DOMAIN V THEN V[Strip(v)]
    ELSE FromGlobal(G, v)

\* getTaint keeps in VTS what it has found in GTS.
Cache(G, V, vs) ==
    LET fresh == {v \in vs : ~Known(V, v) /\ GlobalIds(v) \cap DOMAIN G # {}}
    IN [v \in DOMAIN V \cup fresh |->
          IF v \in fresh THEN FromGlobal(G, v) ELSE V[v]]

----------------------------------------------------------------------------
(* doModulePass: runOnFunction over the functions of module mod *)

AtInstruction == InModulePass /\ k <= Len(Code) /\ todo = <<>>

\* checkTaintSource: the instruction, its identifier and the fields of the
\* struct it points to take the description, and those are sources.
SourceVTS ==
    IF Current.src = {} THEN VTS ELSE Insert(VTS, {Result}, Current.src)
SourceIds ==
    IF Current.src = {} THEN {} ELSE ({Current.id} \cup Current.fields) \ {NoId}
SourceGTS ==
    IF Current.src = {} THEN GTS
    ELSE AddGlobal(GTS, SourceIds, SourceVTS[Result])

\* The callees whose arguments runOnFunction enters.
Entered == IF Current.asm THEN {} ELSE Current.callees \ Opaque

\* A FuncSet is iterated in the order of addresses, which may be any.
Orders(S) ==
    {s \in [1..Cardinality(S) -> S] : \A i, j \in DOMAIN s : s[i] = s[j] => i = j}

NextInstruction == k' = k + 1 /\ UNCHANGED <<driverVars, prog, Marks, ret>>

VisitCall ==
    /\ AtInstruction
    /\ Current.op = "call"
    /\ VTS' = SourceVTS
    /\ GTS' = SourceGTS
    /\ Source' = Source \cup SourceIds
    /\ Changed' = (Changed \/ IsNew(GTS, SourceIds))
    /\ todo' \in Orders(IF Current.ops = <<>> THEN {} ELSE Entered)
    /\ no' = 0
    /\ k' = IF todo' = <<>> THEN k + 1 ELSE k
    /\ UNCHANGED <<driverVars, prog, Marks, ret>>

\* getTaint of one argument for one callee, and add to the callee's argument.
VisitArgument ==
    /\ todo # <<>>
    /\ LET v == Current.ops[no + 1]
           id == ArgId(Head(todo), no)
           found == Cache(GTS, VTS, {v})
       IN /\ VTS' = found
          /\ IF Known(found, v)
             THEN /\ GTS' = AddGlobal(GTS, {id}, getTaint(GTS, found, v))
                  /\ Changed' = (Changed \/ IsNew(GTS, {id}))
             ELSE UNCHANGED <<GTS, Changed>>
    /\ IF no + 1 < Len(Current.ops) THEN no' = no + 1 /\ UNCHANGED <<todo, k>>
       ELSE /\ no' = 0 /\ todo' = Tail(todo)
            /\ k' = IF todo' = <<>> THEN k + 1 ELSE k
    /\ UNCHANGED <<driverVars, prog, Source, Marks, ret>>

\* The identifier a tainted store or return writes.
Written ==
    CASE Current.op = "store" -> {Current.id}
      [] Current.op = "return" -> {RetId(Current.fn)}
      [] OTHER -> {}

\* The test that skips an instruction none of whose operands is tainted, and
\* the pass without it.
PropagatesAlways(D) == TRUE

Propagates(D) == D # {}

\* Any other instruction is tainted by its operands, or left alone.
VisitOther ==
    /\ AtInstruction
    /\ Current.op # "call"
    /\ LET operands == {Current.ops[i] : i \in DOMAIN Current.ops}
           D == UNION {getTaint(SourceGTS, SourceVTS, v) : v \in operands}
           found == Cache(SourceGTS, SourceVTS, operands)
           out == IF Propagates(D) THEN Written ELSE {}
       IN /\ VTS' = IF Propagates(D) THEN Insert(found, {Result}, D) ELSE found
          /\ GTS' = AddGlobal(SourceGTS, out, D)
          /\ Changed' = (Changed \/ IsNew(GTS, SourceIds) \/ IsNew(SourceGTS, out))
    /\ Source' = Source \cup SourceIds
    /\ UNCHANGED <<todo, no>>
    /\ NextInstruction

AtEnd == InModulePass /\ k > Len(Code)

SweepAgain ==
    /\ AtEnd
    /\ Changed
    /\ k' = 1 /\ Changed' = FALSE /\ ret' = TRUE
    /\ UNCHANGED <<driverVars, prog, GTS, Source, VTS, Marks, todo, no>>

ReturnFromModule ==
    /\ AtEnd
    /\ ~Changed
    /\ EndModulePass(ret)
    /\ k' = 1 /\ ret' = FALSE
    /\ UNCHANGED <<prog, GTS, Source, VTS, Marks, todo, no, Changed>>

----------------------------------------------------------------------------
(* doInitialization does nothing; doFinalization writes the metadata *)

doInitialization == ForModule("init") /\ UNCHANGED <<prog, passVars>>

\* Every instruction is asked for its taint once more and marked.
MarkInstruction ==
    /\ phase = "final" /\ mod <= NumModules /\ k <= Len(Code)
    /\ LET found == Cache(GTS, VTS, {Result})
       IN /\ VTS' = found
          /\ Marks' = IF Known(found, Result)
                      THEN Insert(Marks, {<<mod, k>>}, getTaint(GTS, found, Result))
                      ELSE Marks
    /\ k' = k + 1
    /\ UNCHANGED <<driverVars, prog, GTS, Source, todo, no, Changed, ret>>

doFinalization ==
    /\ ForModule("final")
    /\ k > Len(Code)
    /\ k' = 1
    /\ UNCHANGED <<prog, GTS, Source, VTS, Marks, todo, no, Changed, ret>>

Drive ==
    /\ BeginSweep \/ BeginFinal \/ Finish
    /\ UNCHANGED <<prog, passVars>>

Done == phase = "done" /\ UNCHANGED vars

Next ==
    \/ doInitialization \/ Drive \/ Done
    \/ VisitCall \/ VisitArgument \/ VisitOther
    \/ SweepAgain \/ ReturnFromModule
    \/ MarkInstruction \/ doFinalization

Spec == Init /\ [][Next]_vars

\* run() is one thread that never waits.
FairSpec == Spec /\ WF_vars(Next)

----------------------------------------------------------------------------
(* Properties; those that need the taint a program deserves are in MCTaint *)

\* No entry of either map is empty.  The sweeps rely on it to end: add takes an
\* empty entry for a new one and would report a change on every visit.
EntriesNonEmpty ==
    /\ \A x \in DOMAIN GTS : GTS[x] # {}
    /\ \A v \in DOMAIN VTS : VTS[v] # {}

ResultOf(m, j) == [kind |-> "instr", m |-> m, i |-> prog[m][j].label]

\* The order in which a sweep visits the instructions.
Before(m1, j1, m2, j2) == m1 < m2 \/ (m1 = m2 /\ j1 < j2)

\* No instruction at or after this one yields v: all operands but those that a
\* loop carries around.
Early(m, j, v) ==
    \A m1 \in ModuleNo : \A j1 \in DOMAIN prog[m1] :
        ResultOf(m1, j1) = v => Before(m1, j1, m, j)

\* There is an entry for the value or for what stands for it everywhere else.
Tainted(v) == v \in DOMAIN VTS \/ GlobalIds(v) \cap DOMAIN GTS # {}

\* What an instruction makes tainted, as a source, by what it writes, and as a
\* call by the arguments it passes.
SourceIdsOf(I) == IF I.src = {} THEN {} ELSE ({I.id} \cup I.fields) \ {NoId}

WrittenBy(I) ==
    CASE I.op = "store" -> {I.id}
      [] I.op = "return" -> {RetId(I.fn)}
      [] OTHER -> {}

EnteredBy(I) == IF I.asm THEN {} ELSE I.callees \ Opaque

SourceDone(m, j) ==
    /\ SourceIdsOf(prog[m][j]) \subseteq DOMAIN GTS
    /\ prog[m][j].src # {} => ResultOf(m, j) \in DOMAIN VTS

ArgumentDone(m, j, f, i) ==
    Early(m, j, prog[m][j].ops[i]) /\ Tainted(prog[m][j].ops[i]) =>
        ArgId(f, i - 1) \in DOMAIN GTS \cup {NoId}

OperandDone(m, j, i) ==
    Early(m, j, prog[m][j].ops[i]) /\ Tainted(prog[m][j].ops[i]) =>
        /\ ResultOf(m, j) \in DOMAIN VTS
        /\ WrittenBy(prog[m][j]) \subseteq DOMAIN GTS \cup {NoId}

Satisfied(m, j) ==
    /\ SourceDone(m, j)
    /\ \A i \in DOMAIN prog[m][j].ops :
          IF prog[m][j].op = "call"
          THEN \A f \in EnteredBy(prog[m][j]) : ArgumentDone(m, j, f, i)
          ELSE OperandDone(m, j, i)

\* When the sweeps have ended no taint is left to pass on, over all modules and
\* whatever is recursive in them: a source has its entries, the result of an
\* instruction with a tainted operand has one and so has what it stores or
\* returns to, and so has an argument of every function it calls with a tainted
\* argument.  Only an operand that a loop carries around is left out: the cache
\* of values may know of it after the instruction has been visited.
Closed ==
    phase \in {"final", "done"} =>
        \A m \in ModuleNo : \A j \in DOMAIN prog[m] : Satisfied(m, j)

\* The sweeps end, in every order of callees.
Terminates == <>(phase = "done")
=============================================================================
