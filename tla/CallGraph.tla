----------------------------- MODULE CallGraph -----------------------------
(***************************************************************************)
(* CallGraphPass (src/src/CallGraph.cc): which functions may the function   *)
(* pointers of a whole program hold, and so which functions may each call   *)
(* instruction reach.  The pass keeps one set of functions per identifier   *)
(* and visits the instructions of every module until nothing changes.       *)
(*                                                                          *)
(* The program under analysis is chosen in the initial state from Programs  *)
(* and never changes.  A value is the set of leaves findFunctions reaches   *)
(* through casts, phis and selects; those carry no state of their own.      *)
(***************************************************************************)
EXTENDS IterativePass

CONSTANTS
    Fns,       \* the Function objects of all modules
    Programs   \* the programs the pass may be run on

----------------------------------------------------------------------------
(* Programs *)

\* What findFunctions stops at: a function, an argument, the result of a
\* direct or an indirect call, a load, or a constant that is no function.
Leaf ==
    [op: {"fn", "ret"}, fn: Fns]
        \cup [op: {"arg"}, fn: Fns, no: Nat]
        \cup [op: {"load"}, id: Id]
        \cup [op: {"icall", "const"}]

\* fp is isFunctionPointer of the operand's type; skip is an inline asm or
\* an intrinsic callee.  Other instructions the pass does not look at.
Operand == [fp: BOOLEAN, val: SUBSET Leaf]

Instr ==
    [op: {"store"}, fp: BOOLEAN, id: Id, val: SUBSET Leaf]
        \cup [op: {"return"}, fp: BOOLEAN, fn: Fns, val: SUBSET Leaf]
        \cup [op: {"call"}, skip: BOOLEAN, callee: SUBSET Leaf,
              args: Seq(Operand)]

\* A leaf of a global initializer.  path lists the aggregates around it, the
\* outermost first: a named or a literal struct, an array of structs, another
\* array.  id is the field of the innermost struct or the variable itself;
\* cast says that the operand is a constant expression around the function.
InitLeaf ==
    [path: Seq({"named", "literal", "structs", "array"}),
     id: Id, fn: Fns, cast: BOOLEAN]

Program ==
    [init: [ModuleNo -> SUBSET InitLeaf], code: [ModuleNo -> Seq(Instr)]]

ASSUME CallGraphAssumption ==
    /\ Fns \subseteq GlobalValue
    /\ \A f, g \in Fns : f.mod = g.mod /\ f.name = g.name => f = g
    /\ Programs \subseteq Program

----------------------------------------------------------------------------
VARIABLES
    prog,      \* the program under analysis
    FuncPtrs,  \* pairs <<id, f>>: identifier id may hold function f
    Funcs,     \* name -> the definition with external linkage
    Callees,   \* call site <<module, index>> -> functions it may reach
    k,         \* the next instruction of the module
    FS,        \* callees of the call whose arguments are being visited
    no,        \* the next argument of that call
    Changed,   \* this sweep over the module has grown FuncPtrs
    ret        \* an earlier sweep over the module has

passVars == <<FuncPtrs, Funcs, Callees, k, FS, no, Changed, ret>>
vars == <<driverVars, prog, passVars>>

Code == prog.code[mod]
Current == Code[k]

TypeOK ==
    /\ DriverTypeOK
    /\ prog \in Programs
    /\ FuncPtrs \subseteq Id \X Fns
    /\ DOMAIN Funcs \subseteq {f.name : f \in Fns}
    /\ \A n \in DOMAIN Funcs : Funcs[n] \in Fns
    /\ \A s \in DOMAIN Callees : Callees[s] \subseteq Fns
    /\ k \in Nat \ {0}
    /\ FS \subseteq Fns
    /\ no \in Nat
    /\ Changed \in BOOLEAN /\ ret \in BOOLEAN

\* While FS holds callees the pass is inside the visit of one call.
CallInProgress ==
    FS # {} =>
        /\ InModulePass
        /\ k <= Len(Code)
        /\ Current.op = "call" /\ ~Current.skip
        /\ no <= Len(Current.args)

Init ==
    /\ DriverInit
    /\ prog \in Programs
    /\ FuncPtrs = {}
    /\ Funcs = [n \in {} |-> {}]
    /\ Callees = [s \in {} |-> {}]
    /\ k = 1 /\ FS = {} /\ no = 0
    /\ Changed = FALSE /\ ret = FALSE

----------------------------------------------------------------------------
(* findFunctions *)

\* findFunctions without its look into Funcs.
ResolveNothing(f) == f

\* A declaration stands for the definition another module holds, if one does.
Resolve(f) ==
    IF ~f.body /\ f.name \in DOMAIN Funcs THEN Funcs[f.name] ELSE f

LeafId(v) ==
    CASE v.op = "arg" -> ArgId(v.fn, v.no)
      [] v.op = "ret" -> RetId(v.fn)
      [] v.op = "load" -> v.id
      [] OTHER -> NoId

Held(id) == {f \in Fns : <<id, f>> \in FuncPtrs}

\* The result of an indirect call and any other constant hold nothing.
LeafFunctions(v) ==
    IF v.op = "fn" THEN {Resolve(v.fn)}
    ELSE IF v.op \in {"arg", "ret", "load"} THEN Held(LeafId(v)) ELSE {}

findFunctions(val) == UNION {LeafFunctions(v) : v \in val}

\* Merge with "Changed =" where the code has "Changed |=".
MergeForgets(ids, fs) ==
    /\ FuncPtrs' = FuncPtrs \cup (ids \X fs)
    /\ Changed' = ~(ids \X fs \subseteq FuncPtrs)

\* Merge that reports a change for every visit.
MergeAlwaysChanges(ids, fs) ==
    /\ FuncPtrs' = FuncPtrs \cup (ids \X fs)
    /\ Changed' = TRUE

\* Changed |= findFunctions(V, FuncPtrs[id]) for every id of ids
Merge(ids, fs) ==
    /\ FuncPtrs' = FuncPtrs \cup (ids \X fs)
    /\ Changed' = (Changed \/ ~(ids \X fs \subseteq FuncPtrs))

----------------------------------------------------------------------------
(* doInitialization *)

\* Every struct on the way must be named, every array an array of structs;
\* a function is recorded as a struct field or as the initial value of a
\* variable, and only when the operand is the function itself.
Collected(l) ==
    /\ ~l.cast
    /\ \A i \in DOMAIN l.path : l.path[i] \in {"named", "structs"}
    /\ l.path = <<>> \/ l.path[Len(l.path)] = "named"

\* The initializer records the function as it is named in the module.
InitialFacts(p, m) == {<<l.id, l.fn>> : l \in {x \in p.init[m] : Collected(x)}}

ExternalDefinitions(m) == {f \in Fns : f.mod = m /\ f.ext /\ f.body}

doInitialization ==
    /\ ForModule("init")
    /\ FuncPtrs' = FuncPtrs \cup InitialFacts(prog, mod)
    /\ LET defs == ExternalDefinitions(mod)
           names == {f.name : f \in defs}
       IN Funcs' = [n \in DOMAIN Funcs \cup names |->
                      IF n \in names THEN CHOOSE f \in defs : f.name = n
                      ELSE Funcs[n]]
    /\ UNCHANGED <<prog, Callees, k, FS, no, Changed, ret>>

----------------------------------------------------------------------------
(* doModulePass: runOnFunction over the functions of module mod *)

At(op) ==
    /\ InModulePass
    /\ k <= Len(Code)
    /\ FS = {}
    /\ Current.op = op

NextInstruction ==
    /\ k' = k + 1
    /\ UNCHANGED <<driverVars, prog, Funcs, Callees, FS, no, ret>>

VisitStore ==
    /\ At("store")
    /\ Current.fp /\ Current.id # NoId
    /\ Merge({Current.id}, findFunctions(Current.val))
    /\ NextInstruction

VisitReturn ==
    /\ At("return")
    /\ Current.fp
    /\ Merge({RetId(Current.fn)}, findFunctions(Current.val))
    /\ NextInstruction

\* The callees are found once, before the arguments are looked at.
VisitCall ==
    /\ At("call")
    /\ ~Current.skip
    /\ findFunctions(Current.callee) # {}
    /\ FS' = findFunctions(Current.callee)
    /\ no' = 0
    /\ UNCHANGED <<driverVars, prog, FuncPtrs, Funcs, Callees, k, Changed, ret>>

VisitArgument ==
    /\ InModulePass
    /\ FS # {}
    /\ no < Len(Current.args)
    /\ LET a == Current.args[no + 1]
       IN Merge(IF a.fp THEN {ArgId(f, no) : f \in FS} ELSE {},
                findFunctions(a.val))
    /\ no' = no + 1
    /\ UNCHANGED <<driverVars, prog, Funcs, Callees, k, FS, ret>>

EndCall ==
    /\ InModulePass
    /\ FS # {}
    /\ no = Len(Current.args)
    /\ FS' = {} /\ no' = 0
    /\ k' = k + 1
    /\ UNCHANGED <<driverVars, prog, FuncPtrs, Funcs, Callees, Changed, ret>>

\* Instructions that carry no function pointer, and calls to nobody known.
Skip ==
    /\ \/ At("store") /\ (~Current.fp \/ Current.id = NoId)
       \/ At("return") /\ ~Current.fp
       \/ At("call") /\ (Current.skip \/ findFunctions(Current.callee) = {})
    /\ NextInstruction
    /\ UNCHANGED <<FuncPtrs, Changed>>

AtEnd == InModulePass /\ k > Len(Code)

SweepAgain ==
    /\ AtEnd
    /\ Changed
    /\ k' = 1 /\ Changed' = FALSE /\ ret' = TRUE
    /\ UNCHANGED <<driverVars, prog, FuncPtrs, Funcs, Callees, FS, no>>

ReturnFromModule ==
    /\ AtEnd
    /\ ~Changed
    /\ EndModulePass(ret)
    /\ k' = 1 /\ ret' = FALSE
    /\ UNCHANGED <<prog, FuncPtrs, Funcs, Callees, FS, no, Changed>>

----------------------------------------------------------------------------
(* doFinalization, and the driver's own steps *)

CallSites(m) ==
    {m} \X {i \in DOMAIN prog.code[m] : prog.code[m][i].op = "call"}

doFinalization ==
    /\ ForModule("final")
    /\ Callees' = [s \in DOMAIN Callees \cup CallSites(mod) |->
                     IF s \in CallSites(mod)
                       THEN findFunctions(prog.code[s[1]][s[2]].callee)
                       ELSE Callees[s]]
    /\ UNCHANGED <<prog, FuncPtrs, Funcs, k, FS, no, Changed, ret>>

Drive ==
    /\ BeginSweep \/ BeginFinal \/ Finish
    /\ UNCHANGED <<prog, passVars>>

Done == phase = "done" /\ UNCHANGED vars

ModulePass ==
    \/ VisitStore \/ VisitReturn
    \/ VisitCall \/ VisitArgument \/ EndCall
    \/ Skip \/ SweepAgain \/ ReturnFromModule

Next == doInitialization \/ ModulePass \/ doFinalization \/ Drive \/ Done

Spec == Init /\ [][Next]_vars

\* run() is one thread that never waits.
FairSpec == Spec /\ WF_vars(Next)

----------------------------------------------------------------------------
(* What the pass promises *)

\* Visiting the instruction i again would add nothing.
Satisfied(i) ==
    /\ i.op = "store" /\ i.fp /\ i.id # NoId =>
         {i.id} \X findFunctions(i.val) \subseteq FuncPtrs
    /\ i.op = "return" /\ i.fp =>
         {RetId(i.fn)} \X findFunctions(i.val) \subseteq FuncPtrs
    /\ i.op = "call" /\ ~i.skip =>
         \A j \in DOMAIN i.args : i.args[j].fp =>
             {ArgId(f, j - 1) : f \in findFunctions(i.callee)}
                 \X findFunctions(i.args[j].val) \subseteq FuncPtrs

AllSatisfied(m) == \A i \in DOMAIN prog.code[m] : Satisfied(prog.code[m][i])

\* When the driver leaves its loop, no instruction of any module would add a
\* function to any identifier.  The pass only knows that from the Changed
\* flags of one sweep, module by module; an instruction visited early in that
\* sweep depends on facts that later instructions and modules produce.
AtFixpoint ==
    phase \in {"final", "done"} =>
        \A m \in ModuleNo : AllSatisfied(m)

\* Why AtFixpoint holds: what the flags say about the instructions already
\* visited.  A sweep over a module that has not changed anything has left the
\* instructions behind it satisfied, and a sweep over all modules that has not
\* changed anything has left the modules behind it satisfied.
PrefixSatisfied ==
    InModulePass /\ ~Changed =>
        \A i \in DOMAIN Code : i < k => Satisfied(Code[i])

ArgumentsSatisfied ==
    FS # {} /\ ~Changed =>
        /\ FS = findFunctions(Current.callee)
        /\ \A j \in DOMAIN Current.args : j <= no /\ Current.args[j].fp =>
             {ArgId(f, j - 1) : f \in FS}
                \X findFunctions(Current.args[j].val) \subseteq FuncPtrs

ModulesSatisfied ==
    phase = "pass" /\ changed = 0 /\ ~ret /\ ~Changed =>
        \A m \in ModuleNo : m < mod => AllSatisfied(m)

FlagsDown == ~InModulePass => k = 1 /\ ~Changed /\ ~ret

FixpointInv ==
    /\ CallInProgress
    /\ PrefixSatisfied
    /\ ArgumentsSatisfied
    /\ ModulesSatisfied
    /\ FlagsDown
    /\ AtFixpoint

\* Callees and FuncPtrs agree when the pass is done: every function that
\* Callees lists for a call has, under its own argument identifiers, all the
\* functions that the call passes.  TaintPass and RangePass rely on Callees
\* alone to push facts into arguments.
CalleesReceiveArguments ==
    phase = "done" =>
        \A m \in ModuleNo : \A i \in DOMAIN prog.code[m] :
            LET c == prog.code[m][i]
            IN c.op = "call" /\ ~c.skip =>
                 /\ <<m, i>> \in DOMAIN Callees
                 /\ \A f \in Callees[<<m, i>>], j \in DOMAIN c.args :
                      c.args[j].fp =>
                        findFunctions(c.args[j].val) \subseteq
                            Held(ArgId(f, j - 1))

\* The loops of doModulePass and of run() come to an end.
Terminates == <>(phase = "done")

----------------------------------------------------------------------------
(* The pass as a fixpoint computation *)

\* The definition Funcs will hold for f's name: the last module that has one.
Definition(f) ==
    LET defs == {g \in Fns : g.ext /\ g.body /\ g.name = f.name}
    IN IF f.body \/ defs = {} THEN f
       ELSE CHOOSE g \in defs : \A h \in defs : h.mod <= g.mod

\* The premises, one set per leaf of val, under which val may be f.
Premises(val, f) ==
    {{} : v \in {u \in val : u.op = "fn" /\ Definition(u.fn) = f}}
      \cup {{<<LeafId(v), f>>} :
              v \in {u \in val : u.op \in {"arg", "ret", "load"}}}

Flow(id, val) ==
    UNION {{[pre |-> P, con |-> <<id, f>>] : P \in Premises(val, f)} : f \in Fns}

\* A function g passed to a callee f.
Pass(callee, n, val) ==
    UNION {{[pre |-> P \cup Q, con |-> <<ArgId(fg[1], n), fg[2]>>] :
             P \in Premises(callee, fg[1]), Q \in Premises(val, fg[2])} :
           fg \in Fns \X Fns}

InstrRules(i) ==
    CASE i.op = "store" -> IF i.fp /\ i.id # NoId THEN Flow(i.id, i.val) ELSE {}
      [] i.op = "return" -> IF i.fp THEN Flow(RetId(i.fn), i.val) ELSE {}
      [] i.op = "call" ->
            IF i.skip THEN {}
            ELSE UNION {Pass(i.callee, j - 1, i.args[j].val) :
                        j \in {n \in DOMAIN i.args : i.args[n].fp}}

InitRules(m) == {[pre |-> {}, con |-> x] : x \in InitialFacts(prog, m)}

Rules ==
    (UNION {InitRules(m) : m \in ModuleNo})
      \cup (UNION {UNION {InstrRules(prog.code[m][i]) : i \in DOMAIN prog.code[m]} :
                   m \in ModuleNo})

Analysis == INSTANCE Fixpoint WITH
    rules <- Rules, facts <- FuncPtrs, done <- phase \in {"final", "done"}

\* Whatever the order of modules and instructions, the pass only applies the
\* rules of the program, never drops a fact, and stops closed under them: what
\* it stops with is the least solution.
ImplementsFixpoint == Analysis!Spec
=============================================================================
