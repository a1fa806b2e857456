------------------------------- MODULE Range -------------------------------
(***************************************************************************)
(* RangePass (src/src/Range.cc): the range of values each identifier of the *)
(* whole program may hold.  IntRanges, keyed by identifiers, is shared by   *)
(* all functions and modules and only ever grows; FuncVRMs, keyed by basic  *)
(* block and value, is rebuilt from IntRanges every time a function is      *)
(* visited.  A module is swept until nothing changes; from the sixth sweep  *)
(* on, whatever the previous sweep changed is given up as the full range.   *)
(***************************************************************************)
EXTENDS IterativePass, Ranges

CONSTANTS
    Fns,            \* the functions
    Opaque,         \* those that are variadic or have a '.' in their name
    SourceIds,      \* the identifiers TaintPass has marked as sources
    MaxIterations,  \* 5
    Programs        \* the programs the pass may be run on

----------------------------------------------------------------------------
(* Programs *)

\* An integer constant, the result of the i-th instruction of block b of the
\* same function, or a value that is not an integer (w = 0).
Value ==
    [kind: {"const"}, c: Nat, w: Widths]
        \cup [kind: {"instr"}, b: Nat, i: Nat, w: Widths]
        \cup [kind: {"other"}, w: {0}]

\* w is the width of the result, 0 if it is no integer.  id is getValueId of a
\* store, load or call; retId is getRetId of a call.  callees is what Callees
\* holds for the call, in the order it is iterated.
Instr ==
    [op: {"store"}, w: {0}, id: Id, val: Value]
        \cup [op: {"return"}, w: {0}, val: Value]
        \cup [op: {"call"}, w: Widths \cup {0}, id: Id, retId: Id,
              callees: Seq(Fns), asm: BOOLEAN, args: Seq(Value)]
        \cup [op: {"load"}, w: Widths \cup {0}, id: Id]
        \cup [op: {"add", "sub", "sdiv", "urem", "srem", "ashr", "xor"},
              w: Widths, l: Value, r: Value]
        \cup [op: {"trunc", "zext", "sext"}, w: Widths, val: Value]
        \cup [op: {"select"}, w: Widths, t: Value, f: Value]
        \cup [op: {"phi"}, w: Widths, in: Seq([pred: Nat, val: Value])]
        \cup [op: {"other"}, w: Widths \cup {0}]

\* A branch on a comparison made in block cb, a switch, or anything else.
Terminator ==
    [op: {"br"}, pred: STRING, l: Value, r: Value, cb: Nat, then: Nat, else: Nat]
        \cup [op: {"switch"}, val: Value, default: Nat,
              cases: Seq([c: Nat, to: Nat])]
        \cup [op: {"other"}]

\* back holds the back edges FindFunctionBackedges finds.
Function ==
    [fn: Fns,
     blocks: Seq([preds: Seq(Nat), instrs: Seq(Instr), term: Terminator]),
     back: SUBSET (Nat \X Nat)]

\* An integer in a global initializer, with the aggregates around it: a
\* ConstantStruct, of a named or an anonymous type, a ConstantArray, of structs,
\* of integers or of neither, or something else: an array of integers that LLVM
\* packs (ConstantDataArray), a zeroinitializer.
InitLeaf ==
    [path: Seq({"named", "anon", "structs", "ints", "array", "data", "zero"}),
     literal: BOOLEAN,
     id: Id, c: Nat, w: Widths]

\* What LLVM demands of a function f: the values it names are there and have
\* the types their users need.
IsOperand(f, v) ==
    \/ v.kind = "const"
    \/ /\ v.kind = "instr"
       /\ v.b \in DOMAIN f.blocks /\ v.i \in DOMAIN f.blocks[v.b].instrs
       /\ f.blocks[v.b].instrs[v.i].w = v.w

WellTyped(f, J) ==
    /\ J.op \in {"store", "return"} /\ J.val.w > 0 => IsOperand(f, J.val)
    /\ J.op = "call" =>
         \A n \in DOMAIN J.args : J.args[n].w > 0 => IsOperand(f, J.args[n])
    /\ J.op \in {"add", "sub", "sdiv", "urem", "srem", "ashr", "xor"} =>
         \A v \in {J.l, J.r} : IsOperand(f, v) /\ v.w = J.w
    /\ J.op = "select" => \A v \in {J.t, J.f} : IsOperand(f, v) /\ v.w = J.w
    /\ J.op \in {"trunc", "zext", "sext"} => IsOperand(f, J.val)
    /\ J.op = "sext" => J.val.w <= J.w
    /\ J.op = "phi" =>
         \A n \in DOMAIN J.in :
            /\ J.in[n].pred \in DOMAIN f.blocks
            /\ IsOperand(f, J.in[n].val) /\ J.in[n].val.w = J.w

WellFormed(f) ==
    \A b \in DOMAIN f.blocks :
        LET T == f.blocks[b].term
        IN /\ \A n \in DOMAIN f.blocks[b].preds : f.blocks[b].preds[n] \in DOMAIN f.blocks
           /\ \A i \in DOMAIN f.blocks[b].instrs : WellTyped(f, f.blocks[b].instrs[i])
           /\ T.op = "br" => /\ T.cb \in DOMAIN f.blocks
                             /\ IsOperand(f, T.l) /\ IsOperand(f, T.r) /\ T.l.w = T.r.w
           /\ T.op = "switch" => IsOperand(f, T.val)

ASSUME RangeAssumption ==
    /\ Fns \subseteq GlobalValue
    /\ Opaque \subseteq Fns
    /\ SourceIds \subseteq Id
    /\ MaxIterations \in Nat \ {0}
    /\ Programs \subseteq [init: [ModuleNo -> Seq(InitLeaf)],
                           code: [ModuleNo -> Seq(Function)]]
    /\ \A p \in Programs : \A m \in ModuleNo : \A n \in DOMAIN p.code[m] :
         WellFormed(p.code[m][n])

----------------------------------------------------------------------------
VARIABLES
    prog,       \* the program under analysis
    IntRanges,  \* identifier -> range
    Changes,    \* the identifiers this sweep has changed
    FuncVRMs,   \* block of the current function -> value -> range
    fi,         \* the function of the module being visited
    bi,         \* its block
    pi,         \* the next predecessor of the block to merge
    ii,         \* the next instruction of the block
    Changed,    \* this sweep over the module has changed something
    ret,        \* an earlier sweep over the module has
    itr,        \* the number of the sweep over the module
    Meta        \* "intrange" metadata: <<module, function, block, instr>> -> range

position == <<fi, bi, pi, ii>>
passVars == <<IntRanges, Changes, FuncVRMs, position, Changed, ret, itr, Meta>>
vars == <<driverVars, prog, passVars>>

Functions == prog.code[mod]
F == Functions[fi]
BB == F.blocks[bi]
I == BB.instrs[ii]

TypeOK ==
    /\ DriverTypeOK
    /\ prog \in Programs
    /\ DOMAIN IntRanges \subseteq Id
    /\ \A x \in DOMAIN IntRanges : IntRanges[x] \in CRange /\ IntRanges[x].s # {}
    /\ Changes \subseteq DOMAIN IntRanges
    /\ \A b \in DOMAIN FuncVRMs : \A v \in DOMAIN FuncVRMs[b] :
         FuncVRMs[b][v] \in CRange
    /\ fi \in Nat /\ bi \in Nat /\ pi \in Nat /\ ii \in Nat /\ itr \in Nat
    /\ Changed \in BOOLEAN /\ ret \in BOOLEAN
    /\ \A s \in DOMAIN Meta : Meta[s] \in CRange

Empty == [x \in {} |-> {}]

Init ==
    /\ DriverInit
    /\ prog \in Programs
    /\ IntRanges = Empty /\ Changes = {} /\ Meta = Empty
    /\ FuncVRMs = Empty
    /\ fi = 1 /\ bi = 0 /\ pi = 1 /\ ii = 1
    /\ Changed = FALSE /\ ret = FALSE /\ itr = 1

----------------------------------------------------------------------------
(* unionRange and getRange *)

\* A last writer that wins, and unionRange(sID, R), on a value IR of IntRanges.
OverwriteId(IR, id, r) ==
    IF r.s = {} THEN IR
    ELSE [x \in DOMAIN IR \cup {id} |-> IF x = id THEN r ELSE IR[x]]

UnionId(IR, id, r) ==
    IF r.s = {} THEN IR
    ELSE [x \in DOMAIN IR \cup {id} |->
            IF x # id THEN IR[x]
            ELSE IF id \in DOMAIN IR THEN safeUnion(IR[id], r) ELSE r]

\* A sequence of them, in order.
UnionAll(IR, ups) ==
    LET after[n \in 0..Len(ups)] ==
            IF n = 0 THEN IR ELSE UnionId(after[n - 1], ups[n].id, ups[n].r)
    IN after[Len(ups)]

\* The union of a sequence of ranges at width w.
UnionOf(w, rs) ==
    LET upto[n \in 0..Len(rs)] ==
            IF n = 0 THEN EmptyRange(w) ELSE safeUnion(upto[n - 1], rs[n])
    IN upto[Len(rs)]

Found(IR, x, w) == IF x \in DOMAIN IR THEN IR[x] ELSE EmptyRange(w)

InstrAt(v) == F.blocks[v.b].instrs[v.i]

\* What IntRanges knows of a value: of a call, the union of what the callees
\* may return, of a load, its identifier.  A taint source may be anything.
GlobalRange(v) ==
    LET J == InstrAt(v) IN
    IF J.op = "call"
    THEN IF J.asm THEN EmptyRange(v.w)
         ELSE IF \E n \in DOMAIN J.callees : RetId(J.callees[n]) \in SourceIds
         THEN FullRange(v.w)
         ELSE UnionOf(v.w, [n \in DOMAIN J.callees |->
                              Found(IntRanges, RetId(J.callees[n]), v.w)])
    ELSE IF J.op # "load" \/ J.id = NoId THEN EmptyRange(v.w)
    ELSE IF J.id \in SourceIds THEN FullRange(v.w)
    ELSE zextOrTrunc(Found(IntRanges, J.id, v.w), v.w)

getRange(vrms, b, v) ==
    IF v.kind = "const" THEN Singleton(v.w, v.c)
    ELSE IF v \in DOMAIN vrms[b] THEN vrms[b][v]
    ELSE GlobalRange(v)

\* getRange keeps what it has found in the map of the block.
Ask(vrms, b, vals) ==
    LET fresh == {v \in vals : /\ v.kind = "instr" /\ v \notin DOMAIN vrms[b]
                               /\ GlobalRange(v).s # {}}
    IN [vrms EXCEPT ![b] = [v \in DOMAIN @ \cup fresh |->
                              IF v \in fresh THEN GlobalRange(v) ELSE @[v]]]

\* The union of the maps V and W of two blocks.
UnionMaps(V, W) ==
    [v \in DOMAIN V \cup DOMAIN W |->
        IF v \notin DOMAIN W THEN V[v]
        ELSE IF v \notin DOMAIN V THEN W[v] ELSE safeUnion(V[v], W[v])]

----------------------------------------------------------------------------
(* visitTerminator: the map of a predecessor, refined for the edge to block b *)

\* std::map::insert leaves a value that already has a range alone.
InsertAbsent(V, v, r) ==
    IF v.kind = "const" \/ v \in DOMAIN V THEN V
    ELSE [u \in DOMAIN V \cup {v} |-> IF u = v THEN r ELSE V[u]]

visitBranchInst(vrms, T, b, V) ==
    LET L == getRange(vrms, T.cb, T.l)
        R == match(getRange(vrms, T.cb, T.r), L)
        taken == T.then = b
        PL == IF taken THEN makeICmpRegion(getSwappedPredicate(T.pred), L)
              ELSE makeICmpRegion(getInversePredicate(getSwappedPredicate(T.pred)), R)
        PR == IF taken THEN makeICmpRegion(T.pred, R)
              ELSE makeICmpRegion(getInversePredicate(T.pred), R)
    IN InsertAbsent(InsertAbsent(V, T.l, intersectWith(L, PR)),
                    T.r, intersectWith(L, PL))

visitSwitchInst(vrms, p, T, b, V) ==
    LET w == T.val.w
        arms == IF T.default = b THEN DOMAIN T.cases
                ELSE {n \in DOMAIN T.cases : T.cases[n].to = b}
        CR == UnionOf(w, [n \in DOMAIN T.cases |->
                            IF n \in arms THEN Singleton(w, T.cases[n].c)
                            ELSE EmptyRange(w)])
        reach == IF T.default = b THEN [w |-> w, s |-> Ring(w) \ CR.s] ELSE CR
    IN InsertAbsent(V, T.val, intersectWith(getRange(vrms, p, T.val), reach))

Asked(T) ==
    CASE T.op = "br" -> {T.l, T.r} [] T.op = "switch" -> {T.val} [] OTHER -> {}

visitTerminator(vrms, p, T, b, V) ==
    CASE T.op = "br" -> visitBranchInst(vrms, T, b, V)
      [] T.op = "switch" -> visitSwitchInst(vrms, p, T, b, V)
      [] OTHER -> V

----------------------------------------------------------------------------
(* updateRangeFor(BasicBlock) and updateRangeFor(Function) *)

InFunction == InModulePass /\ fi <= Len(Functions) /\ bi > 0
InBlock == InFunction /\ bi <= Len(F.blocks)
Merged == InBlock /\ pi > Len(BB.preds)

passRest == <<driverVars, prog, Changed, ret, itr, Meta>>

BeginFunction ==
    /\ InModulePass /\ fi <= Len(Functions) /\ bi = 0
    /\ FuncVRMs' = [b \in DOMAIN F.blocks |-> Empty]
    /\ bi' = 1
    /\ UNCHANGED <<passRest, IntRanges, Changes, fi, pi, ii>>

MergePredecessor ==
    /\ InBlock /\ pi <= Len(BB.preds)
    /\ LET p == BB.preds[pi]
           T == F.blocks[p].term
           asked == Ask(FuncVRMs, IF T.op = "br" THEN T.cb ELSE p, Asked(T))
           refined == visitTerminator(asked, p, T, bi, FuncVRMs[p])
       IN FuncVRMs' = IF <<p, bi>> \in F.back THEN FuncVRMs
                      ELSE [asked EXCEPT ![bi] = UnionMaps(@, refined)]
    /\ pi' = pi + 1
    /\ UNCHANGED <<passRest, IntRanges, Changes, fi, bi, ii>>

NextBlock ==
    /\ Merged /\ ii > Len(BB.instrs)
    /\ bi' = bi + 1 /\ pi' = 1 /\ ii' = 1
    /\ UNCHANGED <<passRest, IntRanges, Changes, FuncVRMs, fi>>

NextFunction ==
    /\ InFunction /\ bi > Len(F.blocks)
    /\ fi' = fi + 1 /\ bi' = 0 /\ pi' = 1 /\ ii' = 1
    /\ UNCHANGED <<passRest, IntRanges, Changes, FuncVRMs>>

----------------------------------------------------------------------------
(* updateRangeFor(Instruction) *)

IsInt(v) == v.w > 0

\* visitCallInst: the arguments of the callees, one callee after the other,
\* then the return value of the call itself.
CallUpdates(vrms, J) ==
    LET k == Len(J.args)
        entered(n) == J.callees[((n - 1) \div k) + 1]
        arg(n) == J.args[((n - 1) % k) + 1]
    IN [n \in 1..(k * Len(J.callees)) |->
          [id |-> ArgId(entered(n), (n - 1) % k),
           r |-> IF entered(n) \in Opaque \/ ~IsInt(arg(n)) THEN EmptyRange(0)
                 ELSE getRange(vrms, bi, arg(n))]]
       \o (IF J.w = 0 THEN <<>>
           ELSE <<[id |-> J.retId,
                   r |-> getRange(vrms, bi, [kind |-> "instr", b |-> bi, i |-> ii, w |-> J.w])]>>)

\* What a store, return or call hands to unionRange.  visitStoreInst also
\* keeps the range under the pointer, where nothing looks for it.
Updates(vrms, J) ==
    CASE J.op = "store" /\ IsInt(J.val) /\ J.id # NoId ->
            <<[id |-> J.id, r |-> getRange(vrms, bi, J.val)]>>
      [] J.op = "return" /\ IsInt(J.val) ->
            <<[id |-> RetId(F.fn), r |-> getRange(vrms, bi, J.val)]>>
      [] J.op = "call" /\ ~J.asm /\ J.callees # <<>> -> CallUpdates(vrms, J)
      [] OTHER -> <<>>

\* The incoming values of a phi that do not come over a back edge.
Incoming(J) == {n \in DOMAIN J.in : <<J.in[n].pred, bi>> \notin F.back}

\* The range of the result.
Result(vrms, J) ==
    LET get(v) == getRange(vrms, bi, v)
        this == [kind |-> "instr", b |-> bi, i |-> ii, w |-> J.w]
    IN CASE J.op = "add" -> add(get(J.l), match(get(J.r), get(J.l)))
         [] J.op = "sub" -> sub(get(J.l), match(get(J.r), get(J.l)))
         [] J.op = "sdiv" -> sdiv(get(J.l), match(get(J.r), get(J.l)))
         [] J.op \in {"urem", "srem"} -> match(get(J.r), get(J.l))
         [] J.op \in {"ashr", "xor"} -> get(J.l)
         [] J.op \in {"trunc", "zext"} -> zextOrTrunc(get(J.val), J.w)
         [] J.op = "sext" -> signExtend(get(J.val), J.w)
         [] J.op = "select" -> safeUnion(get(J.t), get(J.f))
         [] J.op = "phi" ->
               UnionOf(J.w, [n \in DOMAIN J.in |->
                   IF n \in Incoming(J) THEN getRange(vrms, J.in[n].pred, J.in[n].val)
                   ELSE EmptyRange(J.w)])
         [] J.op \in {"load", "call"} -> get(this)
         [] OTHER -> FullRange(J.w)

\* The values getRange is asked for in the block of the instruction.
Operands(J) ==
    CASE J.op \in {"store", "return", "trunc", "zext", "sext"} -> {J.val}
      [] J.op \in {"add", "sub", "sdiv", "urem", "srem", "ashr", "xor"} -> {J.l, J.r}
      [] J.op = "select" -> {J.t, J.f}
      [] J.op = "call" ->
            IF J.asm \/ J.callees \in Seq(Opaque) THEN {}
            ELSE {v \in {J.args[n] : n \in DOMAIN J.args} : IsInt(v)}
      [] OTHER -> {}

\* ... and in the blocks a phi merges.
AskAll(vrms, J) ==
    [b \in DOMAIN vrms |->
        Ask(vrms, b, IF J.op = "phi"
                     THEN {J.in[n].val : n \in {m \in Incoming(J) : J.in[m].pred = b}}
                     ELSE IF b = bi THEN Operands(J) ELSE {})[b]]

VisitInstruction ==
    /\ Merged /\ ii <= Len(BB.instrs)
    /\ LET ups == Updates(FuncVRMs, I)
           after == UnionAll(IntRanges, ups)
           grown == {x \in DOMAIN after :
                       x \notin DOMAIN IntRanges \/ after[x] # IntRanges[x]}
           asked == AskAll(FuncVRMs, I)
           this == [kind |-> "instr", b |-> bi, i |-> ii, w |-> I.w]
           R == Result(FuncVRMs, I)
       IN /\ IntRanges' = after
          /\ Changes' = Changes \cup grown
          /\ Changed' = (Changed \/ grown # {})
          /\ FuncVRMs' = IF I.w = 0 \/ R.s = {} THEN asked
                         ELSE [asked EXCEPT ![bi] =
                                 UnionMaps(@, [v \in {this} |-> R])]
    /\ ii' = ii + 1
    /\ UNCHANGED <<driverVars, prog, fi, bi, pi, ret, itr, Meta>>

----------------------------------------------------------------------------
(* doModulePass *)

\* A pass that never gives a slow value up.
WidenNothing(IR) == IR

\* "if some values converge too slowly, expand them to full-set"
Widen(IR) ==
    [x \in DOMAIN IR |-> IF x \in Changes THEN FullRange(IR[x].w) ELSE IR[x]]

AtEnd == InModulePass /\ fi > Len(Functions)

SweepAgain ==
    /\ AtEnd
    /\ Changed
    /\ itr' = itr + 1
    /\ IntRanges' = IF itr' > MaxIterations THEN Widen(IntRanges) ELSE IntRanges
    /\ Changes' = {} /\ Changed' = FALSE /\ ret' = TRUE
    /\ fi' = 1
    /\ UNCHANGED <<driverVars, prog, FuncVRMs, bi, pi, ii, Meta>>

ReturnFromModule ==
    /\ AtEnd
    /\ ~Changed
    /\ EndModulePass(ret)
    /\ fi' = 1 /\ itr' = 1 /\ ret' = FALSE
    /\ UNCHANGED <<prog, IntRanges, Changes, FuncVRMs, bi, pi, ii, Changed, Meta>>

----------------------------------------------------------------------------
(* doInitialization and doFinalization *)

\* collectInitializers descends into named structs and arrays of structs or of
\* integers, but into no array inside a struct; string literals are skipped.
Collected(leaf) ==
    /\ ~leaf.literal
    /\ \A n \in DOMAIN leaf.path : leaf.path[n] \in {"named", "structs", "ints"}
    /\ \A n \in 2..Len(leaf.path) : leaf.path[n - 1] # "named" \/ leaf.path[n] = "named"

\* What unionRange adds to Changes here is cleared before it is read.
doInitialization ==
    /\ ForModule("init")
    /\ LET leaves == prog.init[mod]
       IN IntRanges' = UnionAll(IntRanges,
              [n \in DOMAIN leaves |->
                 [id |-> leaves[n].id,
                  r |-> IF Collected(leaves[n]) THEN Singleton(leaves[n].w, leaves[n].c)
                        ELSE EmptyRange(leaves[n].w)]])
    /\ UNCHANGED <<prog, Changes, FuncVRMs, position, Changed, ret, itr, Meta>>

\* The instructions of module m, by function, block and position.
Sites(m) ==
    LET fs == prog.code[m]
    IN UNION {UNION {{<<m, f, b, i>> : i \in DOMAIN fs[f].blocks[b].instrs} :
                     b \in DOMAIN fs[f].blocks} : f \in DOMAIN fs}

At(s) == prog.code[s[1]][s[2]].blocks[s[3]].instrs[s[4]]

\* A load or call is marked with the range of its identifier, when it has one
\* that says something.
doFinalization ==
    /\ ForModule("final")
    /\ LET marked == {s \in Sites(mod) :
                        /\ At(s).op \in {"load", "call"}
                        /\ At(s).id \in DOMAIN IntRanges \ {NoId}
                        /\ IntRanges[At(s).id].s # Ring(IntRanges[At(s).id].w)}
       IN Meta' = [s \in DOMAIN Meta \cup marked |->
                     IF s \in DOMAIN Meta THEN Meta[s] ELSE IntRanges[At(s).id]]
    /\ UNCHANGED <<prog, IntRanges, Changes, FuncVRMs, position, Changed, ret, itr>>

Drive ==
    /\ BeginSweep \/ BeginFinal \/ Finish
    /\ UNCHANGED <<prog, passVars>>

Done == phase = "done" /\ UNCHANGED vars

Next ==
    \/ doInitialization \/ Drive \/ Done
    \/ BeginFunction \/ MergePredecessor \/ VisitInstruction
    \/ NextBlock \/ NextFunction
    \/ SweepAgain \/ ReturnFromModule
    \/ doFinalization

Spec == Init /\ [][Next]_vars

\* run() is one thread that never waits.
FairSpec == Spec /\ WF_vars(Next)

----------------------------------------------------------------------------
(* Properties; the soundness of the ranges is in RangeMeaning *)

\* A module is swept a bounded number of times, whatever the widths: from
\* sweep MaxIterations on, every sweep but the last gives up at least one
\* identifier that had not been given up before.
SweepsBounded == itr <= MaxIterations + Cardinality(DOMAIN IntRanges)

\* "constrained by each terminator" (Range.cc:431): behind the edge a branch
\* takes when x < c, the range of x satisfies x < c.
ConstrainedByTerminator ==
    InBlock /\ pi = 2 /\ ii = 1 /\ Len(BB.preds) = 1 =>
        LET T == F.blocks[BB.preds[1]].term IN
        T.op = "br" /\ T.then = bi /\ T.else # bi /\ T.r.kind = "const"
          /\ T.l \in DOMAIN FuncVRMs[bi]
        => FuncVRMs[bi][T.l].s
             \subseteq makeICmpRegion(T.pred, Singleton(T.r.w, T.r.c)).s

\* The sweeps over the modules end.
Terminates == <>(phase = "done")
=============================================================================
