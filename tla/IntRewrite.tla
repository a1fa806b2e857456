----------------------------- MODULE IntRewrite -----------------------------
(***************************************************************************)
(* IntRewrite (src/src/IntRewrite.cc): where the calls of int.sat, the      *)
(* traps that IntSat later asks the solver about, are put.  A signed        *)
(* overflow is trapped where it happens; any other overflow only in blocks  *)
(* where something that depends on the result is observed, or where it      *)
(* happens if such a block is its own or is not dominated by its own.  To   *)
(* observe is to return it, to leave a loop or not by it, or whatever LLVM  *)
(* does not execute speculatively, phi nodes included.                      *)
(* Divisions, shifts and array indices are trapped where they stand.        *)
(*                                                                          *)
(* Once the pass is done the function runs.  Which operations overflow is   *)
(* not decided: each is taken to, so that every execution has to come by    *)
(* the trap of what it observes.                                            *)
(***************************************************************************)
EXTENDS Cfg, SequencesExt

CONSTANTS
    Programs,  \* the functions looked at
    WrapOpts   \* what -fwrapv may be

\* What the program names; the names the pass gives have more parts.
Name == [{1} -> STRING]

\* ops: the values an instruction reads, of a phi by the block it is entered
\* from.  "plain" is safe to execute speculatively, "effect" is not.  Of what is
\* trapped where it stands, "div" is a division that may fail, and "shift" is the
\* rest, safe to execute speculatively: shifts, array indices, and divisions by
\* a constant that never fail.  ptr says that an operand is a ptrtoint.
\* "overflow" (the intrinsic and its second result) and "sat" are inserted.
Instr ==
    [name: Name, op: {"add", "plain", "effect", "shift", "div"}, ops: SUBSET Name,
     nsw: BOOLEAN, ptr: BOOLEAN]
      \cup [name: Name, op: {"phi"}, ops: [Block -> SUBSET Name],
            nsw: BOOLEAN, ptr: BOOLEAN]

Term == [op: {"br", "ret"}, to: Seq(Block), ops: SUBSET Name]

Function == [Block -> [code: Seq(Instr), term: Term]]

ASSUME IntRewriteAssumption ==
    /\ NumBlocks \in Nat \ {0}
    /\ WrapOpts \subseteq BOOLEAN
    /\ Programs \subseteq Function

VARIABLES
    WrapOpt,   \* -fwrapv
    bb, i,     \* the instruction runOnFunction has come to
    at, pos,   \* the instruction an execution is at, 0 before it starts
    came,      \* the block it has come from
    computed,  \* the values it has computed
    live,      \* value -> the operations whose last result it depends on
    seen,      \* operations whose last result has been observed ...
    caught     \* ... and those whose trap has been passed since

passVars == <<prog, WrapOpt, bb, i>>
runVars == <<at, pos, came, computed, live, seen, caught>>
vars == <<passVars, runVars>>

Code(b) == prog[b].code
Places == UNION {{<<b, j>> : j \in 1..(Len(Code(b)) + 1)} : b \in Block}
AtTerm(p) == p[2] = Len(Code(p[1])) + 1

\* What stands at a place reads; the terminator stands behind the code.
Reads(I) == IF I.op = "phi" THEN UNION {I.ops[b] : b \in Block} ELSE I.ops
Operands(p) == IF AtTerm(p) THEN prog[p[1]].term.ops ELSE Reads(Code(p[1])[p[2]])
Defined(b) == {Code(b)[j].name : j \in DOMAIN Code(b)}
Names == UNION {Defined(b) : b \in Block}

\* SSA: one definition each ...
OneDefinition ==
    \A p, q \in Places :
        ~AtTerm(p) /\ ~AtTerm(q) /\ Code(p[1])[p[2]].name = Code(q[1])[q[2]].name
            => p = q

\* What is defined before the instruction in its block, and in the blocks that
\* dominate it.
Before(b, j) == {Code(b)[k].name : k \in 1..(j - 1)}
Above(b) == UNION {Defined(d) : d \in {c \in Block : c # b /\ Dominates(c, b)}}

\* ... before its uses, or in a block that dominates them.
WellFormed ==
    /\ Preds(Entry) = {}
    /\ \A j \in DOMAIN Code(Entry) : Code(Entry)[j].op # "phi"
    /\ \A b \in Block : ~Dominates(0, b)
    /\ OneDefinition
    /\ \A p \in Places :
         IF ~AtTerm(p) /\ Code(p[1])[p[2]].op = "phi"
         THEN \A b \in Preds(p[1]) : Code(p[1])[p[2]].ops[b] \subseteq Defined(b) \cup Above(b)
         ELSE Operands(p) \subseteq Before(p[1], p[2]) \cup Above(p[1])

Init ==
    /\ prog \in Programs /\ WellFormed
    /\ WrapOpt \in WrapOpts
    /\ bb = 1 /\ i = 1
    /\ at = 0 /\ pos = 0 /\ came = 0
    /\ computed = {} /\ live = [v \in {} |-> {}]
    /\ seen = {} /\ caught = {}

----------------------------------------------------------------------------
(* isObservable and the uses of a value *)

\* What isSafeToSpeculativelyExecute says no to, of what the pass is given.
Unspeculatable == {"effect", "div", "phi"}

isObservable(p) ==
    IF ~AtTerm(p) THEN Code(p[1])[p[2]].op \in Unspeculatable \cup {"sat"}
    ELSE prog[p[1]].term.op = "ret" \/ isLoopExiting(p[1])

Users(v) == {p \in Places : v \in Operands(p)}

\* Without the worklist, to show what it is needed for.
JustItself(v) == {v}

\* The worklist: v and what is computed from it without being observed.
Dependents(v) ==
    LET Grow(S) ==
          S \cup {Code(p[1])[p[2]].name :
                    p \in {q \in UNION {Users(x) : x \in S} :
                             ~AtTerm(q) /\ ~isObservable(q)}}
        R[n \in Nat] == IF n = 0 THEN {v} ELSE Grow(R[n - 1])
    IN R[Cardinality(Names)]

\* The blocks where one of them is observed.
ObPoints(v) ==
    {p[1] : p \in {q \in UNION {Users(x) : x \in Dependents(v)} : isObservable(q)}}

----------------------------------------------------------------------------
(* runOnFunction *)

Current == Code(bb)[i]
Visiting == bb <= NumBlocks /\ i <= Len(Code(bb))

\* The value the intrinsic yields beside the result has a name of its own.
OverflowOf(x) == <<"overflow", x>>
SatOf(x, b) == <<"sat", x, b>>
Sat(I, b, ops) == [name |-> SatOf(I.name, b), op |-> "sat", ops |-> ops, of |-> I.name]

NextInstruction(inserted) == i' = i + inserted + 1 /\ UNCHANGED <<WrapOpt, bb, runVars>>

Pass == UNCHANGED prog /\ NextInstruction(0)

\* A check in another block of its own is only moved if that block cannot be
\* reached without the operation; the second form forgets to ask.
FallsBackAtHome(obs, b) == b \in obs

FallsBack(obs, b) == \E o \in obs : o = b \/ ~Dominates(b, o)

insertOverflowCheck ==
    /\ Visiting /\ Current.op = "add" /\ ~Current.ptr
    /\ LET I == Current
           overflow == [name |-> OverflowOf(I.name), op |-> "overflow", ops |-> I.ops,
                        of |-> I.name]
           sat(b) == Sat(I, b, {OverflowOf(I.name)})
           eager == I.nsw /\ ~WrapOpt
           obs == ObPoints(I.name)
           here == eager \/ FallsBack(obs, bb)
           kept == [I EXCEPT !.nsw = eager]
           front == SubSeq(Code(bb), 1, i - 1)
           back == SubSeq(Code(bb), i + 1, Len(Code(bb)))
       IN /\ prog' = [b \in Block |->
                IF b = bb
                THEN [prog[b] EXCEPT !.code =
                        front \o (IF here THEN <<overflow, sat(bb), kept>>
                                  ELSE <<overflow, kept>>) \o back]
                ELSE IF ~here /\ b \in obs
                THEN [prog[b] EXCEPT !.code = Append(@, sat(b))]
                ELSE prog[b]]
          /\ NextInstruction(IF here THEN 2 ELSE 1)

\* insertDivCheck, insertShiftCheck, insertArrayCheck
insertCheck ==
    /\ Visiting /\ Current.op \in {"div", "shift"}
    /\ prog' = [prog EXCEPT ![bb].code = InsertAt(@, i, Sat(Current, bb, Current.ops))]
    /\ NextInstruction(1)

Skip ==
    /\ Visiting
    /\ Current.op \in {"add", "div", "shift"} => Current.op = "add" /\ Current.ptr
    /\ Pass

NextBlock ==
    /\ bb <= NumBlocks /\ i > Len(Code(bb))
    /\ bb' = bb + 1 /\ i' = 1
    /\ UNCHANGED <<prog, WrapOpt, runVars>>

----------------------------------------------------------------------------
(* An execution of the rewritten function *)

Start ==
    /\ bb > NumBlocks /\ at = 0
    /\ at' = Entry /\ pos' = 1
    /\ UNCHANGED <<passVars, came, computed, live, seen, caught>>

\* The operations whose last results these values depend on.
Origins(vs) == UNION {live[v] : v \in vs \cap computed}

Compute(name, origins, gone) ==
    /\ computed' = computed \cup {name}
    /\ live' = [v \in computed' |-> (IF v = name THEN origins ELSE live[v]) \ gone]

\* An operation begins anew where its overflow is computed: nothing depends on
\* this result yet.
Step ==
    /\ at # 0 /\ ~AtTerm(<<at, pos>>)
    /\ LET I == Code(at)[pos]
           reads == IF I.op = "phi" THEN I.ops[came] ELSE I.ops
           fresh == IF I.op = "overflow" THEN {I.of} ELSE {}
           mine == IF OverflowOf(I.name) \in computed THEN {I.name} ELSE {}
       IN /\ Compute(I.name, Origins(reads) \cup mine, fresh)
          /\ caught' = (caught \ fresh) \cup (IF I.op = "sat" THEN {I.of} ELSE {})
          /\ seen' = (seen \ fresh)
                       \cup (IF I.op \in Unspeculatable THEN Origins(reads) ELSE {})
    /\ pos' = pos + 1
    /\ UNCHANGED <<passVars, at, came>>

Branch ==
    /\ at # 0 /\ AtTerm(<<at, pos>>)
    /\ \E k \in DOMAIN Succs(at) : at' = Succs(at)[k]
    /\ came' = at /\ pos' = 1
    /\ UNCHANGED <<passVars, computed, live, seen, caught>>

Return == at # 0 /\ AtTerm(<<at, pos>>) /\ prog[at].term.op = "ret" /\ UNCHANGED vars

Next ==
    \/ insertOverflowCheck \/ insertCheck \/ Skip \/ NextBlock
    \/ Start \/ Step \/ Branch \/ Return

Spec == Init /\ [][Next]_vars

----------------------------------------------------------------------------
(* Properties *)

\* What the terminator of the block shows of its operand: the value returned,
\* or that a loop is left or not.
Shown == IF isObservable(<<at, pos>>) THEN Origins(prog[at].term.ops) ELSE {}

\* When an execution has come to the end of a block, every operation whose last
\* result has been observed has been trapped since it was computed: no trap is
\* moved to where the observation does not come by.
ObservedIsTrapped ==
    at # 0 /\ AtTerm(<<at, pos>>) =>
        \A x \in seen \cup Shown : OverflowOf(x) \in computed => x \in caught

\* A trap is only moved to where the overflow it reads has been computed, on
\* every path, and the values an instruction reads always have been.
ReadsAreComputed ==
    at # 0 /\ ~AtTerm(<<at, pos>>) =>
        LET I == Code(at)[pos]
        IN (IF I.op = "phi" THEN I.ops[came] ELSE I.ops) \subseteq computed
=============================================================================
