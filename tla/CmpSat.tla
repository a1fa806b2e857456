------------------------------- MODULE CmpSat -------------------------------
(***************************************************************************)
(* The two clients of PathGen, and executions of the function they look at. *)
(* CmpSat (src/src/CmpSat.cc) reports the branches whose condition cannot   *)
(* be true, or cannot be false, on the way it is reached; IntSat (src/src/  *)
(* IntSat.cc) reports a trap that it finds a model for.  Once the pass is   *)
(* done the function itself runs, so that what the pass has said can be     *)
(* held against what executions do.                                         *)
(***************************************************************************)
EXTENDS PathGen

VARIABLES
    bb,       \* the block the pass has come to, 0 before and after it runs
    finished, \* the pass is done
    asked,    \* CmpSat: the first query about the branch of bb was not UNSAT
    Reports,  \* CmpSat: block -> what is said about its branch
    model,    \* IntSat: a trap reported with a model of it, or None
    at,       \* the block the execution is in, 0 before it starts
    env,      \* the SSA values it has computed
    loops,    \* it has taken a back edge
    visited   \* the blocks it has been in

passVars == <<bb, finished, asked, Reports, model>>
runVars == <<at, env, loops, visited>>
vars == <<prog, DT, Backedges, passVars, runVars>>

ASSUME PathGenAssumption ==
    /\ NumBlocks \in Nat \ {0}
    /\ \A f \in Programs : IsFunction(f)

None == [block |-> 0]

\* What SSA demands of a function: a value is defined once, in a block that
\* dominates its uses, and the entry has no predecessors.  Beyond that no
\* block is dead, and no branch has two successors that are one block, nor a
\* switch a case for its default: simplifycfg, which intck runs first, leaves
\* none of these.
Computed(b) == prog[b].defs \cup DOMAIN prog[b].phis

Available(x, b) == \E d \in Block : x \in Computed(d) /\ Dominates(d, b)

Used(t) == IF t.op \in {"condbr", "switch"} THEN {t.v} ELSE {}

WellFormed ==
    /\ Preds(Entry) = {}
    /\ \A b \in Block : ~Dominates(0, b)
    /\ \A b, d \in Block : Computed(b) \cap Computed(d) # {} => b = d
    /\ \A b \in Block :
         /\ \A x \in Used(prog[b].term) : Available(x, b)
         /\ \A x \in DOMAIN prog[b].phis : \A p \in Preds(b) :
              prog[b].phis[x][p].op = "var" => Available(prog[b].phis[x][p].v, p)
         /\ \A i \in DOMAIN Succs(b) : i # 1 => Succs(b)[i] # Succs(b)[1]

IsBranch(b) == prog[b].term.op = "condbr"

Init ==
    /\ prog \in Programs /\ WellFormed
    /\ DT \in BOOLEAN
    /\ Backedges = {}
    /\ bb = 0 /\ finished = FALSE /\ asked = FALSE
    /\ Reports = [b \in {} |-> {}] /\ model = None
    /\ at = 0 /\ env \in {CHOOSE e \in Env : TRUE}
    /\ loops = FALSE /\ visited = {}

----------------------------------------------------------------------------
(* runOnFunction, of either pass *)

BeginFunction ==
    /\ bb = 0 /\ ~finished
    /\ Backedges' = FindFunctionBackedges
    /\ bb' = 1
    /\ UNCHANGED <<prog, DT, finished, asked, Reports, model, runVars>>

\* CmpSat clears the list when it is done, IntSat before it begins.
EndFunction ==
    /\ bb = NumBlocks + 1
    /\ Backedges' = IF DT THEN {} ELSE Backedges
    /\ bb' = 0 /\ finished' = TRUE
    /\ UNCHANGED <<prog, DT, asked, Reports, model, runVars>>

----------------------------------------------------------------------------
(* CmpSat::check *)

Holds(t, e) == e[t.v] = t.c
ValuePred == {e \in Env : Holds(prog[bb].term, e)}

\* Only a query without a model is UNSAT; the solver may also give up on one.
MayBeUnsat(q) == q = {}

NextBlock == bb' = bb + 1 /\ asked' = FALSE

SkipBlock ==
    /\ DT /\ bb \in Block /\ ~IsBranch(bb)
    /\ NextBlock
    /\ UNCHANGED <<prog, DT, Backedges, finished, Reports, model, runVars>>

Report(reason) == Reports' = [b \in DOMAIN Reports \cup {bb} |->
                                IF b = bb THEN reason ELSE Reports[b]]

FirstQuery ==
    /\ DT /\ bb \in Block /\ IsBranch(bb) /\ ~asked
    /\ \/ /\ MayBeUnsat(ValuePred \cap get[bb])
          /\ Report("CMP_FALSE")
          /\ NextBlock
       \/ asked' = TRUE /\ UNCHANGED <<bb, Reports>>
    /\ UNCHANGED <<prog, DT, Backedges, finished, model, runVars>>

\* The second query, about the next branch too.
SecondQuery ==
    /\ asked
    /\ \/ MayBeUnsat(get[bb] \ ValuePred) /\ Report("CMP_TRUE")
       \/ UNCHANGED Reports
    /\ NextBlock
    /\ UNCHANGED <<prog, DT, Backedges, finished, model, runVars>>

----------------------------------------------------------------------------
(* IntSat::query *)

\* The traps of a block: none is reported, or one is with a model of its path
\* (and of its condition, which may be any).  One report is followed.
QueryTraps ==
    /\ ~DT /\ bb \in Block
    /\ \/ UNCHANGED model
       \/ model' \in [block: {bb}, env: get[bb]]
    /\ NextBlock
    /\ UNCHANGED <<prog, DT, Backedges, finished, Reports, runVars>>

----------------------------------------------------------------------------
(* An execution of the function *)

\* What the environment yields: anything, or what the model says.
Yields(x) == IF model = None THEN Val ELSE {model.env[x]}

\* env after block b is entered from p: its phis all change at once.
Entered(b, p) ==
    LET phis == prog[b].phis
        May(x) == IF x \in DOMAIN phis /\ phis[x][p].op # "any"
                  THEN {Eval(phis[x][p], env)}
                  ELSE IF x \in DOMAIN phis \cup prog[b].defs THEN Yields(x)
                  ELSE {env[x]}
    IN {e \in Env : \A x \in Var : e[x] \in May(x)}

\* A value that has not been computed may be anything, too.
Start ==
    /\ finished /\ at = 0
    /\ at' = Entry /\ visited' = {Entry}
    /\ env' \in {e \in Env : \A x \in Var : e[x] \in Yields(x)}
    /\ UNCHANGED <<prog, DT, Backedges, passVars, loops>>

Taken(t, i) ==
    CASE t.op = "condbr" -> i = IF Holds(t, env) THEN 1 ELSE 2
      [] t.op = "switch" ->
            IF \E j \in DOMAIN t.cases : t.cases[j] = env[t.v]
            THEN i > 1 /\ t.cases[i - 1] = env[t.v] ELSE i = 1
      [] OTHER -> TRUE

Branch ==
    /\ at # 0
    /\ \E i \in DOMAIN Succs(at) :
         /\ Taken(prog[at].term, i)
         /\ at' = Succs(at)[i]
         /\ env' \in Entered(at', at)
         /\ loops' = (loops \/ isBackedge(at, at'))
         /\ visited' = visited \cup {at'}
    /\ UNCHANGED <<prog, DT, Backedges, passVars>>

Return == at # 0 /\ prog[at].term.op = "ret" /\ UNCHANGED vars

Next ==
    \/ BeginFunction \/ EndFunction
    \/ SkipBlock \/ FirstQuery \/ SecondQuery
    \/ QueryTraps
    \/ Start \/ Branch \/ Return

Spec == Init /\ [][Next]_vars

----------------------------------------------------------------------------
(* Properties *)

\* A branch that CmpSat calls always false (CmpSat.cc:22) is never taken to its
\* first successor, nor one it calls always true to its second, however often
\* the loops around it have run.
ReportsAreTrue ==
    at \in DOMAIN Reports =>
        Holds(prog[at].term, env) = (Reports[at] = "CMP_TRUE")

\* Until an execution takes a back edge, what it has computed satisfies the
\* path condition IntSat asks about in each block it comes to: a bug it runs
\* into by then is one that IntSat finds.
FirstRoundIsCovered ==
    ~DT /\ at # 0 /\ ~loops => env \in get[at]

\* The model IntSat reports is an execution: when the environment yields what
\* the model says, the function comes to the block of the trap with the
\* values of the model, before any back edge is taken.
ModelsAreExecutions ==
    model # None /\ at # 0 /\ (\A b \in Block : prog[b].term.op # "indirectbr") =>
        /\ at = model.block /\ ~loops => env = model.env
        /\ loops \/ Succs(at) = <<>> => model.block \in visited
=============================================================================
