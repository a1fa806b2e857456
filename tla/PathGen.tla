------------------------------ MODULE PathGen ------------------------------
(***************************************************************************)
(* PathGen (src/src/PathGen.cc): the condition under which an execution of  *)
(* a function reaches a block, built from the branches that lead to it.  It *)
(* is what IntSat and CmpSat conjoin to the expression they ask the solver  *)
(* about.  An expression is represented by its meaning, the set of the      *)
(* valuations of the function's SSA values that satisfy it.                 *)
(*                                                                          *)
(* Loops are cut in two ways.  IntSat passes the back edges only, and they  *)
(* are skipped; CmpSat passes a dominator tree too, and a block a back edge *)
(* leads to is given the condition of a block that dominates it.            *)
(***************************************************************************)
EXTENDS Cfg

CONSTANTS
    Var, Val,   \* its SSA values that are no constants, and what they may be
    Programs    \* the functions looked at

Env == [Var -> Val]

\* An incoming value of a phi.  "any" is undef, or of a type that
\* ValueGen::isAnalyzable refuses.
Value ==
    [op: {"var"}, v: Var] \cup [op: {"const"}, c: Val] \cup [op: {"any"}]

\* A terminator by its successors in order.  A branch takes the first if v is
\* c; a switch has its default first, and a case for each value of cases.
Term ==
    [op: {"ret"}, to: {<<>>}]
      \cup [op: {"br"}, to: [1..1 -> Block]]
      \cup [op: {"condbr"}, v: Var, c: Val, to: [1..2 -> Block]]
      \cup [op: {"indirectbr"}, to: Seq(Block)]
      \cup [op: {"switch"}, v: Var, cases: Seq(Val), to: Seq(Block)]

\* No two cases of a switch are the same.
OneSuccessorPerCase(t) ==
    /\ Len(t.to) = Len(t.cases) + 1
    /\ \A i, j \in DOMAIN t.cases : t.cases[i] = t.cases[j] => i = j

\* phis: for each phi of the block, its value by the block it is entered from;
\* defs: what the block computes (calls, loads, anything without an expression).
IsFunction(f) ==
    /\ DOMAIN f = Block
    /\ \A b \in Block :
         /\ DOMAIN f[b].phis \subseteq Var
         /\ \A x \in DOMAIN f[b].phis : f[b].phis[x] \in [Block -> Value]
         /\ f[b].defs \subseteq Var
         /\ f[b].term \in Term
         /\ f[b].term.op = "switch" => OneSuccessorPerCase(f[b].term)

VARIABLES
    DT,        \* PathGen is given a dominator tree
    Backedges  \* and what FindFunctionBackedges has found, or nothing yet

----------------------------------------------------------------------------
(* The guards *)

isBackedge(p, b) == <<p, b>> \in Backedges

\* The nearest block that dominates all predecessors of b.
findCommonDominator(b) ==
    LET common == {d \in Block : \A p \in Preds(b) : Dominates(d, p)}
    IN CHOOSE d \in common : \A c \in common : Dominates(c, d)

\* A branch compared with its second successor.
getTermGuardSwapped(t, b) ==
    IF t.op = "condbr" THEN {e \in Env : (e[t.v] = t.c) = (t.to[2] = b)} ELSE Env

\* The condition under which the terminator t goes to its successor b.
getTermGuard(t, b) ==
    CASE t.op = "condbr" -> {e \in Env : (e[t.v] = t.c) = (t.to[1] = b)}
      [] t.op = "switch" /\ t.to[1] # b ->
            {e \in Env : \E i \in DOMAIN t.cases :
                t.cases[i] = e[t.v] /\ t.to[i + 1] = b}
      [] t.op = "switch" /\ t.to[1] = b ->
            {e \in Env : \A i \in DOMAIN t.cases : t.cases[i] # e[t.v]}
      [] OTHER -> Env

Eval(x, e) == IF x.op = "var" THEN e[x.v] ELSE x.c

\* The guard without the values of the phis.
getPHIGuardTrue(b, p) == Env

\* What the phis of b are when it is entered from p.
getPHIGuard(b, p) ==
    LET phis == prog[b].phis
    IN {e \in Env : \A x \in DOMAIN phis :
            phis[x][p].op # "any" => e[x] = Eval(phis[x][p], e)}

\* A block that a back edge leads to is not treated apart.
FallsBackNever(b) == FALSE

\* With a dominator tree: fall back to a common ancestor if any back edges.
FallsBack(b) == DT /\ \E p \in Preds(b) : isBackedge(p, b)

\* get(b) for every block.  Cache only saves work: the expression of a block
\* does not depend on when it is asked for.
get ==
    LET G[b \in Block] ==
          IF b = Entry THEN Env
          ELSE IF FallsBack(b) THEN G[findCommonDominator(b)]
          ELSE UNION {getTermGuard(prog[p].term, b) \cap getPHIGuard(b, p) \cap G[p] :
                      p \in {q \in Preds(b) : ~isBackedge(q, b)}}
    IN G
=============================================================================
