------------------------------ MODULE ValueGen ------------------------------
(***************************************************************************)
(* ValueGen (src/src/ValueGen.cc): a value of the program becomes an         *)
(* expression of the solver.  What cannot be translated is a new variable,   *)
(* constrained by the range that intglobal has found for a load; values      *)
(* are kept in a cache, so that one value is one variable.  IntSat asks the  *)
(* solver whether the condition of a trap can be true: here of a trap on     *)
(* d, which is computed from x and y.                                       *)
(***************************************************************************)
EXTENDS Traps, FiniteSets

CONSTANT Programs  \* the programs looked at

(* w, ptr   bits of an integer and of a pointer                              *)
(* meta     the !intrange of the load x: pairs <<lo, hi>>                    *)
(* op       how d is computed: [op |-> ...] with pred for a select, k for a  *)
(*          cast by way of k bits or an index of k bits, idx for the indices *)
(*          of a getelementptr, of, signed and index for a result of an      *)
(*          intrinsic with overflow                                          *)
(* args     what it is computed from: "x", "y", "p" (a pointer) or "c"       *)
(* c        the constant                                                     *)
(* trap     the trap, on operands other and d                                *)
IsProgram(p) ==
    /\ p.w \in Nat \ {0, 1} /\ p.ptr \in Nat \ {0}
    /\ p.meta \subseteq Bits(p.w) \X Bits(p.w)
    /\ p.args \in {"x", "c"} \X {"x", "y", "p", "c"}
    /\ p.op.op = "gep" <=> p.args[2] = "p"
    /\ p.c \in Bits(p.w)
    /\ p.other \in {"x", "y"}

ASSUME ValueGenAssumption == \A p \in Programs : IsProgram(p)

VARIABLES
    prog,
    got,          \* the expressions asked for so far
    Cache,        \* value -> its expression
    fresh,        \* the variables made: what each stands for
    constraints,  \* what has been asserted of them: [n, lo, hi]
    status,       \* what the solver has answered
    model         \* ... and the variables' values

vars == <<prog, got, Cache, fresh, constraints, status, model>>

\* What get is called for, in this order.
Order == prog.args \o <<"d", prog.other>>

WidthOf(v) == IF v = "p" THEN prog.ptr ELSE prog.w

Init ==
    /\ prog \in Programs
    /\ got = <<>> /\ Cache = [v \in {} |-> <<>>] /\ fresh = <<>> /\ constraints = {}
    /\ status = "none" /\ model = <<>>

----------------------------------------------------------------------------
(* The visitor *)

\* getelementptr on base, of P bits: a variable index, of from bits and value i,
\* is scaled and added at once, the constant ones together at the end.
visitGEPOperator(idx, from, P, base, i) ==
    LET Scaled(k) ==
          IF idx[k].const THEN 0
          ELSE Cut(P, (IF from < P THEN sign_extend(from, P, i) ELSE extract(P, i)) * idx[k].size)
        Const(k) == IF idx[k].const THEN Cut(P, idx[k].c * idx[k].size) ELSE 0
        Sum[k \in 0..Len(idx)] ==
          IF k = 0 THEN base ELSE Cut(P, Sum[k - 1] + Scaled(k))
        ConstOffset[k \in 0..Len(idx)] ==
          IF k = 0 THEN 0 ELSE Cut(P, ConstOffset[k - 1] + Const(k))
    IN Cut(P, Sum[Len(idx)] + ConstOffset[Len(idx)])

visitPtrToIntInst(P, w, a) == IF w > P THEN zero_extend(a) ELSE extract(w, a)

\* The two results of an intrinsic with overflow, the second one zero-extended.
visitExtractValueInst(o, w, a, b) ==
    IF o.index = 0 THEN Binary(o.of, w, a, b)
    ELSE IF (IF o.signed THEN bvs_overflow(o.of, w, a, b) ELSE bvu_overflow(o.of, w, a, b))
         THEN 1 ELSE 0

\* The value of d, in the solver, for those of its operands.
visit(o, w, P, a, b) ==
    CASE o.op = "bitcast" -> a
      [] o.op = "zext" -> zero_extend(extract(o.k, a))
      [] o.op = "sext" -> sign_extend(o.k, w, extract(o.k, a))
      [] o.op = "select" -> IF Compare(o.pred, w, a, b) THEN a ELSE b
      [] o.op = "gep" -> visitPtrToIntInst(P, w, visitGEPOperator(o.idx, o.k, P, b, extract(o.k, a)))
      [] o.op = "extractvalue" -> visitExtractValueInst(o, w, a, b)
      [] OTHER -> Binary(o.op, w, a, b)

\* The value of an expression in a model.
Val(e, m) ==
    CASE e.t = "const" -> e.c
      [] e.t = "var" -> m[e.n]
      [] e.t = "op" ->
           LET arg(x) == IF x.t = "const" THEN x.c ELSE m[x.n]
           IN visit(prog.op, prog.w, prog.ptr, arg(e.l), arg(e.r))

----------------------------------------------------------------------------
(* get *)

\* A set that wraps around, as if it did not.
ConstraintUnwrapped(c, e) == c.lo = c.hi \/ (e >= c.lo /\ (c.hi = 0 \/ e < c.hi))

\* What one pair of the metadata says of e; an empty or full set says nothing.
Constraint(c, e) ==
    \/ c.lo = c.hi
    \/ IF c.lo = 0 THEN e < c.hi
       ELSE IF c.hi = 0 THEN e >= c.lo
       ELSE IF c.lo <= c.hi THEN e >= c.lo /\ e < c.hi
       ELSE e >= c.lo \/ e < c.hi

addRangeConstraints(n) == {[n |-> n, lo |-> p[1], hi |-> p[2]] : p \in prog.meta}

\* Only constants are remembered.
CachedIfConstant(v) == v = "c" /\ v \in DOMAIN Cache

Cached(v) == v \in DOMAIN Cache

mk_fresh(v) == fresh' = Append(fresh, v)

visitInstruction(v) ==
    /\ mk_fresh(v)
    /\ constraints' = constraints \cup addRangeConstraints(Len(fresh'))

analyze(v) ==
    CASE v = "d" -> [t |-> "op", l |-> got[1], r |-> got[2]]
      [] v = "c" -> [t |-> "const", c |-> prog.c]
      [] OTHER -> [t |-> "var", n |-> Len(fresh) + 1]

get ==
    /\ Len(got) < Len(Order)
    /\ LET v == Order[Len(got) + 1]
           e == IF Cached(v) THEN Cache[v] ELSE analyze(v)
       IN /\ got' = Append(got, e)
          /\ Cache' = [u \in DOMAIN Cache \cup {v} |-> IF u = v THEN e ELSE Cache[u]]
          /\ IF Cached(v) \/ v \in {"c", "d"} THEN UNCHANGED <<fresh, constraints>>
             ELSE IF v = "x" THEN visitInstruction(v)
             ELSE mk_fresh(v) /\ UNCHANGED constraints
    /\ UNCHANGED <<prog, status, model>>

----------------------------------------------------------------------------
(* SMTSolver::query, on the condition of the trap *)

Assignments ==
    {m \in [DOMAIN fresh -> Bits(IF prog.w > prog.ptr THEN prog.w ELSE prog.ptr)] :
        \A n \in DOMAIN fresh : m[n] \in Bits(WidthOf(fresh[n]))}

Satisfies(m) ==
    /\ \A c \in constraints : Constraint(c, m[c.n])
    /\ TrapCondition(prog.trap, prog.w, Val(got[4], m), Val(got[3], m))

query ==
    /\ Len(got) = Len(Order) /\ status = "none"
    /\ LET models == {m \in Assignments : Satisfies(m)}
       IN \/ models = {} /\ status' = "unsat" /\ UNCHANGED model
          \/ \E m \in models : status' = "sat" /\ model' = m
    /\ UNCHANGED <<prog, got, Cache, fresh, constraints>>

Done == status # "none" /\ UNCHANGED vars

Next == get \/ query \/ Done

Spec == Init /\ [][Next]_vars

----------------------------------------------------------------------------
(* The program that the query is about, for values of x, y and p *)

\* LLVM: the load is in one of its ranges, going round from lo to hi.
InRange(p, v) ==
    p[1] = p[2] \/ (v - p[1]) % 2^prog.w < (p[2] - p[1]) % 2^prog.w

Legal(x) == \A p \in prog.meta : InRange(p, x)

\* The pointer arithmetic, without wrapping on the way.
Address(idx, base, i) ==
    LET Sum[k \in 0..Len(idx)] ==
          IF k = 0 THEN base
          ELSE Sum[k - 1] + idx[k].size * (IF idx[k].const THEN idx[k].c ELSE i)
    IN Cut(prog.ptr, Sum[Len(idx)])

Runs(o, a, b) ==
    CASE o.op = "gep" -> Cut(prog.w, Address(o.idx, b, Signed(o.k, Cut(o.k, a))))
      [] o.op = "extractvalue" /\ o.index = 1 ->
           IF Fails([kind |-> "overflow", op |-> o.of, nsw |-> o.signed], prog.w, a, b)
           THEN 1 ELSE 0
      [] o.op = "shl" -> Cut(prog.w, a * 2^b)
      [] o.op = "lshr" -> a \div 2^b
      [] o.op = "ashr" -> Cut(prog.w, Signed(prog.w, a) \div 2^b)
      [] OTHER -> visit(o, prog.w, prog.ptr, a, b)

\* LLVM gives d a value.
Defined(o, a, b) ==
    /\ o.op \in {"udiv", "urem", "sdiv", "srem"} =>
         ~Fails([kind |-> "div", signed |-> o.op \in {"sdiv", "srem"}], prog.w, a, b)
    /\ o.op \in {"shl", "lshr", "ashr"} => ~Fails([kind |-> "shift"], prog.w, a, b)

ValueOf(v, m) == IF v = "c" THEN prog.c ELSE m[Cache[v].n]

Failing(m) ==
    LET a == ValueOf(prog.args[1], m)
        b == ValueOf(prog.args[2], m)
    IN Fails(prog.trap, prog.w, ValueOf(prog.other, m), Runs(prog.op, a, b))

Executes(m) ==
    /\ "x" \in DOMAIN Cache => Legal(ValueOf("x", m))
    /\ Defined(prog.op, ValueOf(prog.args[1], m), ValueOf(prog.args[2], m))

\* Boolector's arithmetic shift of a width that is no power of two.
ShiftsZeros == prog.op.op = "ashr" /\ \A k \in 0..prog.w : 2^k # prog.w

----------------------------------------------------------------------------
(* Properties *)

\* The expressions are made in order, and what the solver computes for d fits.
TypeOK ==
    /\ IsProgram(prog)
    /\ Len(got) \in 0..Len(Order) /\ \A v \in DOMAIN Cache : \E k \in DOMAIN got : got[k] = Cache[v]
    /\ \A c \in constraints : c.n \in DOMAIN fresh /\ fresh[c.n] = "x"
    /\ status \in {"none", "sat", "unsat"}
    /\ status = "sat" => model \in Assignments /\ Val(got[3], model) \in Bits(prog.w)

\* A model of the query is an execution: the load has a value of its range, and
\* the operation that the trap stands before fails on the values that LLVM
\* computes, if computing d does not fail before.
ReportsAreReal ==
    status = "sat" /\ ~ShiftsZeros =>
        LET a == ValueOf(prog.args[1], model)
            b == ValueOf(prog.args[2], model)
        IN /\ "x" \in DOMAIN Cache => Legal(ValueOf("x", model))
           /\ Defined(prog.op, a, b) => Failing(model)

\* Every execution in which it fails is a model, whatever else the query asks:
\* the path that IntSat adds to it may leave only that one.
FailuresAreModels ==
    Len(got) = Len(Order) /\ status = "none" /\ ~ShiftsZeros =>
        \A m \in Assignments : Executes(m) /\ Failing(m) => Satisfies(m)
=============================================================================
