-------------------------- MODULE OverflowSimplify --------------------------
(***************************************************************************)
(* OverflowSimplify (src/src/OverflowSimplify.cc): an intrinsic that adds,  *)
(* subtracts or multiplies two integers and says whether that overflows is  *)
(* replaced by a comparison when an operand is a constant.  Whether intck   *)
(* reports an overflow depends on the two being the same for every value of *)
(* the other operand.  The wrapped result is not modelled: the intrinsic    *)
(* and its replacement compute it alike.                                    *)
(***************************************************************************)
EXTENDS Integers

CONSTANT Half  \* 2^(N-1) for integers of N bits

ASSUME OverflowSimplifyAssumption == Half \in Nat \ {0}

SMIN == -Half
SMAX == Half - 1
UMAX == 2 * Half - 1

Signed == SMIN..SMAX
Unsigned == 0..UMAX

Op == {"sadd", "uadd", "ssub", "usub", "smul", "umul"}

Values(op) == IF op \in {"sadd", "ssub", "smul"} THEN Signed ELSE Unsigned

\* What the intrinsic computes before it is cut to N bits.
Exact(op, l, r) ==
    CASE op \in {"sadd", "uadd"} -> l + r
      [] op \in {"ssub", "usub"} -> l - r
      [] op \in {"smul", "umul"} -> l * r

Overflows(op, l, r) == Exact(op, l, r) \notin Values(op)

\* An operand is a constant or a variable; variables are ordered by name.
Operand(op) == [constant: {TRUE}, c: Values(op)] \cup [constant: {FALSE}, name: 0..1]

Call == UNION {[op: {op}, l: Operand(op), r: Operand(op)] : op \in Op}

VARIABLES
    call,      \* the intrinsic as the pass finds it
    visited,   \* runOnFunction has come to it
    swapped,   \* its operands have changed places
    replaced   \* it has given way to a comparison

vars == <<call, visited, swapped, replaced>>

Commutative == call.op \notin {"ssub", "usub"}

TypeOK ==
    /\ call \in Call
    /\ visited \in BOOLEAN /\ swapped \in BOOLEAN /\ replaced \in BOOLEAN
    /\ swapped => Commutative

Init == call \in Call /\ visited = FALSE /\ swapped = FALSE /\ replaced = FALSE

----------------------------------------------------------------------------
(* The comparison each intrinsic is replaced with: X is the variable, C the   *)
(* constant.  The bounds are in range, so that no APInt wraps, but for the    *)
(* quotient of SMIN and -1.                                                 *)

simplifySAdd(X, C) == IF C < 0 THEN X < SMIN - C ELSE X > SMAX - C

simplifyUAdd(X, C) == X > UMAX - C

\* The constant on the right, with the bounds mixed up, and as they are.
SubConstantSwapped(L, C) == IF C < 0 THEN L < SMIN + C ELSE L > SMAX + C

SubConstant(L, C) == IF C < 0 THEN L > SMAX + C ELSE L < SMIN + C

\* The constant on the left: the comparison has L where R is meant, and L is C.
FromConstant(C, R) == IF C < 0 THEN C > C - SMIN ELSE C < C - SMAX

simplifyUSub(L, R) == L < R

\* APInt::sdiv rounds towards zero and wraps.
sdiv(a, b) ==
    LET mag(x) == IF x < 0 THEN -x ELSE x
        q == mag(a) \div mag(b)
    IN IF a = SMIN /\ b = -1 THEN SMIN ELSE IF (a < 0) = (b < 0) THEN q ELSE -q

simplifySMul(X, C) ==
    /\ C # 0
    /\ IF C < 0 THEN X < sdiv(SMAX, C) \/ X > sdiv(SMIN, C)
       ELSE X > sdiv(SMAX, C) \/ X < sdiv(SMIN, C)

\* The bound taken in, and as it is.
MulBoundIncluded(X, C) == C # 0 /\ X >= UMAX \div C

simplifyUMul(X, C) == C # 0 /\ X > UMAX \div C

\* canonicalize: the constant operand, the right one if both are, and the other.
Constant == IF call.r.constant THEN "r" ELSE IF call.l.constant THEN "l" ELSE "none"

C(l, r) == IF Constant = "r" THEN r ELSE l
X(l, r) == IF Constant = "r" THEN l ELSE r

\* The overflow bit for the values l and r of the operands, once replaced.
Comparison(l, r) ==
    CASE call.op = "sadd" -> simplifySAdd(X(l, r), C(l, r))
      [] call.op = "uadd" -> simplifyUAdd(X(l, r), C(l, r))
      [] call.op = "ssub" -> IF Constant = "r" THEN SubConstant(l, r) ELSE FromConstant(l, r)
      [] call.op = "usub" -> simplifyUSub(l, r)
      [] call.op = "smul" -> simplifySMul(X(l, r), C(l, r))
      [] call.op = "umul" -> simplifyUMul(X(l, r), C(l, r))

\* canonicalize orders two variables by their names, and differences not at all.
SwapsAny == Constant = "none" /\ call.l.name > call.r.name

Swaps == Constant = "none" /\ Commutative /\ call.l.name > call.r.name

runOnFunction ==
    /\ ~visited
    /\ visited' = TRUE
    /\ replaced' = (Constant # "none" \/ call.op = "usub")
    /\ swapped' = Swaps
    /\ UNCHANGED call

Done == visited /\ UNCHANGED vars

Next == runOnFunction \/ Done

Spec == Init /\ [][Next]_vars

----------------------------------------------------------------------------
(* Properties *)

\* The bit for the values l and r of the operands of the call as it was found.
OverflowBit(l, r) ==
    IF replaced THEN Comparison(l, r)
    ELSE IF swapped THEN Overflows(call.op, r, l) ELSE Overflows(call.op, l, r)

Range(o) == IF o.constant THEN {o.c} ELSE Values(call.op)

ExactFor(op) ==
    call.op = op =>
        \A l \in Range(call.l), r \in Range(call.r) :
            OverflowBit(l, r) <=> Overflows(op, l, r)

\* Sums and differences: the bit is the same after the pass as before, for
\* every operand and constant; a constant minus a variable is left to
\* FromConstantIsExact.
AddSubExact ==
    /\ ExactFor("sadd") /\ ExactFor("uadd") /\ ExactFor("usub")
    /\ Constant # "l" => ExactFor("ssub")

\* Products, except signed ones by -1: there the bound SMIN / C is SMIN itself.
MulExact ==
    /\ ExactFor("umul")
    /\ (Constant = "r" => call.r.c # -1) /\ (Constant = "l" => call.l.c # -1)
         => ExactFor("smul")

\* "ssub.overflow(C, R) => R > C - SMIN, if C < 0; R < C - SMAX, otherwise"
\* (OverflowSimplify.cc:176).
FromConstantIsExact == Constant = "l" => ExactFor("ssub")
=============================================================================
