--------------------------- MODULE OverflowIdiom ---------------------------
(***************************************************************************)
(* OverflowIdiom (src/src/OverflowIdiom.cc): an overflow check that the     *)
(* programmer has written by hand, as a comparison of x with a quotient by  *)
(* y, becomes an intrinsic on x and y or a comparison that cannot wrap.     *)
(* OverflowSimplify, which intck runs later, may then replace the intrinsic *)
(* once more.  The operands x and y of the check are call.l and call.r.     *)
(***************************************************************************)
EXTENDS OverflowSimplify

Pred == {"eq", "ne", "ugt", "uge", "ult", "ule", "sgt", "sge", "slt", "sle"}

\* A check: x against (x * y) /u y, or against c /u y; the quotient is to the
\* right or to the left.  A quotient of constants has been folded.
Check ==
    [form: {"product"}, c: {UMAX}, pred: Pred, left: BOOLEAN]
      \cup [form: {"quotient"}, c: Unsigned \ {0}, pred: Pred, left: BOOLEAN]

NoCheck == [form |-> "none"]

VARIABLES
    cmp,        \* the check, or NoCheck if the intrinsic comes from IntRewrite
    rewritten,  \* what it has become: an intrinsic, comparisons, or nothing
    inverted,   \* what it has become is negated
    scanned     \* the pass has come to it

idiomVars == <<vars, cmp, rewritten, inverted, scanned>>

IdiomInit ==
    /\ Init
    /\ \/ cmp = NoCheck
       \/ /\ call.op = "umul"
          /\ ~call.l.constant \/ ~call.r.constant
          /\ cmp \in Check
          /\ cmp.form = "quotient" => ~call.r.constant
    /\ rewritten = "no" /\ inverted = FALSE /\ scanned = FALSE

----------------------------------------------------------------------------
(* matchCmp, tried on the check, its inverse, and both with L and R swapped *)

getSwappedPredicate(p) ==
    CASE p = "ugt" -> "ult" [] p = "ult" -> "ugt" [] p = "uge" -> "ule" [] p = "ule" -> "uge"
      [] p = "sgt" -> "slt" [] p = "slt" -> "sgt" [] p = "sge" -> "sle" [] p = "sle" -> "sge"
      [] OTHER -> p

getInversePredicate(p) ==
    CASE p = "eq" -> "ne" [] p = "ne" -> "eq"
      [] p = "ugt" -> "ule" [] p = "ule" -> "ugt" [] p = "uge" -> "ult" [] p = "ult" -> "uge"
      [] p = "sgt" -> "sle" [] p = "sle" -> "sgt" [] p = "sge" -> "slt" [] p = "slt" -> "sge"

matchCmp(p, left) ==
    /\ ~left
    /\ p = IF cmp.form = "product" THEN "ne" ELSE "ugt"

\* c + 1 is a power of two: c is the greatest number of some k bits.
IsMaxOfFewerBits(c) == \E k \in 1..c : 2^k = c + 1

Rewriting ==
    IF cmp.form = "product" \/ cmp.c = UMAX THEN "intrinsic"
    ELSE IF IsMaxOfFewerBits(cmp.c) THEN "bounds"
    ELSE "wide"

\* The swapped form without getSwappedPredicate.
FormsUnswapped == {[pred |-> cmp.pred, left |-> cmp.left],
                   [pred |-> cmp.pred, left |-> ~cmp.left]}

\* The check and its swapped form.
Forms == {[pred |-> cmp.pred, left |-> cmp.left],
          [pred |-> getSwappedPredicate(cmp.pred), left |-> ~cmp.left]}

Direct == \E f \in Forms : matchCmp(f.pred, f.left)
Inverse == \E f \in Forms : matchCmp(getInversePredicate(f.pred), f.left)

recognize ==
    /\ cmp # NoCheck /\ ~scanned
    /\ scanned' = TRUE
    /\ rewritten' = IF Direct \/ Inverse THEN Rewriting ELSE "no"
    /\ inverted' = (~Direct /\ Inverse)
    /\ UNCHANGED <<vars, cmp>>

\* OverflowSimplify, on the intrinsic there is by then.
simplify ==
    /\ cmp = NoCheck \/ rewritten = "intrinsic"
    /\ runOnFunction
    /\ UNCHANGED <<cmp, rewritten, inverted, scanned>>

Finished ==
    /\ visited \/ (scanned /\ rewritten # "intrinsic")
    /\ UNCHANGED idiomVars

IdiomNext == recognize \/ simplify \/ Finished

IdiomSpec == IdiomInit /\ [][IdiomNext]_idiomVars

----------------------------------------------------------------------------
(* What the check was, and what it has become, for the values x and y *)

ToSigned(a) == IF a > SMAX THEN a - 2 * Half ELSE a

Compare(p, a, b) ==
    CASE p = "eq" -> a = b [] p = "ne" -> a # b
      [] p = "ugt" -> a > b [] p = "uge" -> a >= b
      [] p = "ult" -> a < b [] p = "ule" -> a <= b
      [] p = "sgt" -> ToSigned(a) > ToSigned(b) [] p = "sge" -> ToSigned(a) >= ToSigned(b)
      [] p = "slt" -> ToSigned(a) < ToSigned(b) [] p = "sle" -> ToSigned(a) <= ToSigned(b)

Quotient(x, y) ==
    (IF cmp.form = "product" THEN (x * y) % (2 * Half) ELSE cmp.c) \div y

Original(x, y) ==
    IF cmp.left THEN Compare(cmp.pred, Quotient(x, y), x)
    ELSE Compare(cmp.pred, x, Quotient(x, y))

\* Both operands are compared with c, and cut to its width for an intrinsic.
Bounds(x, y) ==
    \/ x > cmp.c
    \/ y > cmp.c
    \/ (x % (cmp.c + 1)) * (y % (cmp.c + 1)) > cmp.c

Wide(x, y) == x * y > cmp.c

Rewritten(x, y) ==
    inverted # (CASE rewritten = "intrinsic" -> OverflowBit(x, y)
                  [] rewritten = "bounds" -> Bounds(x, y)
                  [] rewritten = "wide" -> Wide(x, y))

\* A quotient by zero is undefined, so only other y matter.
SameFor(x, y) == (rewritten # "no" /\ y # 0) => (Rewritten(x, y) <=> Original(x, y))

----------------------------------------------------------------------------
(* Properties *)

\* After each of the two passes, the check has the value that the programmer
\* wrote, for all operands but x = 0 and y > c of a check against the greatest
\* number of fewer bits.
ChecksKeepTheirMeaning ==
    \A x \in Range(call.l), y \in Range(call.r) :
        SameFor(x, y) \/ (rewritten = "bounds" /\ x = 0 /\ y > cmp.c)
=============================================================================
