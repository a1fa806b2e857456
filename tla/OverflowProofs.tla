--------------------------- MODULE OverflowProofs ---------------------------
(***************************************************************************)
(* For integers of every width: OverflowSimplify keeps the overflow bit of   *)
(* sums, of differences and of products, and a check written by hand keeps   *)
(* its meaning when OverflowIdiom rewrites it, and when OverflowSimplify     *)
(* rewrites the intrinsic it has become.                                    *)
(***************************************************************************)
EXTENDS OverflowIdiom, TLAPS

----------------------------------------------------------------------------
(* OverflowSimplify *)

\* What a step of the pass leaves behind.
Justified ==
    /\ replaced => Constant # "none" \/ call.op = "usub"
    /\ swapped => Commutative /\ Constant = "none"

IInv == TypeOK /\ Justified

\* A call has operands of its own kind of integers.
LEMMA Operands ==
    ASSUME TypeOK
    PROVE  /\ call.op \in Op
           /\ call.l \in Operand(call.op)
           /\ call.r \in Operand(call.op)
<1>1. PICK op \in Op : call \in [op: {op}, l: Operand(op), r: Operand(op)]
  BY DEF TypeOK, Call
<1> QED
  BY <1>1

LEMMA ConstantsAndVariables ==
    ASSUME NEW op \in Op, NEW o \in Operand(op)
    PROVE  /\ o.constant \in BOOLEAN
           /\ o.constant => o.c \in Values(op)
BY DEF Operand

LEMMA Initially == Init => IInv
BY DEF Init, IInv, TypeOK, Justified

LEMMA Inductive == IInv /\ [Next]_vars => IInv'
<1> SUFFICES ASSUME IInv, [Next]_vars PROVE IInv'
  OBVIOUS
<1> USE DEF IInv
<1>1. CASE runOnFunction
  <2>1. TypeOK'
    BY <1>1 DEF runOnFunction, TypeOK, Swaps, Commutative
  <2>2. Justified'
    BY <1>1 DEF runOnFunction, Justified, Swaps, Constant, Commutative
  <2> QED
    BY <2>1, <2>2
<1>2. CASE Done \/ UNCHANGED vars
  BY <1>2 DEF Done, vars, TypeOK, Justified, Constant, Commutative
<1> QED
  BY <1>1, <1>2 DEF Next

\* Addition: a constant moves to the other side of the comparison.
LEMMA SAddExact == IInv => ExactFor("sadd")
<1> SUFFICES ASSUME IInv, call.op = "sadd",
                    NEW l \in Range(call.l), NEW r \in Range(call.r)
             PROVE  OverflowBit(l, r) <=> Overflows("sadd", l, r)
  BY DEF ExactFor
<1>1. l \in Signed /\ r \in Signed
  BY Operands, ConstantsAndVariables DEF IInv, Range, Values, Op
<1>2. Overflows("sadd", l, r) <=> l + r \notin Signed
  BY DEF Overflows, Exact, Values
<1>3. CASE ~replaced
  BY <1>1, <1>2, <1>3 DEF OverflowBit, Overflows, Exact, Values, Signed, SMIN, SMAX
<1>4. CASE replaced
  <2>1. OverflowBit(l, r) <=> simplifySAdd(X(l, r), C(l, r))
    BY <1>4 DEF OverflowBit, Comparison
  <2> QED
    BY <1>1, <1>2, <2>1, OverflowSimplifyAssumption
       DEF simplifySAdd, X, C, Signed, SMIN, SMAX
<1> QED
  BY <1>3, <1>4

LEMMA UAddExact == IInv => ExactFor("uadd")
<1> SUFFICES ASSUME IInv, call.op = "uadd",
                    NEW l \in Range(call.l), NEW r \in Range(call.r)
             PROVE  OverflowBit(l, r) <=> Overflows("uadd", l, r)
  BY DEF ExactFor
<1>1. l \in Unsigned /\ r \in Unsigned
  BY Operands, ConstantsAndVariables DEF IInv, Range, Values, Op
<1>2. Overflows("uadd", l, r) <=> l + r \notin Unsigned
  BY DEF Overflows, Exact, Values
<1>3. CASE ~replaced
  BY <1>1, <1>2, <1>3 DEF OverflowBit, Overflows, Exact, Values, Unsigned, UMAX
<1>4. CASE replaced
  <2>1. OverflowBit(l, r) <=> simplifyUAdd(X(l, r), C(l, r))
    BY <1>4 DEF OverflowBit, Comparison
  <2> QED
    BY <1>1, <1>2, <2>1, OverflowSimplifyAssumption
       DEF simplifyUAdd, X, C, Unsigned, UMAX
<1> QED
  BY <1>3, <1>4

\* Subtraction is not commutative: its operands are never exchanged.
LEMMA USubExact == IInv => ExactFor("usub")
<1> SUFFICES ASSUME IInv, call.op = "usub",
                    NEW l \in Range(call.l), NEW r \in Range(call.r)
             PROVE  OverflowBit(l, r) <=> Overflows("usub", l, r)
  BY DEF ExactFor
<1>1. l \in Unsigned /\ r \in Unsigned
  BY Operands, ConstantsAndVariables DEF IInv, Range, Values, Op
<1>2. Overflows("usub", l, r) <=> l - r \notin Unsigned
  BY DEF Overflows, Exact, Values
<1>3. ~swapped
  BY DEF IInv, Justified, Commutative
<1>4. OverflowBit(l, r) <=> (IF replaced THEN simplifyUSub(l, r) ELSE Overflows("usub", l, r))
  BY <1>3 DEF OverflowBit, Comparison
<1> QED
  BY <1>1, <1>2, <1>4, OverflowSimplifyAssumption DEF simplifyUSub, Unsigned, UMAX

LEMMA SSubExact == IInv /\ Constant # "l" => ExactFor("ssub")
<1> SUFFICES ASSUME IInv, Constant # "l", call.op = "ssub",
                    NEW l \in Range(call.l), NEW r \in Range(call.r)
             PROVE  OverflowBit(l, r) <=> Overflows("ssub", l, r)
  BY DEF ExactFor
<1>1. l \in Signed /\ r \in Signed
  BY Operands, ConstantsAndVariables DEF IInv, Range, Values, Op
<1>2. Overflows("ssub", l, r) <=> l - r \notin Signed
  BY DEF Overflows, Exact, Values
<1>3. ~swapped
  BY DEF IInv, Justified, Commutative
<1>4. replaced => Constant = "r"
  BY DEF IInv, Justified, Constant
<1>5. OverflowBit(l, r) <=> (IF replaced THEN SubConstant(l, r) ELSE Overflows("ssub", l, r))
  BY <1>3, <1>4 DEF OverflowBit, Comparison
<1> QED
  BY <1>1, <1>2, <1>5, OverflowSimplifyAssumption DEF SubConstant, Signed, SMIN, SMAX

\* How \div compares: the bound of a product with a constant moves to the
\* other side of the comparison.
LEMMA QuotientBound ==
    ASSUME NEW a \in Nat, NEW c \in Nat \ {0}, NEW x \in Int
    PROVE  x > a \div c <=> c * x > a
<1> DEFINE q == a \div c
<1>1. q \in Int /\ c * q <= a /\ a < c * q + c
  OBVIOUS
<1> HIDE DEF q
<1>2. ASSUME NEW y \in Int, NEW z \in Int, y <= z
      PROVE  c * y <= c * z
  <2>1. z - y \in Nat
    BY <1>2
  <2>2. c * (z - y) >= 0
    BY <2>1
  <2> QED
    BY <2>2, <1>2
<1>3. CASE x <= q
  <2>1. c * x <= c * q
    BY <1>1, <1>2, <1>3
  <2>2. c * x \in Int /\ c * q \in Int
    BY <1>1
  <2> QED
    BY <1>1, <1>3, <2>1, <2>2 DEF q
<1>4. CASE x >= q + 1
  <2>1. c * (q + 1) <= c * x
    BY <1>1, <1>2, <1>4
  <2>2. c * (q + 1) = c * q + c
    BY <1>1
  <2>3. c * x \in Int /\ c * q \in Int
    BY <1>1
  <2> QED
    BY <1>1, <1>4, <2>1, <2>2, <2>3 DEF q
<1> QED
  BY <1>1, <1>3, <1>4

\* Multiplication: nothing is divided by a constant 0, and by any other one the
\* bound is divided without a remainder that matters.
LEMMA UMulBound ==
    ASSUME NEW x \in Unsigned, NEW c \in Unsigned
    PROVE  simplifyUMul(x, c) <=> c * x \notin Unsigned
<1> USE OverflowSimplifyAssumption DEF Unsigned, UMAX
<1>1. c * x \in Nat
  OBVIOUS
<1>2. CASE c = 0
  BY <1>2 DEF simplifyUMul
<1>3. CASE c # 0
  <2>1. x > UMAX \div c <=> c * x > UMAX
    BY <1>3, QuotientBound
  <2> QED
    BY <1>1, <1>3, <2>1 DEF simplifyUMul
<1> QED
  BY <1>2, <1>3

LEMMA UMulExact == IInv => ExactFor("umul")
<1> SUFFICES ASSUME IInv, call.op = "umul",
                    NEW l \in Range(call.l), NEW r \in Range(call.r)
             PROVE  OverflowBit(l, r) <=> Overflows("umul", l, r)
  BY DEF ExactFor
<1>1. l \in Unsigned /\ r \in Unsigned
  BY Operands, ConstantsAndVariables DEF IInv, Range, Values, Op
<1>2. r * l = l * r
  BY <1>1, OverflowSimplifyAssumption DEF Unsigned, UMAX
<1>3. Overflows("umul", l, r) <=> l * r \notin Unsigned
  BY DEF Overflows, Exact, Values
<1>4. CASE ~replaced
  BY <1>2, <1>4 DEF OverflowBit, Overflows, Exact, Values
<1>5. CASE replaced
  <2>1. OverflowBit(l, r) <=> simplifyUMul(X(l, r), C(l, r))
    BY <1>5 DEF OverflowBit, Comparison
  <2>2. C(l, r) * X(l, r) = l * r
    BY <1>2 DEF X, C
  <2>3. X(l, r) \in Unsigned /\ C(l, r) \in Unsigned
    BY <1>1 DEF X, C
  <2> QED
    BY <1>3, <2>1, <2>2, <2>3, UMulBound
<1> QED
  BY <1>4, <1>5

\* sdiv rounds towards zero: it divides the magnitudes.
LEMMA SdivOfBounds ==
    ASSUME NEW c \in Signed, c # 0, c # -1
    PROVE  /\ c > 0 => /\ sdiv(SMAX, c) = SMAX \div c
                       /\ sdiv(SMIN, c) = -(Half \div c)
           /\ c < 0 => /\ sdiv(SMAX, c) = -(SMAX \div (-c))
                       /\ sdiv(SMIN, c) = Half \div (-c)
<1> USE OverflowSimplifyAssumption DEF Signed, SMIN, SMAX
<1>1. SMAX >= 0 /\ SMIN < 0 /\ -SMIN = Half
  OBVIOUS
<1>2. CASE c > 0
  BY <1>1, <1>2 DEF sdiv
<1>3. CASE c < 0
  BY <1>1, <1>3 DEF sdiv
<1> QED
  BY <1>2, <1>3

LEMMA SMulBound ==
    ASSUME NEW x \in Signed, NEW c \in Signed, c # -1
    PROVE  simplifySMul(x, c) <=> c * x \notin Signed
<1> USE OverflowSimplifyAssumption DEF Signed, SMIN, SMAX
<1>1. SMAX \in Nat /\ Half \in Nat /\ c * x \in Int
  OBVIOUS
<1>2. CASE c = 0
  BY <1>2 DEF simplifySMul
<1>3. CASE c > 0
  <2>1. c \in Nat \ {0} /\ -x \in Int /\ SMAX \div c \in Int /\ Half \div c \in Int
    BY <1>3
  <2>2. x > SMAX \div c <=> c * x > SMAX
    BY <1>1, <2>1, QuotientBound
  <2>3. -x > Half \div c <=> c * (-x) > Half
    BY <1>1, <2>1, QuotientBound
  <2>4. c * (-x) = -(c * x)
    OBVIOUS
  <2>5. simplifySMul(x, c) <=> x > SMAX \div c \/ x < -(Half \div c)
    BY <1>3, SdivOfBounds DEF simplifySMul
  <2> HIDE DEF SMAX
  <2>6. simplifySMul(x, c) <=> c * x > SMAX \/ -(c * x) > Half
    BY <2>1, <2>2, <2>3, <2>4, <2>5
  <2> QED
    BY <1>1, <2>6 DEF SMAX
<1>4. CASE c < 0
  <2>1. -c \in Nat \ {0} /\ -x \in Int /\ SMAX \div (-c) \in Int /\ Half \div (-c) \in Int
    BY <1>4
  <2>2. -x > SMAX \div (-c) <=> (-c) * (-x) > SMAX
    BY <1>1, <2>1, QuotientBound
  <2>3. x > Half \div (-c) <=> (-c) * x > Half
    BY <1>1, <2>1, QuotientBound
  <2>4. (-c) * (-x) = c * x /\ (-c) * x = -(c * x)
    OBVIOUS
  <2>5. simplifySMul(x, c) <=> x < -(SMAX \div (-c)) \/ x > Half \div (-c)
    BY <1>4, SdivOfBounds DEF simplifySMul
  <2> HIDE DEF SMAX
  <2>6. simplifySMul(x, c) <=> c * x > SMAX \/ -(c * x) > Half
    BY <2>1, <2>2, <2>3, <2>4, <2>5
  <2> QED
    BY <1>1, <2>6 DEF SMAX
<1> QED
  BY <1>2, <1>3, <1>4

LEMMA SMulExact ==
    ASSUME IInv,
           Constant = "r" => call.r.c # -1,
           Constant = "l" => call.l.c # -1
    PROVE  ExactFor("smul")
<1> SUFFICES ASSUME call.op = "smul",
                    NEW l \in Range(call.l), NEW r \in Range(call.r)
             PROVE  OverflowBit(l, r) <=> Overflows("smul", l, r)
  BY DEF ExactFor
<1>1. l \in Signed /\ r \in Signed
  BY Operands, ConstantsAndVariables DEF IInv, Range, Values, Op
<1>2. r * l = l * r
  BY <1>1, OverflowSimplifyAssumption DEF Signed, SMIN, SMAX
<1>3. Overflows("smul", l, r) <=> l * r \notin Signed
  BY DEF Overflows, Exact, Values
<1>4. CASE ~replaced
  BY <1>2, <1>4 DEF OverflowBit, Overflows, Exact, Values
<1>5. CASE replaced
  <2>1. OverflowBit(l, r) <=> simplifySMul(X(l, r), C(l, r))
    BY <1>5 DEF OverflowBit, Comparison
  <2>2. C(l, r) * X(l, r) = l * r
    BY <1>2 DEF X, C
  <2>3. X(l, r) \in Signed /\ C(l, r) \in Signed
    BY <1>1 DEF X, C
  <2>4. Constant \in {"l", "r"}
    BY <1>5 DEF IInv, Justified, Constant
  <2>5. C(l, r) # -1
    BY <2>4 DEF C, Constant, Range
  <2> QED
    BY <1>3, <2>1, <2>2, <2>3, <2>5, SMulBound
<1> QED
  BY <1>4, <1>5

\* Sums and differences overflow after the pass if and only if they did before,
\* for integers of every width.
THEOREM SumsAndDifferences == Spec => []AddSubExact
<1>1. IInv => AddSubExact
  BY SAddExact, UAddExact, USubExact, SSubExact DEF AddSubExact
<1> QED
  BY <1>1, Initially, Inductive, PTL DEF Spec

\* Products overflow after the pass if and only if they did before, for integers
\* of every width and every constant but -1 of a signed product.
THEOREM Products == Spec => []MulExact
<1>1. IInv => MulExact
  BY UMulExact, SMulExact DEF MulExact
<1> QED
  BY <1>1, Initially, Inductive, PTL DEF Spec

THEOREM TypeCorrect == Spec => []TypeOK
<1>1. IInv => TypeOK
  BY DEF IInv
<1> QED
  BY <1>1, Initially, Inductive, PTL DEF Spec


----------------------------------------------------------------------------
(* OverflowIdiom in front of OverflowSimplify *)

\* The module of the two passes is that of the second with conjuncts added, so
\* that what has been proved of the second can be cited for both.
LEMMA IdiomImplementsSimplify == IdiomSpec => Spec
<1>1. IdiomInit => Init
  BY DEF IdiomInit
<1>2. [IdiomNext]_idiomVars => [Next]_vars
  BY DEF IdiomNext, recognize, simplify, Finished, idiomVars, Next
<1> QED
  BY <1>1, <1>2, PTL DEF IdiomSpec, Spec

----------------------------------------------------------------------------
(* Arithmetic *)

LEMMA DivisionWithRemainder ==
    ASSUME NEW a \in Nat, NEW m \in Nat \ {0}
    PROVE  /\ a = m * (a \div m) + (a % m)
           /\ a % m \in 0..(m - 1)
           /\ a \div m \in Int
OBVIOUS

\* A product divided by its factor.
LEMMA ProductQuotient ==
    ASSUME NEW x \in Nat, NEW y \in Nat \ {0}
    PROVE  (x * y) \div y = x
<1> DEFINE q == (x * y) \div y
<1>1. x * y \in Nat /\ y * x = x * y
  OBVIOUS
<1>2. x > q <=> y * x > x * y
  BY <1>1, QuotientBound
<1>3. x + 1 > q <=> y * (x + 1) > x * y
  BY <1>1, QuotientBound
<1>4. y * (x + 1) = x * y + y
  BY <1>1
<1>5. q \in Int
  BY <1>1
<1> HIDE DEF q
<1>6. q = x
  BY <1>1, <1>2, <1>3, <1>4, <1>5
<1> QED
  BY <1>6 DEF q

\* The check of a wrapped product: dividing it gives the other factor back if
\* and only if nothing was cut off.
LEMMA WrappedProduct ==
    ASSUME NEW M \in Nat, NEW x \in 0..(M - 1), NEW y \in 1..(M - 1)
    PROVE  x # ((x * y) % M) \div y <=> x * y >= M
<1> DEFINE p == x * y
           w == p % M
           q == w \div y
<1>1. p \in Nat /\ y * x = p /\ M > 0
  OBVIOUS
<1>2. CASE p < M
  <2>1. w = p
    BY <1>1, <1>2
  <2>2. (x * y) \div y = x
    BY ProductQuotient
  <2> QED
    BY <1>2, <2>1, <2>2
<1>3. CASE p >= M
  <2>1. w \in Nat /\ w <= p - M
    <3>1. p = M * (p \div M) + (p % M) /\ p % M \in 0..(M - 1) /\ p \div M \in Int
      BY <1>1, DivisionWithRemainder
    <3> HIDE DEF p
    <3>2. ASSUME NEW d \in Int, p = M * d + (p % M)
          PROVE  d >= 1
      <4>1. CASE d <= 0
        <5>1. M * d <= 0
          BY <1>1, <4>1
        <5> QED
          BY <1>1, <1>3, <3>1, <3>2, <5>1
      <4> QED
        BY <4>1
    <3>3. PICK d \in Int : d >= 1 /\ p = M * d + (p % M)
      BY <3>1, <3>2
    <3>4. M * (d - 1) \in Nat /\ M * d = M * (d - 1) + M
      BY <1>1, <3>3
    <3> QED
      BY <1>1, <3>1, <3>3, <3>4
  <2>2. y * x > w
    BY <1>1, <2>1
  <2>3. x > q
    BY <2>1, <2>2, QuotientBound
  <2>4. q \in Int
    BY <2>1
  <2> HIDE DEF q
  <2>5. x # q
    BY <2>3, <2>4
  <2> QED
    BY <1>3, <2>5 DEF q
<1> QED
  BY <1>1, <1>2, <1>3

\* The check against a quotient of constants.
LEMMA QuotientOfConstant ==
    ASSUME NEW c \in Nat, NEW x \in Nat, NEW y \in Nat \ {0}
    PROVE  x > c \div y <=> x * y > c
<1>1. x > c \div y <=> y * x > c
  BY QuotientBound
<1>2. y * x = x * y
  OBVIOUS
<1> QED
  BY <1>1, <1>2

\* The comparisons that stand for an overflow of fewer bits: with x = 0 and
\* y > c they are wrong.
LEMMA BoundsOverflow ==
    ASSUME NEW c \in Nat, NEW x \in Nat, NEW y \in Nat \ {0},
           x # 0 \/ y <= c
    PROVE  (\/ x > c
            \/ y > c
            \/ (x % (c + 1)) * (y % (c + 1)) > c) <=> x * y > c
<1>1. CASE x > c
  <2>1. x * y >= x
    <3>1. x * (y - 1) >= 0 /\ x * y = x * (y - 1) + x
      OBVIOUS
    <3> QED
      BY <3>1
  <2>2. x * y \in Nat
    OBVIOUS
  <2> QED
    BY <1>1, <2>1, <2>2
<1>2. CASE y > c
  <2>1. x * y >= y
    <3>1. y * (x - 1) >= 0 /\ x * y = y * (x - 1) + y
      BY <1>2
    <3> QED
      BY <3>1
  <2>2. x * y \in Nat
    OBVIOUS
  <2> QED
    BY <1>2, <2>1, <2>2
<1>3. CASE x <= c /\ y <= c
  <2>1. x % (c + 1) = x /\ y % (c + 1) = y
    BY <1>3
  <2> QED
    BY <1>3, <2>1
<1> QED
  BY <1>1, <1>2, <1>3

----------------------------------------------------------------------------
(* The inductive invariant *)

\* A check stands before an unsigned product, and what it was rewritten to is
\* what recognize made of it.
CheckInv ==
    /\ cmp \in Check \cup {NoCheck}
    /\ cmp # NoCheck => call.op = "umul"
    /\ rewritten # "no" =>
         /\ cmp # NoCheck
         /\ rewritten = Rewriting
         /\ inverted = ~Direct
         /\ Direct \/ Inverse

LEMMA CheckInitially == IdiomInit => CheckInv
BY DEF IdiomInit, CheckInv

LEMMA CheckInductive == CheckInv /\ [IdiomNext]_idiomVars => CheckInv'
<1> SUFFICES ASSUME CheckInv, [IdiomNext]_idiomVars PROVE CheckInv'
  OBVIOUS
<1> USE DEF CheckInv
<1>1. call' = call /\ cmp' = cmp
  BY DEF IdiomNext, recognize, simplify, Finished, idiomVars, vars, runOnFunction
<1>2. Rewriting' = Rewriting /\ Direct' = Direct /\ Inverse' = Inverse
  BY <1>1 DEF Rewriting, IsMaxOfFewerBits, Direct, Inverse, Forms, matchCmp, UMAX
<1>3. CASE recognize
  <2>1. rewritten' # "no" => Direct \/ Inverse
    BY <1>3 DEF recognize
  <2>2. CASE Direct \/ Inverse
    <3>1. rewritten' = Rewriting
      BY <1>3, <2>2 DEF recognize
    <3>2. inverted' = (~Direct /\ Inverse)
      BY <1>3 DEF recognize
    <3>3. inverted' = ~Direct
      BY <2>2, <3>2, Zenon
    <3>4. cmp # NoCheck
      BY <1>3 DEF recognize
    <3> QED
      BY <1>1, <1>2, <2>2, <3>1, <3>3, <3>4
  <2> QED
    BY <1>1, <1>2, <2>1, <2>2
<1>4. CASE simplify \/ Finished \/ UNCHANGED idiomVars
  <2>1. rewritten' = rewritten /\ inverted' = inverted
    BY <1>4 DEF simplify, Finished, idiomVars
  <2> QED
    BY <1>1, <1>2, <2>1
<1> QED
  BY <1>3, <1>4 DEF IdiomNext

----------------------------------------------------------------------------
(* What the invariant says of the check *)

\* The check that the programmer wrote is the one that matchCmp looks for, or
\* its inverse, for all values of the operands.
LEMMA Recognized ==
    ASSUME CheckInv, rewritten # "no", NEW x \in Nat, NEW y \in Nat \ {0},
           Quotient(x, y) \in Int
    PROVE  Original(x, y) <=>
             (inverted # (IF cmp.form = "product" THEN x # Quotient(x, y)
                          ELSE x > Quotient(x, y)))
<1>1. /\ cmp \in Check
      /\ inverted = ~Direct
      /\ Direct \/ Inverse
  BY DEF CheckInv
<1>2. /\ cmp.form \in {"product", "quotient"}
      /\ cmp.pred \in Pred
      /\ cmp.left \in BOOLEAN
  BY <1>1 DEF Check
<1> DEFINE q == Quotient(x, y)
           T == IF cmp.form = "product" THEN x # q ELSE x > q
<1>3. ASSUME Direct
      PROVE  Original(x, y) <=> T
  <2>1. \/ ~cmp.left /\ cmp.pred = IF cmp.form = "product" THEN "ne" ELSE "ugt"
        \/ cmp.left /\ cmp.pred = IF cmp.form = "product" THEN "ne" ELSE "ult"
    <3>1. \/ matchCmp(cmp.pred, cmp.left)
          \/ matchCmp(getSwappedPredicate(cmp.pred), ~cmp.left)
      BY <1>3 DEF Direct, Forms
    <3> QED
      BY <1>2, <3>1 DEF matchCmp, getSwappedPredicate, Pred
  <2> QED
    BY <1>2, <2>1 DEF Original, Compare
<1>4. ASSUME Inverse
      PROVE  Original(x, y) <=> ~T
  <2>1. \/ ~cmp.left /\ cmp.pred = IF cmp.form = "product" THEN "eq" ELSE "ule"
        \/ cmp.left /\ cmp.pred = IF cmp.form = "product" THEN "eq" ELSE "uge"
    <3>1. \/ matchCmp(getInversePredicate(cmp.pred), cmp.left)
          \/ matchCmp(getInversePredicate(getSwappedPredicate(cmp.pred)), ~cmp.left)
      BY <1>4 DEF Inverse, Forms
    <3> QED
      BY <1>2, <3>1 DEF matchCmp, getSwappedPredicate, getInversePredicate, Pred
  <2>2. x <= q <=> ~(x > q)
    OBVIOUS
  <2>3. CASE cmp.form = "product"
    BY <1>2, <2>1, <2>3 DEF Original, Compare
  <2>4. CASE cmp.form # "product"
    <3>1. (Original(x, y) <=> x <= q)
      BY <1>2, <2>1, <2>4 DEF Original, Compare
    <3> QED
      BY <2>2, <2>4, <3>1
  <2> QED
    BY <2>3, <2>4
<1>5. T <=> (IF cmp.form = "product" THEN x # Quotient(x, y) ELSE x > Quotient(x, y))
  OBVIOUS
<1> HIDE DEF T
<1>6. CASE T
  BY <1>1, <1>3, <1>4, <1>5, <1>6
<1>7. CASE ~T
  BY <1>1, <1>3, <1>4, <1>5, <1>7
<1> QED
  BY <1>6, <1>7

\* One operand of a check is a variable; both are unsigned.
LEMMA CheckOperands ==
    ASSUME TypeOK, CheckInv, rewritten # "no",
           NEW x \in Range(call.l), NEW y \in Range(call.r), y # 0
    PROVE  /\ x \in Unsigned /\ y \in Unsigned
           /\ x \in Nat /\ y \in Nat \ {0}
           /\ x \in 0..(2 * Half - 1) /\ y \in 1..(2 * Half - 1)
<1>1. call.op = "umul"
  BY DEF CheckInv
<1>2. x \in Unsigned /\ y \in Unsigned
  BY <1>1, Operands, ConstantsAndVariables DEF Range, Values, Op
<1> QED
  BY <1>2, OverflowSimplifyAssumption DEF Unsigned, UMAX

\* Each of the two forms asks whether the product is greater than c, or its
\* inverse whether it is not.
LEMMA OriginalMeaning ==
    ASSUME TypeOK, CheckInv, rewritten # "no",
           NEW x \in Range(call.l), NEW y \in Range(call.r), y # 0
    PROVE  Original(x, y) <=> (inverted # (x * y > cmp.c))
<1>1. /\ x \in Nat /\ y \in Nat \ {0}
      /\ x \in 0..(2 * Half - 1) /\ y \in 1..(2 * Half - 1)
  BY CheckOperands
<1>2. cmp \in Check
  BY DEF CheckInv
<1>3. CASE cmp.form = "product"
  <2>1. cmp.c = UMAX
    BY <1>2, <1>3 DEF Check
  <2>2. Quotient(x, y) = ((x * y) % (2 * Half)) \div y
    BY <1>3 DEF Quotient
  <2>3. 2 * Half \in Nat \ {0}
    BY OverflowSimplifyAssumption
  <2>4. x # Quotient(x, y) <=> x * y >= 2 * Half
    BY <1>1, <2>2, <2>3, WrappedProduct
  <2>5. x * y \in Nat
    BY <1>1
  <2>6. x * y >= 2 * Half <=> x * y > cmp.c
    BY <2>1, <2>3, <2>5 DEF UMAX
  <2>7. (x * y) % (2 * Half) \in Nat
    BY <2>3, <2>5, DivisionWithRemainder
  <2>8. Quotient(x, y) \in Int
    BY <1>1, <2>2, <2>7, DivisionWithRemainder
  <2>9. Original(x, y) <=> (inverted # (x # Quotient(x, y)))
    BY <1>1, <1>3, <2>8, Recognized
  <2> QED
    BY <2>4, <2>6, <2>9
<1>4. CASE cmp.form # "product"
  <2>1. cmp.c \in Nat
    BY <1>2, <1>4, OverflowSimplifyAssumption DEF Check, Unsigned, UMAX
  <2>2. Quotient(x, y) = cmp.c \div y
    BY <1>4 DEF Quotient
  <2>3. x > Quotient(x, y) <=> x * y > cmp.c
    BY <1>1, <2>1, <2>2, QuotientOfConstant
  <2>4. Quotient(x, y) \in Int
    BY <1>1, <2>1, <2>2, DivisionWithRemainder
  <2>5. Original(x, y) <=> (inverted # (x > Quotient(x, y)))
    BY <1>1, <1>4, <2>4, Recognized
  <2> QED
    BY <2>3, <2>5
<1> QED
  BY <1>3, <1>4

\* So does whatever recognize has made of it, once OverflowSimplify has been
\* there and before.
LEMMA RewrittenMeaning ==
    ASSUME IInv, CheckInv, rewritten # "no",
           NEW x \in Range(call.l), NEW y \in Range(call.r), y # 0,
           ~(rewritten = "bounds" /\ x = 0 /\ y > cmp.c)
    PROVE  Rewritten(x, y) <=> (inverted # (x * y > cmp.c))
<1>1. /\ x \in Nat /\ y \in Nat \ {0}
      /\ x \in Unsigned /\ y \in Unsigned
  BY CheckOperands DEF IInv
<1>2. /\ cmp \in Check
      /\ rewritten = Rewriting
      /\ call.op = "umul"
  BY DEF CheckInv
<1>3. cmp.c \in Nat
  BY <1>2, OverflowSimplifyAssumption DEF Check, Unsigned, UMAX
<1>4. CASE rewritten = "intrinsic"
  <2>1. cmp.c = UMAX
    BY <1>2, <1>4 DEF Rewriting, Check
  <2>2. OverflowBit(x, y) <=> Overflows("umul", x, y)
    BY <1>2, UMulExact DEF ExactFor
  <2>3. x * y \in Nat
    BY <1>1
  <2>4. Overflows("umul", x, y) <=> x * y > cmp.c
    BY <2>1, <2>3, OverflowSimplifyAssumption
       DEF Overflows, Exact, Values, Unsigned, UMAX
  <2>5. Rewritten(x, y) = (inverted # OverflowBit(x, y))
    BY <1>4 DEF Rewritten
  <2>6. OverflowBit(x, y) \in BOOLEAN
    BY <1>2 DEF OverflowBit, Comparison, simplifyUMul, Overflows
  <2>7. OverflowBit(x, y) = (x * y > cmp.c)
    BY <2>2, <2>4, <2>6
  <2> QED
    BY <2>5, <2>7
<1>5. CASE rewritten = "bounds"
  <2>1. y \in Nat
    BY <1>1
  <2>2. x # 0 \/ y <= cmp.c
    BY <1>3, <1>5, <2>1
  <2>3. Bounds(x, y) <=> x * y > cmp.c
    BY <1>1, <1>3, <2>2, BoundsOverflow DEF Bounds
  <2>4. Rewritten(x, y) = (inverted # Bounds(x, y))
    BY <1>5 DEF Rewritten
  <2>5. Bounds(x, y) \in BOOLEAN
    BY Zenon DEF Bounds
  <2>6. Bounds(x, y) = (x * y > cmp.c)
    BY <2>3, <2>5
  <2> QED
    BY <2>4, <2>6
<1>6. CASE rewritten = "wide"
  <2>1. Rewritten(x, y) = (inverted # Wide(x, y))
    BY <1>6 DEF Rewritten
  <2> QED
    BY <2>1 DEF Wide
<1> QED
  BY <1>2, <1>4, <1>5, <1>6 DEF Rewriting

----------------------------------------------------------------------------
(* Theorems *)

\* Whatever the operands, and for integers of every width, a check that
\* OverflowIdiom rewrites has the value the programmer wrote, after that pass
\* and after OverflowSimplify; but for x = 0 and y > c of a check against the
\* greatest number of fewer bits.
THEOREM MeaningKept == IdiomSpec => []ChecksKeepTheirMeaning
<1>1. IInv /\ CheckInv => ChecksKeepTheirMeaning
  <2> SUFFICES ASSUME IInv, CheckInv,
                      NEW x \in Range(call.l), NEW y \in Range(call.r),
                      ~(rewritten = "bounds" /\ x = 0 /\ y > cmp.c),
                      rewritten # "no", y # 0
               PROVE  Rewritten(x, y) <=> Original(x, y)
    BY DEF ChecksKeepTheirMeaning, SameFor
  <2>1. Rewritten(x, y) <=> (inverted # (x * y > cmp.c))
    BY RewrittenMeaning
  <2>2. Original(x, y) <=> (inverted # (x * y > cmp.c))
    BY OriginalMeaning DEF IInv
  <2> QED
    BY <2>1, <2>2
<1>2. IdiomSpec => []IInv
  BY IdiomImplementsSimplify, Initially, Inductive, PTL DEF Spec
<1>3. IdiomSpec => []CheckInv
  BY CheckInitially, CheckInductive, PTL DEF IdiomSpec
<1> QED
  BY <1>1, <1>2, <1>3, PTL

\* What OverflowSimplify promises of sums, differences and products holds of the
\* two passes together.
THEOREM ArithmeticKept == IdiomSpec => [](TypeOK /\ AddSubExact /\ MulExact)
BY IdiomImplementsSimplify, TypeCorrect, SumsAndDifferences, Products, PTL
=============================================================================
