---------------------------- MODULE SMTBoolector ----------------------------
(***************************************************************************)
(* The operations on bit vectors that ValueGen builds its queries from, as  *)
(* the binding to Boolector provides them (src/src/SMTBoolector.cc).  A      *)
(* vector of n bits is a number below 2^n.  Boolector is not part of the     *)
(* repository: what it computes is that of SMT-LIB, except where the binding *)
(* adds to it, as for shifts.                                               *)
(***************************************************************************)
EXTENDS Integers, Bitwise

Bits(n) == 0..(2^n - 1)
Cut(n, a) == a % 2^n
Signed(n, a) == IF a >= 2^(n - 1) THEN a - 2^n ELSE a
SignedMin(n) == 2^(n - 1)

extract(n, a) == Cut(n, a)
zero_extend(a) == a
sign_extend(from, to, a) == Cut(to, Signed(from, a))

\* Rounded towards zero.
Truncated(a, b) ==
    LET mag(x) == IF x < 0 THEN -x ELSE x
        q == mag(a) \div mag(b)
    IN IF (a < 0) = (b < 0) THEN q ELSE -q

bvudiv(n, a, b) == IF b = 0 THEN 2^n - 1 ELSE a \div b
bvurem(n, a, b) == IF b = 0 THEN a ELSE a % b

bvsdiv(n, a, b) ==
    IF b = 0 THEN (IF Signed(n, a) < 0 THEN 1 ELSE 2^n - 1)
    ELSE Cut(n, Truncated(Signed(n, a), Signed(n, b)))

bvsrem(n, a, b) ==
    LET l == Signed(n, a)
        r == Signed(n, b)
    IN IF b = 0 THEN a ELSE Cut(n, l - r * Truncated(l, r))

\* Boolector shifts vectors of 2^k bits by one of k bits.  e0 is extended with
\* zeros to the next power of two, whatever the shift, the amount cut to its
\* logarithm, the result cut to n bits.
Sll(w, a, k) == Cut(w, a * 2^k)
Srl(w, a, k) == a \div 2^k
Sra(w, a, k) == Cut(w, Signed(w, a) \div 2^k)

Log2(n) == CHOOSE k \in 1..n : 2^k >= n /\ 2^(k - 1) < n

shift(F(_, _, _), n, e0, e1) ==
    extract(n, F(2^Log2(n), zero_extend(e0), extract(Log2(n), e1)))

\* Without the last step.
bvshlUncut(n, a, b) == Sll(2^Log2(n), zero_extend(a), extract(Log2(n), b))

bvshl(n, a, b) == shift(Sll, n, a, b)
bvlshr(n, a, b) == shift(Srl, n, a, b)
bvashr(n, a, b) == shift(Sra, n, a, b)

\* What a sum, difference or product is before it is cut.
Exact(op, a, b) ==
    CASE op = "add" -> a + b [] op = "sub" -> a - b [] op = "mul" -> a * b

bvs_overflow(op, n, a, b) ==
    Exact(op, Signed(n, a), Signed(n, b)) \notin -(2^(n - 1))..(2^(n - 1) - 1)

bvu_overflow(op, n, a, b) == Exact(op, a, b) \notin Bits(n)

Compare(pred, n, a, b) ==
    CASE pred = "eq" -> a = b
      [] pred = "ult" -> a < b
      [] pred = "ule" -> a <= b
      [] pred = "slt" -> Signed(n, a) < Signed(n, b)
      [] pred = "sle" -> Signed(n, a) <= Signed(n, b)

Binary(op, n, a, b) ==
    CASE op \in {"add", "sub", "mul"} -> Cut(n, Exact(op, a, b))
      [] op = "and" -> a & b
      [] op = "or" -> a | b
      [] op = "xor" -> a ^^ b
      [] op = "udiv" -> bvudiv(n, a, b)
      [] op = "urem" -> bvurem(n, a, b)
      [] op = "sdiv" -> bvsdiv(n, a, b)
      [] op = "srem" -> bvsrem(n, a, b)
      [] op = "shl" -> bvshl(n, a, b)
      [] op = "lshr" -> bvlshr(n, a, b)
      [] op = "ashr" -> bvashr(n, a, b)
=============================================================================
