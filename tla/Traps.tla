-------------------------------- MODULE Traps --------------------------------
(***************************************************************************)
(* The conditions of the traps that IntRewrite and IntLibcalls put before    *)
(* an operation (src/src/IntRewrite.cc, src/src/IntLibcalls.cc), and what    *)
(* the operation itself makes of its operands.  Where a trap is put is the   *)
(* subject of IntRewrite.tla.                                               *)
(***************************************************************************)
EXTENDS SMTBoolector, Sequences

CONSTANT IntWidth  \* the bits of int, for INT_MAX

ASSUME TrapsAssumption == IntWidth \in Nat \ {0}

INT_MAX == 2^(IntWidth - 1) - 1

\* An index level of a getelementptr that is not into an array.
NotArray == -1

----------------------------------------------------------------------------
(* The conditions, for operands a and b of w bits *)

\* Which of the two intrinsics is asked.
insertOverflowCheck(t, w, a, b) ==
    IF t.nsw THEN bvs_overflow(t.op, w, a, b) ELSE bvu_overflow(t.op, w, a, b)

insertDivCheck(t, w, a, b) ==
    \/ b = 0
    \/ t.signed /\ a = SignedMin(w) /\ b = 2^w - 1

insertShiftCheck(w, b) == Compare("ule", w, w, b)

ArrayBound(w, n) == Cut(w, IF n <= 1 THEN INT_MAX ELSE n)

\* One index each; some level is an array.
insertArrayCheck(t, w, idx) ==
    \E k \in DOMAIN t.dims :
        t.dims[k] # NotArray /\ Compare("ult", w, ArrayBound(w, t.dims[k]), idx[k])

rewriteSizeAt(w, size) == Compare("slt", w, size, 0)

TrapCondition(t, w, a, b) ==
    CASE t.kind = "overflow" -> insertOverflowCheck(t, w, a, b)
      [] t.kind = "div" -> insertDivCheck(t, w, a, b)
      [] t.kind = "shift" -> insertShiftCheck(w, b)
      [] t.kind = "array" -> insertArrayCheck(t, w, <<a, b>>)
      [] t.kind = "size" -> rewriteSizeAt(w, b)

----------------------------------------------------------------------------
(* What a trap is to tell: the operation has no result, or not the one of    *)
(* the integers, or an index or size that no object has.                    *)

Fails(t, w, a, b) ==
    LET l == Signed(w, a)
        r == Signed(w, b)
    IN CASE t.kind = "overflow" ->
              LET exact == IF t.nsw THEN Exact(t.op, l, r) ELSE Exact(t.op, a, b)
              IN (IF t.nsw THEN Signed(w, Cut(w, exact)) ELSE Cut(w, exact)) # exact
         [] t.kind = "div" -> r = 0 \/ (t.signed /\ Truncated(l, r) > 2^(w - 1) - 1)
         [] t.kind = "shift" -> b \notin 0..(w - 1)
         [] t.kind = "array" ->
              \E k \in DOMAIN t.dims :
                /\ t.dims[k] # NotArray
                /\ Signed(w, <<a, b>>[k])
                     \notin 0..(IF t.dims[k] <= 1 THEN INT_MAX ELSE t.dims[k])
         [] t.kind = "size" -> b > 2^(w - 1) - 1
=============================================================================
