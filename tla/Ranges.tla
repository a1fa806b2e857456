------------------------------- MODULE Ranges -------------------------------
(***************************************************************************)
(* Value ranges: CRange (src/src/CRange.h) over LLVM's ConstantRange.  A     *)
(* range of width w is an arc of the integers modulo 2^w: an interval that   *)
(* may wrap around, or nothing, or everything.  It is kept as its width and  *)
(* the set of its members.  What LLVM computes is modelled by its result:    *)
(* the smallest arc around the exact set.                                   *)
(***************************************************************************)
EXTENDS Integers, FiniteSets

CONSTANT Widths  \* the bit widths of the integers of the program

ASSUME RangesAssumption == Widths \subseteq Nat \ {0} /\ IsFiniteSet(Widths)

Ring(w) == 0..(2^w - 1)

CRange == UNION {[w: {w}, s: SUBSET Ring(w)] : w \in Widths}

EmptyRange(w) == [w |-> w, s |-> {}]
FullRange(w) == [w |-> w, s |-> Ring(w)]
Singleton(w, c) == [w |-> w, s |-> {c % 2^w}]

Arcs ==
    [w \in Widths |->
        {{(lo + i) % 2^w : i \in 0..(n - 1)} : lo \in Ring(w), n \in 1..2^w}]

\* The smallest arc around each set; of two equally small ones, either would do.
SmallestArc ==
    [w \in Widths |->
        [S \in SUBSET Ring(w) |->
            IF S = {} THEN {}
            ELSE LET around == {A \in Arcs[w] : S \subseteq A}
                 IN CHOOSE A \in around :
                      \A B \in around : Cardinality(A) <= Cardinality(B)]]

Hull(w, S) == [w |-> w, s |-> SmallestArc[w][S]]

\* Truncation keeps the low bits; zero extension of a range that wraps covers
\* the whole narrow ring, which is what the smallest arc gives.
zextOrTrunc(r, w) == IF r.w = w THEN r ELSE Hull(w, {x % 2^w : x \in r.s})

signExtend(r, w) ==
    Hull(w, {IF x < 2^(r.w - 1) THEN x ELSE x + 2^w - 2^r.w : x \in r.s})

\* CRange::match brings a range to the width of another.
match(r, other) == zextOrTrunc(r, other.w)

\* safeUnion keeps the width of the range it grows; the first form takes in the
\* values of another width as they are.
safeUnionUnmatched(r, other) ==
    IF r.w = other.w THEN Hull(r.w, r.s \cup other.s) ELSE [r EXCEPT !.s = @ \cup other.s]

safeUnion(r, other) == Hull(r.w, r.s \cup match(other, r).s)

intersectWith(r, other) == Hull(r.w, r.s \cap other.s)

add(l, r) == Hull(l.w, {(x + y) % 2^l.w : x \in l.s, y \in r.s})
sub(l, r) == Hull(l.w, {(x - y) % 2^l.w : x \in l.s, y \in r.s})

\* CRange::sdiv: "too conservative".
sdiv(l, r) == IF l.s = {} \/ r.s = {} THEN EmptyRange(l.w) ELSE FullRange(l.w)

\* Unsigned comparisons, with their operands swapped and negated.
Holds(pred, x, y) ==
    CASE pred = "ult" -> x < y
      [] pred = "ule" -> x <= y
      [] pred = "ugt" -> x > y
      [] pred = "uge" -> x >= y
      [] pred = "eq" -> x = y
      [] pred = "ne" -> x # y

getSwappedPredicate(pred) ==
    CASE pred = "ult" -> "ugt" [] pred = "ugt" -> "ult"
      [] pred = "ule" -> "uge" [] pred = "uge" -> "ule"
      [] OTHER -> pred

getInversePredicate(pred) ==
    CASE pred = "ult" -> "uge" [] pred = "uge" -> "ult"
      [] pred = "ule" -> "ugt" [] pred = "ugt" -> "ule"
      [] pred = "eq" -> "ne" [] pred = "ne" -> "eq"

\* What may stand left of pred when the right side is in r.
makeICmpRegion(pred, r) ==
    Hull(r.w, {x \in Ring(r.w) : \E y \in r.s : Holds(pred, x, y)})
=============================================================================
