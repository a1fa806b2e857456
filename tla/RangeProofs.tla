----------------------------- MODULE RangeProofs -----------------------------
(***************************************************************************)
(* The range pass keeps its maps well typed and sweeps a module a bounded    *)
(* number of times; when it ends, its ranges hold whatever the program may   *)
(* put in an identifier: for every program and all widths.                   *)
(***************************************************************************)
EXTENDS RangeMeaning, FiniteSetTheorems, TLAPS

----------------------------------------------------------------------------
(* Identifiers *)

\* The qualifier of a global value's identifiers is a stem or none.
LEMMA ScopeStemType ==
    ASSUME NEW gv \in GlobalValue
    PROVE  ScopeStem(gv) \in STRING \cup {NoStem}
<1>1. gv.mod \in 1..NumModules
  BY DEF GlobalValue, ModuleNo
<1>2. Stem[gv.mod] \in STRING
  BY <1>1, IdsAssumption
<1> QED
  BY <1>2 DEF ScopeStem

\* An argument identifier is an identifier, for any argument number.
LEMMA ArgIdType ==
    ASSUME NEW f \in GlobalValue, NEW n \in Nat
    PROVE  ArgId(f, n) \in Id
<1>1. ScopeStem(f) \in STRING \cup {NoStem}
  BY ScopeStemType
<1>2. <<"arg">> \in Seq({"var", "arg", "ret", "struct"})
  OBVIOUS
<1> QED
  BY <1>1, <1>2 DEF ArgId, Id, GlobalValue

\* So is a return identifier.
LEMMA RetIdType ==
    ASSUME NEW f \in GlobalValue
    PROVE  RetId(f) \in Id
<1>1. ScopeStem(f) \in STRING \cup {NoStem}
  BY ScopeStemType
<1>2. <<"ret">> \in Seq({"var", "arg", "ret", "struct"})
  OBVIOUS
<1> QED
  BY <1>1, <1>2 DEF RetId, Id, GlobalValue

----------------------------------------------------------------------------
(* The driver *)

LEMMA DriverInitType == DriverInit => DriverTypeOK
  BY IdsAssumption DEF DriverInit, DriverTypeOK, Phase

\* The loops around doInitialization and doFinalization.
LEMMA ForModuleType ==
    ASSUME DriverTypeOK, NEW p, ForModule(p)
    PROVE  DriverTypeOK' /\ mod \in ModuleNo /\ phase' = phase /\ phase = p
  BY IdsAssumption DEF DriverTypeOK, ForModule, ModuleNo

LEMMA EndModulePassType ==
    ASSUME DriverTypeOK, NEW r, EndModulePass(r)
    PROVE  DriverTypeOK'
  BY IdsAssumption DEF DriverTypeOK, EndModulePass, InModulePass

\* The driver's own steps start from the end of a loop.
LEMMA DriveType ==
    ASSUME DriverTypeOK, BeginSweep \/ BeginFinal \/ Finish
    PROVE  DriverTypeOK' /\ mod > NumModules
<1>1. CASE BeginSweep
  BY <1>1, IdsAssumption DEF BeginSweep, DriverTypeOK, Phase
<1>2. CASE BeginFinal
  BY <1>2, IdsAssumption DEF BeginFinal, DriverTypeOK, Phase
<1>3. CASE Finish
  BY <1>3 DEF Finish, DriverTypeOK, Phase
<1> QED
  BY <1>1, <1>2, <1>3

----------------------------------------------------------------------------
(* Numbers *)

\* Induction, for a set of numbers: its complement would have an initial
\* interval around it that is minimal.
LEMMA InductionOverSets ==
    ASSUME NEW S, 0 \in S, \A n \in Nat : n \in S => n + 1 \in S
    PROVE  Nat \subseteq S
<1> SUFFICES ASSUME NEW n0 \in Nat, n0 \notin S PROVE FALSE
  OBVIOUS
<1> DEFINE U == 0..n0
           B == {m \in U : m \notin S}
           T == {0..m : m \in B}
<1>1. T \subseteq FiniteSubsetsOf(U)
  <2> SUFFICES ASSUME NEW m \in B PROVE 0..m \in FiniteSubsetsOf(U)
    OBVIOUS
  <2>1. IsFiniteSet(0..m)
    BY FS_Interval
  <2> QED
    BY <2>1 DEF FiniteSubsetsOf
<1>2. 0..n0 \in T
  OBVIOUS
<1>3. \E x \in T : \A y \in T : ~(<<y, x>> \in StrictSubsetOrdering(U))
  <2> HIDE DEF T, U
  <2>1. T # {}
    BY <1>2
  <2> QED
    BY <1>1, <2>1, FS_StrictSubsetOrderingWellFounded, WFMin
<1>4. PICK m \in B : \A y \in T : ~(<<y, 0..m>> \in StrictSubsetOrdering(U))
  BY <1>3
<1>5. m - 1 \in B
  OBVIOUS
<1>6. 0..(m - 1) \in T
  BY <1>5
<1>7. <<0..(m - 1), 0..m>> \in StrictSubsetOrdering(U)
  <2>1. m \in 0..m /\ m \notin 0..(m - 1)
    OBVIOUS
  <2>2. 0..(m - 1) \subseteq 0..m /\ 0..m \subseteq U
    OBVIOUS
  <2> QED
    BY <2>1, <2>2 DEF StrictSubsetOrdering
<1> QED
  BY <1>4, <1>6, <1>7

LEMMA LeastNumber ==
    ASSUME NEW T \in SUBSET Nat, T # {}
    PROVE  \E x \in T : \A y \in T : x <= y
<1> SUFFICES ASSUME \A x \in T : \E y \in T : y < x PROVE FALSE
  OBVIOUS
<1> DEFINE S == {n \in Nat : \A k \in 0..n : k \notin T}
<1>1. 0 \in S
  OBVIOUS
<1>2. ASSUME NEW n \in Nat, n \in S
      PROVE  n + 1 \in S
  <2>1. \A k \in 0..n : k \notin T
    BY <1>2
  <2>2. n + 1 \notin T
    BY <2>1
  <2> QED
    BY <2>1, <2>2
<1>3. Nat \subseteq S
  <2> HIDE DEF S
  <2> QED
    BY <1>1, <1>2, InductionOverSets
<1>4. PICK x \in T : TRUE
  OBVIOUS
<1>5. x \in S /\ x \in 0..x
  BY <1>3
<1> QED
  BY <1>5

\* 2^w counts the subsets of 1..w.
LEMMA Power ==
    ASSUME NEW w \in Nat
    PROVE  2^w \in Nat \ {0} /\ Cardinality(SUBSET (1..w)) = 2^w
<1>1. IsFiniteSet(1..w) /\ Cardinality(1..w) = w
  BY FS_Interval
<1>2. IsFiniteSet(SUBSET (1..w)) /\ Cardinality(SUBSET (1..w)) = 2^w
  BY <1>1, FS_SUBSET
<1>3. Cardinality(SUBSET (1..w)) \in Nat
  BY <1>2, FS_CardinalityType
<1>4. Cardinality(SUBSET (1..w)) # 0
  BY <1>2, FS_EmptySet
<1> QED
  BY <1>2, <1>3, <1>4

LEMMA PowerMonotone ==
    ASSUME NEW v \in Nat, NEW w \in Nat, v <= w
    PROVE  2^v <= 2^w
<1>1. SUBSET (1..v) \in SUBSET (SUBSET (1..w))
  OBVIOUS
<1>2. IsFiniteSet(SUBSET (1..w))
  <2>1. IsFiniteSet(1..w)
    BY FS_Interval
  <2> QED
    BY <2>1, FS_SUBSET
<1>3. Cardinality(SUBSET (1..v)) <= Cardinality(SUBSET (1..w))
  BY <1>1, <1>2, FS_Subset
<1> QED
  BY <1>3, Power

----------------------------------------------------------------------------
(* Arcs and the operations on ranges *)

RangeOf(w) == [w: {w}, s: SUBSET Ring(w)]

LEMMA RingFacts ==
    ASSUME NEW w \in Widths
    PROVE  /\ w \in Nat \ {0} /\ 2^w \in Nat \ {0}
           /\ Ring(w) \subseteq Nat /\ 0 \in Ring(w)
           /\ IsFiniteSet(Ring(w))
           /\ \A x \in Int : x % 2^w \in Ring(w)
           /\ \A x \in Ring(w) : x % 2^w = x
<1>1. w \in Nat \ {0}
  BY RangesAssumption
<1>2. 2^w \in Nat \ {0}
  BY <1>1, Power
<1> DEFINE m == 2^w
<1>3. m \in Nat \ {0} /\ Ring(w) = 0..(m - 1)
  BY <1>2 DEF Ring
<1> HIDE DEF m
<1>4. IsFiniteSet(Ring(w))
  BY <1>3, FS_Interval
<1>5. /\ Ring(w) \subseteq Nat /\ 0 \in Ring(w)
      /\ \A x \in Int : x % m \in Ring(w)
      /\ \A x \in Ring(w) : x % m = x
  BY <1>3
<1> QED
  BY <1>1, <1>2, <1>4, <1>5 DEF m

LEMMA InCRange ==
    ASSUME NEW w \in Widths, NEW r \in RangeOf(w)
    PROVE  r \in CRange /\ r.w = w /\ r.s \subseteq Ring(w)
BY DEF CRange, RangeOf

LEMMA CRangeWidth ==
    ASSUME NEW r \in CRange
    PROVE  r.w \in Widths /\ r \in RangeOf(r.w) /\ r.s \subseteq Ring(r.w)
BY DEF CRange, RangeOf

LEMMA SimpleRanges ==
    ASSUME NEW w \in Widths
    PROVE  /\ EmptyRange(w) \in RangeOf(w) /\ EmptyRange(w).s = {}
           /\ FullRange(w) \in RangeOf(w) /\ FullRange(w).s = Ring(w) /\ FullRange(w).w = w
           /\ \A c \in Nat : Singleton(w, c) \in RangeOf(w)
BY RingFacts DEF EmptyRange, FullRange, Singleton, RangeOf

\* Around every set there is a smallest arc, and it is one.
LEMMA SmallestArcFacts ==
    ASSUME NEW w \in Widths, NEW S \in SUBSET Ring(w)
    PROVE  /\ SmallestArc[w][S] \subseteq Ring(w)
           /\ S \subseteq SmallestArc[w][S]
           /\ S = {} => SmallestArc[w][S] = {}
<1> DEFINE around == {A \in Arcs[w] : S \subseteq A}
           least == CHOOSE A \in around : \A B \in around : Cardinality(A) <= Cardinality(B)
<1>1. SmallestArc[w][S] = IF S = {} THEN {} ELSE least
  BY DEF SmallestArc
<1>2. 2^w \in Nat \ {0} /\ Ring(w) = 0..(2^w - 1)
  BY RingFacts DEF Ring
<1>3. \A A \in Arcs[w] : A \subseteq Ring(w)
  <2>1. ASSUME NEW lo \in Ring(w), NEW n \in 1..2^w, NEW i \in 0..(n - 1)
        PROVE  (lo + i) % 2^w \in Ring(w)
    <3>1. lo + i \in Int
      BY <1>2
    <3> QED
      BY <3>1, RingFacts
  <2> QED
    BY <2>1 DEF Arcs
<1>4. Ring(w) \in Arcs[w]
  <2>1. Ring(w) = {(0 + i) % 2^w : i \in 0..(2^w - 1)}
    <3>1. ASSUME NEW i \in 0..(2^w - 1)
          PROVE  (0 + i) % 2^w = i
      <4>1. 0 + i = i /\ i \in Ring(w)
        BY <1>2
      <4> QED
        BY <4>1, RingFacts
    <3> QED
      BY <1>2, <3>1
  <2>2. 0 \in Ring(w) /\ 2^w \in 1..2^w
    BY <1>2
  <2> DEFINE arc(lo, n) == {(lo + i) % 2^w : i \in 0..(n - 1)}
  <2>3. Arcs[w] = {arc(lo, n) : lo \in Ring(w), n \in 1..2^w}
    BY DEF Arcs
  <2>4. Ring(w) = arc(0, 2^w)
    BY <2>1
  <2> HIDE DEF arc
  <2> QED
    BY <2>2, <2>3, <2>4
<1>5. CASE S # {}
  <2>1. Ring(w) \in around
    BY <1>4
  <2> DEFINE Sizes == {Cardinality(A) : A \in around}
  <2>2. Sizes \in SUBSET Nat
    <3>1. ASSUME NEW A \in around PROVE Cardinality(A) \in Nat
      <4>1. A \subseteq Ring(w)
        BY <1>3
      <4> QED
        BY <4>1, RingFacts, FS_Subset, FS_CardinalityType
    <3> QED
      BY <3>1
  <2>3. Sizes # {}
    BY <2>1
  <2>4. \E x \in Sizes : \A y \in Sizes : x <= y
    <3> HIDE DEF Sizes
    <3> QED
      BY <2>2, <2>3, LeastNumber
  <2>5. \E A \in around : \A B \in around : Cardinality(A) <= Cardinality(B)
    BY <2>4
  <2>6. least \in around
    <3> HIDE DEF around
    <3> QED
      BY <2>5
  <2> QED
    BY <1>1, <1>3, <1>5, <2>6
<1> QED
  BY <1>1, <1>5

LEMMA HullFacts ==
    ASSUME NEW w \in Widths, NEW S \in SUBSET Ring(w)
    PROVE  /\ Hull(w, S) \in RangeOf(w)
           /\ S \subseteq Hull(w, S).s
           /\ S = {} => Hull(w, S).s = {}
BY SmallestArcFacts DEF Hull, RangeOf

LEMMA ZextOrTruncType ==
    ASSUME NEW r \in CRange, NEW w \in Widths
    PROVE  zextOrTrunc(r, w) \in RangeOf(w)
<1>1. r.w \in Widths /\ r \in RangeOf(r.w) /\ r.s \subseteq Ring(r.w)
  BY CRangeWidth
<1>2. CASE r.w = w
  BY <1>1, <1>2 DEF zextOrTrunc
<1>3. CASE r.w # w
  <2>1. \A x \in r.s : x % 2^w \in Ring(w)
    BY <1>1, RingFacts
  <2> QED
    BY <1>3, <2>1, HullFacts DEF zextOrTrunc
<1> QED
  BY <1>2, <1>3

LEMMA MatchType ==
    ASSUME NEW r \in CRange, NEW other \in CRange
    PROVE  match(r, other) \in RangeOf(other.w)
BY CRangeWidth, ZextOrTruncType DEF match

LEMMA SignExtendType ==
    ASSUME NEW r \in CRange, NEW w \in Widths, r.w <= w
    PROVE  signExtend(r, w) \in RangeOf(w)
<1>1. r.w \in Widths /\ r.s \subseteq Ring(r.w)
  BY CRangeWidth
<1>2. /\ 2^w \in Nat \ {0} /\ Ring(w) = 0..(2^w - 1)
      /\ 2^r.w \in Nat \ {0} /\ Ring(r.w) = 0..(2^r.w - 1)
  BY <1>1, RingFacts DEF Ring
<1>3. 2^r.w <= 2^w
  BY <1>1, RingFacts, PowerMonotone
<1>4. ASSUME NEW x \in r.s
      PROVE  x \in Ring(w) /\ x + 2^w - 2^r.w \in Ring(w)
  <2>1. x \in 0..(2^r.w - 1)
    BY <1>1, <1>2
  <2> DEFINE a == 2^w
             b == 2^r.w
  <2>2. a \in Nat /\ b \in Nat /\ b <= a /\ x \in 0..(b - 1)
    BY <1>2, <1>3, <2>1
  <2> HIDE DEF a, b
  <2>3. x \in 0..(a - 1) /\ x + a - b \in 0..(a - 1)
    BY <2>2
  <2> QED
    BY <1>2, <2>3 DEF a, b
<1>5. {IF x < 2^(r.w - 1) THEN x ELSE x + 2^w - 2^r.w : x \in r.s} \in SUBSET Ring(w)
  BY <1>4
<1> QED
  BY <1>5, HullFacts DEF signExtend

\* A union keeps its width and what is in it.
LEMMA SafeUnionFacts ==
    ASSUME NEW r \in CRange, NEW other \in CRange
    PROVE  /\ safeUnion(r, other) \in RangeOf(r.w)
           /\ r.s \subseteq safeUnion(r, other).s
<1>1. r.w \in Widths /\ r.s \subseteq Ring(r.w)
  BY CRangeWidth
<1>2. match(other, r).s \subseteq Ring(r.w)
  BY <1>1, MatchType, InCRange
<1> DEFINE S == r.s \cup match(other, r).s
<1>3. S \in SUBSET Ring(r.w) /\ r.s \subseteq S
  BY <1>1, <1>2
<1>4. safeUnion(r, other) = Hull(r.w, S)
  BY DEF safeUnion
<1> HIDE DEF S
<1>5. Hull(r.w, S) \in RangeOf(r.w) /\ S \subseteq Hull(r.w, S).s
  BY <1>1, <1>3, HullFacts
<1> QED
  BY <1>3, <1>4, <1>5

\* A full range does not change any more.
LEMMA FullStaysFull ==
    ASSUME NEW r \in CRange, NEW other \in CRange, r.s = Ring(r.w)
    PROVE  safeUnion(r, other) = r
<1>1. r.w \in Widths /\ r \in RangeOf(r.w)
  BY CRangeWidth
<1>2. safeUnion(r, other) \in RangeOf(r.w) /\ Ring(r.w) \subseteq safeUnion(r, other).s
  BY SafeUnionFacts
<1>3. safeUnion(r, other).s = r.s /\ safeUnion(r, other).w = r.w
  BY <1>2 DEF RangeOf
<1> QED
  BY <1>1, <1>2, <1>3 DEF RangeOf

LEMMA OperationTypes ==
    ASSUME NEW w \in Widths, NEW l \in RangeOf(w), NEW r \in CRange
    PROVE  /\ intersectWith(l, r) \in RangeOf(w)
           /\ add(l, r) \in RangeOf(w)
           /\ sub(l, r) \in RangeOf(w)
           /\ sdiv(l, r) \in RangeOf(w)
<1>1. l.w = w /\ l.s \subseteq Ring(w)
  BY InCRange
<1>2. intersectWith(l, r) \in RangeOf(w)
  BY <1>1, HullFacts DEF intersectWith
<1>3. l.s \subseteq Int /\ r.s \subseteq Int
  BY <1>1, CRangeWidth, RingFacts
<1>4. {(x + y) % 2^w : x \in l.s, y \in r.s} \in SUBSET Ring(w)
  BY <1>3, RingFacts
<1>5. {(x - y) % 2^w : x \in l.s, y \in r.s} \in SUBSET Ring(w)
  BY <1>3, RingFacts
<1>6. sdiv(l, r) \in RangeOf(w)
  BY <1>1, SimpleRanges DEF sdiv
<1> QED
  BY <1>1, <1>2, <1>4, <1>5, <1>6, HullFacts DEF add, sub

----------------------------------------------------------------------------
(* The unions over sequences *)

\* The recursive function in UnionOf is what its equation says.
LEMMA UnionOfRecursion ==
    ASSUME NEW w, NEW rs, Len(rs) \in Nat
    PROVE  \E f : /\ f = [n \in 0..Len(rs) |->
                            IF n = 0 THEN EmptyRange(w) ELSE safeUnion(f[n - 1], rs[n])]
                  /\ UnionOf(w, rs) = f[Len(rs)]
<1> DEFINE Eq(f, m) == f = [n \in 0..m |->
                              IF n = 0 THEN EmptyRange(w) ELSE safeUnion(f[n - 1], rs[n])]
           S == {m \in Nat : \E f : Eq(f, m)}
<1>1. 0 \in S
  <2> DEFINE f0 == [n \in 0..0 |-> EmptyRange(w)]
  <2>1. Eq(f0, 0)
    OBVIOUS
  <2> QED
    BY <2>1
<1>2. ASSUME NEW m \in Nat, m \in S
      PROVE  m + 1 \in S
  <2>1. PICK f : Eq(f, m)
    BY <1>2
  <2> DEFINE g == [n \in 0..(m + 1) |-> IF n = m + 1 THEN safeUnion(f[m], rs[n]) ELSE f[n]]
             h == [n \in 0..(m + 1) |->
                     IF n = 0 THEN EmptyRange(w) ELSE safeUnion(g[n - 1], rs[n])]
  <2>2. ASSUME NEW n \in 0..(m + 1)
        PROVE  g[n] = h[n]
    <3>1. CASE n = 0
      BY <2>1, <3>1
    <3>2. CASE n \in 1..m
      <4>1. n - 1 \in 0..m /\ n - 1 \in 0..(m + 1) /\ n \in 0..m /\ n - 1 # m + 1 /\ n # m + 1
        BY <3>2
      <4>2. g[n] = f[n] /\ g[n - 1] = f[n - 1]
        BY <4>1
      <4>3. f[n] = safeUnion(f[n - 1], rs[n])
        BY <2>1, <3>2, <4>1
      <4> QED
        BY <3>2, <4>2, <4>3
    <3>3. CASE n = m + 1
      <4>1. n - 1 = m /\ m \in 0..(m + 1) /\ m # m + 1 /\ n # 0
        BY <3>3
      <4>2. g[n] = safeUnion(f[m], rs[n]) /\ g[m] = f[m]
        BY <3>3, <4>1
      <4> QED
        BY <4>1, <4>2
    <3> QED
      BY <3>1, <3>2, <3>3
  <2>3. g = h
    <3>1. DOMAIN g = 0..(m + 1) /\ DOMAIN h = 0..(m + 1)
      OBVIOUS
    <3>2. \A n \in 0..(m + 1) : g[n] = h[n]
      BY <2>2
    <3> QED
      BY <3>2
  <2>4. Eq(g, m + 1)
    BY <2>3
  <2> HIDE DEF Eq, g, h
  <2> QED
    BY <2>4
<1>3. Len(rs) \in S
  <2> HIDE DEF S
  <2> QED
    BY <1>1, <1>2, InductionOverSets
<1> QED
  BY <1>3 DEF UnionOf

\* A union of ranges is a range.
LEMMA UnionOfType ==
    ASSUME NEW w \in Widths, NEW rs, Len(rs) \in Nat, \A n \in 1..Len(rs) : rs[n] \in CRange
    PROVE  UnionOf(w, rs) \in RangeOf(w)
<1>1. PICK f : /\ f = [n \in 0..Len(rs) |->
                         IF n = 0 THEN EmptyRange(w) ELSE safeUnion(f[n - 1], rs[n])]
               /\ UnionOf(w, rs) = f[Len(rs)]
  BY UnionOfRecursion
<1> DEFINE S == {n \in Nat : n <= Len(rs) => f[n] \in RangeOf(w)}
<1>2. 0 \in S
  BY <1>1, SimpleRanges
<1>3. ASSUME NEW n \in Nat, n \in S
      PROVE  n + 1 \in S
  <2> SUFFICES ASSUME n + 1 <= Len(rs) PROVE f[n + 1] \in RangeOf(w)
    OBVIOUS
  <2>1. f[n] \in RangeOf(w)
    BY <1>3
  <2>2. f[n + 1] = safeUnion(f[n], rs[n + 1])
    <3>1. n + 1 \in 0..Len(rs) /\ n + 1 # 0 /\ (n + 1) - 1 = n
      OBVIOUS
    <3> QED
      BY <1>1, <3>1
  <2>3. f[n] \in CRange /\ f[n].w = w /\ rs[n + 1] \in CRange
    BY <2>1, InCRange
  <2> QED
    BY <2>2, <2>3, SafeUnionFacts
<1>4. Len(rs) \in S
  <2> HIDE DEF S
  <2> QED
    BY <1>2, <1>3, InductionOverSets
<1> QED
  BY <1>1, <1>4

\* The value of IntRanges, and how it may change.
IRType(IR) ==
    /\ IR = [x \in DOMAIN IR |-> IR[x]]
    /\ DOMAIN IR \subseteq Id
    /\ IsFiniteSet(DOMAIN IR)
    /\ \A x \in DOMAIN IR : IR[x] \in CRange /\ IR[x].s # {}

Grown(IR, IR2) ==
    /\ DOMAIN IR \subseteq DOMAIN IR2
    /\ \A x \in DOMAIN IR : IR2[x].w = IR[x].w /\ IR[x].s \subseteq IR2[x].s

IsUpdate(u) == u.r.s # {} => u.id \in Id /\ u.r \in CRange

LEMMA UnionIdFacts ==
    ASSUME NEW IR, IRType(IR), NEW u, IsUpdate(u)
    PROVE  /\ IRType(UnionId(IR, u.id, u.r))
           /\ Grown(IR, UnionId(IR, u.id, u.r))
<1> DEFINE id == u.id
           r == u.r
           IR2 == UnionId(IR, id, r)
<1>1. CASE r.s = {}
  BY <1>1 DEF UnionId, Grown
<1>2. CASE r.s # {}
  <2>1. id \in Id /\ r \in CRange
    BY <1>2 DEF IsUpdate
  <2>2. /\ DOMAIN IR2 = DOMAIN IR \cup {id}
        /\ \A x \in DOMAIN IR : x # id => IR2[x] = IR[x]
        /\ id \in DOMAIN IR => IR2[id] = safeUnion(IR[id], r)
        /\ id \notin DOMAIN IR => IR2[id] = r
        /\ IR2 = [x \in DOMAIN IR2 |-> IR2[x]]
    BY <1>2 DEF UnionId
  <2> HIDE DEF IR2
  <2>3. id \in DOMAIN IR => IR2[id] \in CRange /\ IR2[id].w = IR[id].w /\ IR[id].s \subseteq IR2[id].s
    BY <2>1, <2>2, SafeUnionFacts, InCRange, CRangeWidth DEF IRType
  <2>4. IsFiniteSet(DOMAIN IR2)
    BY <2>2, FS_AddElement DEF IRType
  <2>5. ASSUME NEW x \in DOMAIN IR2 PROVE IR2[x] \in CRange /\ IR2[x].s # {}
    BY <1>2, <2>1, <2>2, <2>3 DEF IRType
  <2>6. IRType(IR2)
    BY <2>1, <2>2, <2>4, <2>5 DEF IRType
  <2>7. Grown(IR, IR2)
    BY <2>2, <2>3 DEF Grown
  <2> QED
    BY <2>6, <2>7 DEF IR2
<1> QED
  BY <1>1, <1>2

LEMMA GrownTransitive ==
    ASSUME NEW A, NEW B, NEW D, Grown(A, B), Grown(B, D)
    PROVE  Grown(A, D)
BY DEF Grown

\* The recursive function in UnionAll is what its equation says.
LEMMA UnionAllRecursion ==
    ASSUME NEW IR, NEW ups, Len(ups) \in Nat
    PROVE  \E f : /\ f = [n \in 0..Len(ups) |->
                            IF n = 0 THEN IR ELSE UnionId(f[n - 1], ups[n].id, ups[n].r)]
                  /\ UnionAll(IR, ups) = f[Len(ups)]
<1> DEFINE Eq(f, m) == f = [n \in 0..m |->
                              IF n = 0 THEN IR ELSE UnionId(f[n - 1], ups[n].id, ups[n].r)]
           S == {m \in Nat : \E f : Eq(f, m)}
<1>1. 0 \in S
  <2> DEFINE f0 == [n \in 0..0 |-> IR]
  <2>1. Eq(f0, 0)
    OBVIOUS
  <2> QED
    BY <2>1
<1>2. ASSUME NEW m \in Nat, m \in S
      PROVE  m + 1 \in S
  <2>1. PICK f : Eq(f, m)
    BY <1>2
  <2> DEFINE g == [n \in 0..(m + 1) |->
                     IF n = m + 1 THEN UnionId(f[m], ups[n].id, ups[n].r) ELSE f[n]]
             h == [n \in 0..(m + 1) |->
                     IF n = 0 THEN IR ELSE UnionId(g[n - 1], ups[n].id, ups[n].r)]
  <2>2. ASSUME NEW n \in 0..(m + 1)
        PROVE  g[n] = h[n]
    <3>1. CASE n = 0
      BY <2>1, <3>1
    <3>2. CASE n \in 1..m
      <4>1. n - 1 \in 0..m /\ n - 1 \in 0..(m + 1) /\ n \in 0..m /\ n - 1 # m + 1 /\ n # m + 1
        BY <3>2
      <4>2. g[n] = f[n] /\ g[n - 1] = f[n - 1]
        BY <4>1
      <4>3. f[n] = UnionId(f[n - 1], ups[n].id, ups[n].r)
        BY <2>1, <3>2, <4>1
      <4> QED
        BY <3>2, <4>2, <4>3
    <3>3. CASE n = m + 1
      <4>1. n - 1 = m /\ m \in 0..(m + 1) /\ m # m + 1 /\ n # 0
        BY <3>3
      <4>2. g[n] = UnionId(f[m], ups[n].id, ups[n].r) /\ g[m] = f[m]
        BY <3>3, <4>1
      <4> QED
        BY <4>1, <4>2
    <3> QED
      BY <3>1, <3>2, <3>3
  <2>3. g = h
    <3>1. DOMAIN g = 0..(m + 1) /\ DOMAIN h = 0..(m + 1)
      OBVIOUS
    <3>2. \A n \in 0..(m + 1) : g[n] = h[n]
      BY <2>2
    <3> QED
      BY <3>2
  <2>4. Eq(g, m + 1)
    BY <2>3
  <2> HIDE DEF Eq, g, h
  <2> QED
    BY <2>4
<1>3. Len(ups) \in S
  <2> HIDE DEF S
  <2> QED
    BY <1>1, <1>2, InductionOverSets
<1> QED
  BY <1>3 DEF UnionAll

\* A sequence of updates keeps the type, and only makes ranges grow.
LEMMA UnionAllFacts ==
    ASSUME NEW IR, IRType(IR), NEW ups, Len(ups) \in Nat,
           \A n \in 1..Len(ups) : IsUpdate(ups[n])
    PROVE  IRType(UnionAll(IR, ups)) /\ Grown(IR, UnionAll(IR, ups))
<1>1. PICK f : /\ f = [n \in 0..Len(ups) |->
                         IF n = 0 THEN IR ELSE UnionId(f[n - 1], ups[n].id, ups[n].r)]
               /\ UnionAll(IR, ups) = f[Len(ups)]
  BY UnionAllRecursion
<1> DEFINE S == {n \in Nat : n <= Len(ups) => IRType(f[n]) /\ Grown(IR, f[n])}
<1>2. 0 \in S
  <2>1. f[0] = IR
    BY <1>1
  <2> QED
    BY <2>1 DEF Grown
<1>3. ASSUME NEW n \in Nat, n \in S
      PROVE  n + 1 \in S
  <2> SUFFICES ASSUME n + 1 <= Len(ups) PROVE IRType(f[n + 1]) /\ Grown(IR, f[n + 1])
    OBVIOUS
  <2>1. IRType(f[n]) /\ Grown(IR, f[n])
    BY <1>3
  <2>2. f[n + 1] = UnionId(f[n], ups[n + 1].id, ups[n + 1].r)
    <3>1. n + 1 \in 0..Len(ups) /\ n + 1 # 0 /\ (n + 1) - 1 = n
      OBVIOUS
    <3> QED
      BY <1>1, <3>1
  <2>3. IsUpdate(ups[n + 1])
    OBVIOUS
  <2>4. IRType(f[n + 1]) /\ Grown(f[n], f[n + 1])
    BY <2>1, <2>2, <2>3, UnionIdFacts
  <2> QED
    BY <2>1, <2>4, GrownTransitive
<1>4. Len(ups) \in S
  <2> HIDE DEF S
  <2> QED
    BY <1>2, <1>3, InductionOverSets
<1> QED
  BY <1>1, <1>4

----------------------------------------------------------------------------
(* Programs *)

LEMMA SeqFacts ==
    ASSUME NEW S, NEW s \in Seq(S)
    PROVE  /\ Len(s) \in Nat /\ DOMAIN s = 1..Len(s)
           /\ \A n \in 1..Len(s) : s[n] \in S
OBVIOUS

\* A function over the numbers of a sequence has its length.
LEMMA LenOfNumbered ==
    ASSUME NEW k \in Nat, NEW f, f = [n \in 1..k |-> f[n]]
    PROVE  Len(f) = k
<1>1. f \in [1..k -> {f[n] : n \in 1..k}]
  OBVIOUS
<1>2. f \in Seq({f[n] : n \in 1..k})
  BY <1>1
<1>3. DOMAIN f = 1..k /\ DOMAIN f = 1..Len(f) /\ Len(f) \in Nat
  BY <1>1, <1>2
<1> QED
  BY <1>3

LEMMA ValueFacts ==
    ASSUME NEW v \in Value
    PROVE  /\ v.w \in Widths \cup {0} /\ 0 \notin Widths
           /\ v.w > 0 <=> v.w \in Widths
           /\ v.kind \in {"const", "instr", "other"}
           /\ v.kind = "const" => v.c \in Nat
           /\ v.kind \in {"const", "instr"} => v.w \in Widths
<1>1. Widths \subseteq Nat /\ 0 \notin Widths
  BY RangesAssumption
<1>2. CASE v \in [kind: {"const"}, c: Nat, w: Widths]
  <2>1. v.w \in Widths /\ v.kind = "const" /\ v.c \in Nat
    BY <1>2
  <2>2. v.w \in Nat /\ v.w # 0
    BY <1>1, <2>1
  <2> QED
    BY <1>1, <2>1, <2>2
<1>3. CASE v \in [kind: {"instr"}, b: Nat, i: Nat, w: Widths]
  <2>1. v.w \in Widths /\ v.kind = "instr"
    BY <1>3
  <2>2. v.w \in Nat /\ v.w # 0
    BY <1>1, <2>1
  <2> QED
    BY <1>1, <2>1, <2>2
<1>4. CASE v \in [kind: {"other"}, w: {0}]
  BY <1>1, <1>4
<1> QED
  BY <1>2, <1>3, <1>4 DEF Value

LEMMA InstrFacts ==
    ASSUME NEW J \in Instr
    PROVE  /\ J.w \in Widths \cup {0}
           /\ J.op \in {"store", "load", "call"} => J.id \in Id
           /\ J.op \in {"store", "return", "trunc", "zext", "sext"} => J.val \in Value
           /\ J.op = "call" => /\ J.retId \in Id
                               /\ J.callees \in Seq(Fns)
                               /\ J.args \in Seq(Value)
           /\ J.op \in {"add", "sub", "sdiv", "urem", "srem", "ashr", "xor"} =>
                J.w \in Widths /\ J.l \in Value /\ J.r \in Value
           /\ J.op \in {"trunc", "zext", "sext"} => J.w \in Widths
           /\ J.op = "select" => J.w \in Widths /\ J.t \in Value /\ J.f \in Value
           /\ J.op = "phi" => J.w \in Widths /\ J.in \in Seq([pred: Nat, val: Value])
           /\ J.op \in {"store", "return", "call", "load", "add", "sub", "sdiv", "urem", "srem",
                        "ashr", "xor", "trunc", "zext", "sext", "select", "phi", "other"}
BY DEF Instr

LEMMA TerminatorFacts ==
    ASSUME NEW T \in Terminator
    PROVE  /\ T.op \in {"br", "switch", "other"}
           /\ T.op = "br" => T.l \in Value /\ T.r \in Value
           /\ T.op = "switch" => T.val \in Value /\ T.cases \in Seq([c: Nat, to: Nat])
BY DEF Terminator

LEMMA FunctionFacts ==
    ASSUME NEW f \in Function
    PROVE  /\ f.fn \in Fns
           /\ Len(f.blocks) \in Nat /\ DOMAIN f.blocks = 1..Len(f.blocks)
           /\ \A b \in DOMAIN f.blocks :
                /\ f.blocks[b].preds \in Seq(Nat)
                /\ f.blocks[b].instrs \in Seq(Instr)
                /\ f.blocks[b].term \in Terminator
<1> DEFINE Blocks == [preds: Seq(Nat), instrs: Seq(Instr), term: Terminator]
<1>1. f.fn \in Fns /\ f.blocks \in Seq(Blocks)
  BY DEF Function
<1>2. Len(f.blocks) \in Nat /\ DOMAIN f.blocks = 1..Len(f.blocks)
  BY <1>1, SeqFacts
<1>3. \A b \in DOMAIN f.blocks : f.blocks[b] \in Blocks
  BY <1>1, SeqFacts
<1> QED
  BY <1>1, <1>2, <1>3

LEMMA ProgramFacts ==
    ASSUME prog \in Programs, mod \in ModuleNo
    PROVE  /\ prog.init[mod] \in Seq(InitLeaf)
           /\ Functions \in Seq(Function)
           /\ \A n \in DOMAIN Functions : WellFormed(Functions[n])
<1>1. prog \in [init: [ModuleNo -> Seq(InitLeaf)], code: [ModuleNo -> Seq(Function)]]
  BY RangeAssumption
<1>2. prog.init[mod] \in Seq(InitLeaf) /\ prog.code[mod] \in Seq(Function)
  BY <1>1
<1> QED
  BY <1>2, RangeAssumption DEF Functions

\* The pass is in a function.
Sane ==
    /\ IRType(IntRanges)
    /\ prog \in Programs /\ mod \in ModuleNo
    /\ fi \in 1..Len(Functions)

LEMMA TheFunction == Sane => F \in Function /\ WellFormed(F)
BY ProgramFacts, SeqFacts DEF Sane, F

LEMMA TheInstruction ==
    ASSUME Sane, NEW b \in DOMAIN F.blocks, NEW i \in DOMAIN F.blocks[b].instrs
    PROVE  /\ F.blocks[b].instrs[i] \in Instr
           /\ WellTyped(F, F.blocks[b].instrs[i])
           /\ b \in Nat /\ i \in Nat
<1>1. F \in Function /\ WellFormed(F)
  BY TheFunction
<1>2. F.blocks[b].instrs \in Seq(Instr)
  BY <1>1, FunctionFacts
<1>3. F.blocks[b].instrs[i] \in Instr /\ i \in Nat
  BY <1>2, SeqFacts
<1>4. WellTyped(F, F.blocks[b].instrs[i])
  BY <1>1 DEF WellFormed
<1>5. b \in Nat
  BY <1>1, FunctionFacts
<1> QED
  BY <1>3, <1>4, <1>5

----------------------------------------------------------------------------
(* The ranges of values *)

MapType(V) == \A v \in DOMAIN V : v.w \in Widths /\ V[v] \in RangeOf(v.w)

MapsType(vrms) ==
    /\ DOMAIN vrms = DOMAIN F.blocks
    /\ \A b \in DOMAIN vrms : MapType(vrms[b])

LEMMA FoundType ==
    ASSUME Sane, NEW x, NEW w \in Widths
    PROVE  Found(IntRanges, x, w) \in CRange
BY SimpleRanges, InCRange DEF Sane, IRType, Found

\* What the whole program says of a value is a range of its width.
LEMMA GlobalRangeType ==
    ASSUME Sane, NEW v \in Value, v.kind = "instr", IsOperand(F, v)
    PROVE  GlobalRange(v) \in RangeOf(v.w)
<1> DEFINE J == InstrAt(v)
<1>1. v.w \in Widths
  BY ValueFacts
<1>2. J \in Instr
  BY TheInstruction DEF IsOperand, InstrAt
<1> HIDE DEF J
<1>3. CASE J.op = "call"
  <2> DEFINE rs == [n \in DOMAIN J.callees |-> Found(IntRanges, RetId(J.callees[n]), v.w)]
  <2>1. Len(J.callees) \in Nat /\ DOMAIN J.callees = 1..Len(J.callees)
    BY <1>2, <1>3, InstrFacts, SeqFacts
  <2>2. Len(rs) = Len(J.callees)
    BY <2>1, LenOfNumbered
  <2>3. \A n \in 1..Len(rs) : rs[n] \in CRange
    BY <1>1, <2>1, <2>2, FoundType
  <2> HIDE DEF rs
  <2>4. UnionOf(v.w, rs) \in RangeOf(v.w)
    BY <1>1, <2>1, <2>2, <2>3, UnionOfType
  <2> QED
    BY <1>1, <1>3, <2>4, SimpleRanges DEF GlobalRange, J, rs
<1>4. CASE J.op # "call"
  <2>1. zextOrTrunc(Found(IntRanges, J.id, v.w), v.w) \in RangeOf(v.w)
    BY <1>1, FoundType, ZextOrTruncType
  <2> QED
    BY <1>1, <1>4, <2>1, SimpleRanges DEF GlobalRange, J
<1> QED
  BY <1>3, <1>4

LEMMA GetRangeType ==
    ASSUME Sane, NEW vrms, NEW b, MapType(vrms[b]), NEW v \in Value, IsOperand(F, v)
    PROVE  getRange(vrms, b, v) \in RangeOf(v.w) /\ v.w \in Widths
<1>1. v.w \in Widths
  BY ValueFacts DEF IsOperand
<1>2. CASE v.kind = "const"
  BY <1>1, <1>2, ValueFacts, SimpleRanges DEF getRange
<1>3. CASE v.kind # "const"
  <2>1. v.kind = "instr"
    BY <1>3 DEF IsOperand
  <2> QED
    BY <1>1, <1>3, <2>1, GlobalRangeType DEF getRange, MapType
<1> QED
  BY <1>1, <1>2, <1>3

\* Remembering what was asked for keeps the maps typed.
LEMMA AskType ==
    ASSUME Sane, NEW vrms, MapsType(vrms), NEW b \in DOMAIN F.blocks, NEW vals,
           \A v \in vals : v \in Value /\ (v.kind = "instr" => IsOperand(F, v))
    PROVE  MapsType(Ask(vrms, b, vals))
<1> DEFINE fresh == {v \in vals : /\ v.kind = "instr" /\ v \notin DOMAIN vrms[b]
                                  /\ GlobalRange(v).s # {}}
           V == [v \in DOMAIN vrms[b] \cup fresh |->
                   IF v \in fresh THEN GlobalRange(v) ELSE vrms[b][v]]
<1>1. \A v \in fresh : v.w \in Widths /\ GlobalRange(v) \in RangeOf(v.w)
  BY GlobalRangeType, ValueFacts
<1>2. MapType(vrms[b])
  BY DEF MapsType
<1> HIDE DEF fresh
<1>3. MapType(V)
  BY <1>1, <1>2 DEF MapType
<1>4. Ask(vrms, b, vals) = [vrms EXCEPT ![b] = V]
  BY DEF Ask, fresh
<1> HIDE DEF V
<1> QED
  BY <1>3, <1>4 DEF MapsType

LEMMA UnionMapsType ==
    ASSUME NEW V, MapType(V), NEW W, MapType(W)
    PROVE  MapType(UnionMaps(V, W))
<1> DEFINE U == UnionMaps(V, W)
<1>1. DOMAIN U = DOMAIN V \cup DOMAIN W
  BY DEF UnionMaps
<1>2. ASSUME NEW v \in DOMAIN U
      PROVE  v.w \in Widths /\ U[v] \in RangeOf(v.w)
  <2>1. CASE v \notin DOMAIN W
    BY <1>1, <2>1 DEF UnionMaps, MapType
  <2>2. CASE v \notin DOMAIN V
    BY <1>1, <2>2 DEF UnionMaps, MapType
  <2>3. CASE v \in DOMAIN V /\ v \in DOMAIN W
    <3>1. U[v] = safeUnion(V[v], W[v])
      BY <2>3 DEF UnionMaps
    <3>2. v.w \in Widths /\ V[v] \in RangeOf(v.w) /\ W[v] \in RangeOf(v.w)
      BY <2>3 DEF MapType
    <3>3. V[v] \in CRange /\ W[v] \in CRange /\ V[v].w = v.w
      BY <3>2, InCRange
    <3> QED
      BY <3>1, <3>2, <3>3, SafeUnionFacts
  <2> QED
    BY <2>1, <2>2, <2>3
<1> QED
  BY <1>2 DEF MapType

LEMMA InsertAbsentType ==
    ASSUME NEW V, MapType(V), NEW v, v.w \in Widths, NEW r \in RangeOf(v.w)
    PROVE  MapType(InsertAbsent(V, v, r))
BY DEF InsertAbsent, MapType

\* The map refined for an edge.
LEMMA VisitTerminatorType ==
    ASSUME Sane, NEW vrms, MapsType(vrms), NEW p \in DOMAIN F.blocks, NEW b,
           NEW V, MapType(V)
    PROVE  MapType(visitTerminator(vrms, p, F.blocks[p].term, b, V))
<1> DEFINE T == F.blocks[p].term
<1>1. F \in Function /\ WellFormed(F)
  BY TheFunction
<1>2. T \in Terminator
  BY <1>1, FunctionFacts
<1>3. /\ T.op = "br" => /\ T.cb \in DOMAIN F.blocks
                        /\ IsOperand(F, T.l) /\ IsOperand(F, T.r) /\ T.l.w = T.r.w
      /\ T.op = "switch" => IsOperand(F, T.val)
  BY <1>1 DEF WellFormed
<1> HIDE DEF T
<1>4. CASE T.op = "br"
  <2> DEFINE L == getRange(vrms, T.cb, T.l)
  <2>1. L \in RangeOf(T.l.w) /\ T.l.w \in Widths /\ T.r.w = T.l.w
    BY <1>2, <1>3, <1>4, TerminatorFacts, GetRangeType DEF MapsType
  <2>2. ASSUME NEW A PROVE intersectWith(L, A) \in RangeOf(T.l.w)
    <3>1. L.w = T.l.w /\ L.s \cap A.s \in SUBSET Ring(T.l.w)
      BY <2>1, InCRange
    <3> QED
      BY <2>1, <3>1, HullFacts DEF intersectWith
  <2> HIDE DEF L
  <2>3. PICK A, B : visitBranchInst(vrms, T, b, V) =
          InsertAbsent(InsertAbsent(V, T.l, intersectWith(L, A)), T.r, intersectWith(L, B))
    BY DEF visitBranchInst, L
  <2>4. MapType(InsertAbsent(V, T.l, intersectWith(L, A)))
    BY <2>1, <2>2, InsertAbsentType
  <2>5. MapType(visitBranchInst(vrms, T, b, V))
    BY <2>1, <2>2, <2>3, <2>4, InsertAbsentType
  <2> QED
    BY <1>4, <2>5 DEF visitTerminator, T
<1>5. CASE T.op = "switch"
  <2> DEFINE L == getRange(vrms, p, T.val)
  <2>1. L \in RangeOf(T.val.w) /\ T.val.w \in Widths
    BY <1>2, <1>3, <1>5, TerminatorFacts, GetRangeType DEF MapsType
  <2>2. ASSUME NEW A PROVE intersectWith(L, A) \in RangeOf(T.val.w)
    <3>1. L.w = T.val.w /\ L.s \cap A.s \in SUBSET Ring(T.val.w)
      BY <2>1, InCRange
    <3> QED
      BY <2>1, <3>1, HullFacts DEF intersectWith
  <2> HIDE DEF L
  <2>3. PICK A : visitSwitchInst(vrms, p, T, b, V) = InsertAbsent(V, T.val, intersectWith(L, A))
    BY DEF visitSwitchInst, L
  <2>4. MapType(visitSwitchInst(vrms, p, T, b, V))
    BY <2>1, <2>2, <2>3, InsertAbsentType
  <2> QED
    BY <1>5, <2>4 DEF visitTerminator, T
<1>6. CASE T.op = "other"
  BY <1>6 DEF visitTerminator, T
<1> QED
  BY <1>2, <1>4, <1>5, <1>6, TerminatorFacts

----------------------------------------------------------------------------
(* Instructions *)

\* The pass is at an instruction.
AtInstr ==
    /\ Sane /\ MapsType(FuncVRMs)
    /\ bi \in DOMAIN F.blocks /\ ii \in DOMAIN BB.instrs

This == [kind |-> "instr", b |-> bi, i |-> ii, w |-> I.w]

LEMMA CurrentFacts ==
    AtInstr => /\ I \in Instr /\ WellTyped(F, I)
               /\ bi \in Nat /\ ii \in Nat
BY TheInstruction DEF AtInstr, I, BB

LEMMA ThisFacts ==
    ASSUME AtInstr, I.w # 0
    PROVE  This \in Value /\ IsOperand(F, This) /\ I.w \in Widths
<1>1. I.w \in Widths /\ bi \in Nat /\ ii \in Nat
  BY CurrentFacts, InstrFacts
<1>2. This \in [kind: {"instr"}, b: Nat, i: Nat, w: Widths]
  BY <1>1 DEF This
<1>3. IsOperand(F, This)
  BY DEF AtInstr, IsOperand, This, I, BB
<1> QED
  BY <1>1, <1>2, <1>3 DEF Value

\* The range of an operand, in the block of the instruction.
LEMMA OperandRange ==
    ASSUME AtInstr, NEW v \in Value, IsOperand(F, v)
    PROVE  /\ getRange(FuncVRMs, bi, v) \in RangeOf(v.w)
           /\ getRange(FuncVRMs, bi, v) \in CRange
           /\ getRange(FuncVRMs, bi, v).w = v.w
           /\ v.w \in Widths
BY GetRangeType, InCRange DEF AtInstr, MapsType

LEMMA ResultType ==
    ASSUME AtInstr, I.w # 0
    PROVE  Result(FuncVRMs, I) \in RangeOf(I.w)
<1> DEFINE get(v) == getRange(FuncVRMs, bi, v)
           R == Result(FuncVRMs, I)
<1>1. I \in Instr /\ WellTyped(F, I) /\ I.w \in Widths
  BY CurrentFacts, ThisFacts
<1>2. CASE I.op \in {"add", "sub", "sdiv", "urem", "srem", "ashr", "xor"}
  <2>1. /\ I.l \in Value /\ IsOperand(F, I.l) /\ I.l.w = I.w
        /\ I.r \in Value /\ IsOperand(F, I.r) /\ I.r.w = I.w
    BY <1>1, <1>2, InstrFacts DEF WellTyped
  <2>2. /\ get(I.l) \in RangeOf(I.w) /\ get(I.l) \in CRange /\ get(I.l).w = I.w
        /\ get(I.r) \in CRange
    BY <2>1, OperandRange
  <2>3. match(get(I.r), get(I.l)) \in RangeOf(I.w)
    BY <2>2, MatchType
  <2>4. match(get(I.r), get(I.l)) \in CRange
    BY <1>1, <2>3, InCRange
  <2> HIDE DEF get
  <2>5. /\ add(get(I.l), match(get(I.r), get(I.l))) \in RangeOf(I.w)
        /\ sub(get(I.l), match(get(I.r), get(I.l))) \in RangeOf(I.w)
        /\ sdiv(get(I.l), match(get(I.r), get(I.l))) \in RangeOf(I.w)
    BY <1>1, <2>2, <2>4, OperationTypes
  <2> QED
    BY <1>2, <2>2, <2>3, <2>5 DEF Result, get
<1>3. CASE I.op \in {"trunc", "zext"}
  <2>1. I.val \in Value /\ IsOperand(F, I.val)
    BY <1>1, <1>3, InstrFacts DEF WellTyped
  <2>2. zextOrTrunc(get(I.val), I.w) \in RangeOf(I.w)
    BY <1>1, <2>1, OperandRange, ZextOrTruncType
  <2> QED
    BY <1>3, <2>2 DEF Result
<1>4. CASE I.op = "sext"
  <2>1. I.val \in Value /\ IsOperand(F, I.val) /\ I.val.w <= I.w
    BY <1>1, <1>4, InstrFacts DEF WellTyped
  <2>2. get(I.val) \in CRange /\ get(I.val).w <= I.w
    BY <2>1, OperandRange
  <2>3. signExtend(get(I.val), I.w) \in RangeOf(I.w)
    BY <1>1, <2>2, SignExtendType
  <2> QED
    BY <1>4, <2>3 DEF Result
<1>5. CASE I.op = "select"
  <2>1. /\ I.t \in Value /\ IsOperand(F, I.t) /\ I.t.w = I.w
        /\ I.f \in Value /\ IsOperand(F, I.f)
    BY <1>1, <1>5, InstrFacts DEF WellTyped
  <2>2. get(I.t) \in CRange /\ get(I.t).w = I.w /\ get(I.f) \in CRange
    BY <2>1, OperandRange
  <2>3. safeUnion(get(I.t), get(I.f)) \in RangeOf(I.w)
    BY <2>2, SafeUnionFacts
  <2> QED
    BY <1>5, <2>3 DEF Result
<1>6. CASE I.op = "phi"
  <2> DEFINE rs == [n \in DOMAIN I.in |->
                      IF n \in Incoming(I) THEN getRange(FuncVRMs, I.in[n].pred, I.in[n].val)
                      ELSE EmptyRange(I.w)]
  <2>1. /\ Len(I.in) \in Nat /\ DOMAIN I.in = 1..Len(I.in)
        /\ \A n \in 1..Len(I.in) : I.in[n].val \in Value
    <3>1. I.in \in Seq([pred: Nat, val: Value])
      BY <1>1, <1>6, InstrFacts
    <3>2. /\ Len(I.in) \in Nat /\ DOMAIN I.in = 1..Len(I.in)
          /\ \A n \in 1..Len(I.in) : I.in[n] \in [pred: Nat, val: Value]
      BY <3>1, SeqFacts
    <3> QED
      BY <3>2
  <2>2. Len(rs) = Len(I.in)
    BY <2>1, LenOfNumbered
  <2>3. ASSUME NEW n \in 1..Len(rs)
        PROVE  rs[n] \in CRange
    <3>1. n \in DOMAIN I.in /\ I.in[n].val \in Value
      BY <2>1, <2>2
    <3>2. I.in[n].pred \in DOMAIN F.blocks /\ IsOperand(F, I.in[n].val)
      BY <1>1, <1>6, <3>1 DEF WellTyped
    <3>3. MapType(FuncVRMs[I.in[n].pred])
      BY <3>2 DEF AtInstr, MapsType
    <3>4. getRange(FuncVRMs, I.in[n].pred, I.in[n].val) \in CRange
      BY <3>1, <3>2, <3>3, GetRangeType, InCRange DEF AtInstr
    <3>5. EmptyRange(I.w) \in CRange
      BY <1>1, SimpleRanges, InCRange
    <3> QED
      BY <3>1, <3>4, <3>5
  <2> HIDE DEF rs
  <2>4. UnionOf(I.w, rs) \in RangeOf(I.w)
    BY <1>1, <2>1, <2>2, <2>3, UnionOfType
  <2> QED
    BY <1>6, <2>4 DEF Result, rs
<1>7. CASE I.op \in {"load", "call"}
  <2>1. get(This) \in RangeOf(I.w)
    BY ThisFacts, OperandRange DEF This
  <2> QED
    BY <1>7, <2>1 DEF Result, This
<1>8. CASE I.op \in {"store", "return", "other"}
  BY <1>1, <1>8, SimpleRanges DEF Result
<1> QED
  BY <1>1, <1>2, <1>3, <1>4, <1>5, <1>6, <1>7, <1>8, InstrFacts

\* A call with k arguments hands them to each of its callees.
LEMMA PairIndex ==
    ASSUME NEW k \in Nat \ {0}, NEW l \in Nat, NEW n \in 1..(k * l)
    PROVE  /\ ((n - 1) \div k) + 1 \in 1..l
           /\ ((n - 1) % k) + 1 \in 1..k
           /\ (n - 1) % k \in Nat
<1> DEFINE q == (n - 1) \div k
<1>1. q \in Int /\ q >= 0 /\ k * q <= n - 1
  OBVIOUS
<1> HIDE DEF q
<1>2. ASSUME q >= l PROVE FALSE
  <2>1. q - l \in Nat /\ k * (q - l) >= 0 /\ k * (q - l) = k * q - k * l
    BY <1>1, <1>2
  <2>2. k * q \in Int /\ k * l \in Int
    BY <1>1
  <2> QED
    BY <1>1, <2>1, <2>2
<1>3. q + 1 \in 1..l
  BY <1>1, <1>2
<1>4. (n - 1) % k \in 0..(k - 1)
  OBVIOUS
<1> QED
  BY <1>3, <1>4 DEF q

LEMMA CallUpdatesType ==
    ASSUME AtInstr, I.op = "call"
    PROVE  /\ Len(CallUpdates(FuncVRMs, I)) \in Nat
           /\ \A n \in 1..Len(CallUpdates(FuncVRMs, I)) : IsUpdate(CallUpdates(FuncVRMs, I)[n])
<1> DEFINE k == Len(I.args)
           l == Len(I.callees)
           entered(n) == I.callees[((n - 1) \div k) + 1]
           arg(n) == I.args[((n - 1) % k) + 1]
           A == [n \in 1..(k * l) |->
                   [id |-> ArgId(entered(n), (n - 1) % k),
                    r |-> IF entered(n) \in Opaque \/ ~IsInt(arg(n)) THEN EmptyRange(0)
                          ELSE getRange(FuncVRMs, bi, arg(n))]]
           own == [id |-> I.retId, r |-> getRange(FuncVRMs, bi, This)]
           B == IF I.w = 0 THEN <<>> ELSE <<own>>
<1>1. I \in Instr /\ WellTyped(F, I)
  BY CurrentFacts
<1>2. /\ I.retId \in Id
      /\ k \in Nat /\ DOMAIN I.args = 1..k /\ \A n \in 1..k : I.args[n] \in Value
      /\ l \in Nat /\ DOMAIN I.callees = 1..l /\ \A n \in 1..l : I.callees[n] \in Fns
  BY <1>1, InstrFacts, SeqFacts
<1>3. ASSUME NEW n \in 1..(k * l)
      PROVE  IsUpdate(A[n])
  <2>1. k # 0
    <3> HIDE DEF k, l
    <3>1. k = 0 => k * l = 0
      BY <1>2
    <3> QED
      BY <3>1
  <2>2. /\ ((n - 1) \div k) + 1 \in 1..l
        /\ ((n - 1) % k) + 1 \in 1..k
        /\ (n - 1) % k \in Nat
    <3> HIDE DEF k, l
    <3> QED
      BY <1>2, <2>1, PairIndex
  <2>3. entered(n) \in GlobalValue /\ arg(n) \in Value
    BY <1>2, <2>2, RangeAssumption
  <2>4. A[n].id \in Id
    BY <2>2, <2>3, ArgIdType
  <2>5. CASE entered(n) \in Opaque \/ ~IsInt(arg(n))
    BY <2>5 DEF IsUpdate, EmptyRange
  <2>6. CASE ~(entered(n) \in Opaque \/ ~IsInt(arg(n)))
    <3>1. arg(n).w > 0
      BY <2>6 DEF IsInt
    <3>2. IsOperand(F, arg(n))
      BY <1>1, <1>2, <2>2, <3>1 DEF WellTyped
    <3>3. getRange(FuncVRMs, bi, arg(n)) \in CRange
      BY <2>3, <3>2, OperandRange
    <3>4. A[n].r = getRange(FuncVRMs, bi, arg(n))
      BY <2>6
    <3> QED
      BY <2>4, <3>3, <3>4 DEF IsUpdate
  <2> QED
    BY <2>5, <2>6
<1>4. I.w # 0 => IsUpdate(own)
  BY <1>2, ThisFacts, OperandRange DEF IsUpdate
<1>5. CallUpdates(FuncVRMs, I) = A \o B
  BY DEF CallUpdates, This
<1>6. k * l \in Nat
  <2> HIDE DEF k, l
  <2> QED
    BY <1>2
<1> DEFINE S == {u \in {A[n] : n \in 1..(k * l)} \cup {own} : IsUpdate(u)}
<1> HIDE DEF k, l, own
<1>7. A \in Seq(S)
  <2>1. \A n \in 1..(k * l) : A[n] \in S
    BY <1>3
  <2>2. A = [n \in 1..(k * l) |-> A[n]]
    OBVIOUS
  <2> HIDE DEF A, S
  <2>3. A \in [1..(k * l) -> S]
    BY <2>1, <2>2
  <2> QED
    BY <1>6, <2>3
<1>8. B \in Seq(S)
  <2>1. I.w # 0 => own \in S
    BY <1>4
  <2> HIDE DEF S
  <2> QED
    BY <2>1
<1>9. \A u \in S : IsUpdate(u)
  OBVIOUS
<1> HIDE DEF A, B, S
<1>10. A \o B \in Seq(S)
  BY <1>7, <1>8
<1> QED
  BY <1>5, <1>9, <1>10, SeqFacts

LEMMA UpdatesType ==
    ASSUME AtInstr
    PROVE  /\ Len(Updates(FuncVRMs, I)) \in Nat
           /\ \A n \in 1..Len(Updates(FuncVRMs, I)) : IsUpdate(Updates(FuncVRMs, I)[n])
<1>1. I \in Instr /\ WellTyped(F, I)
  BY CurrentFacts
<1>2. F.fn \in GlobalValue
  BY TheFunction, FunctionFacts, RangeAssumption DEF AtInstr
<1>3. ASSUME NEW u, IsUpdate(u), Updates(FuncVRMs, I) = <<u>>
      PROVE  /\ Len(Updates(FuncVRMs, I)) \in Nat
             /\ \A n \in 1..Len(Updates(FuncVRMs, I)) : IsUpdate(Updates(FuncVRMs, I)[n])
  BY <1>3
<1>4. CASE I.op = "store" /\ IsInt(I.val) /\ I.id # NoId
  <2>1. I.id \in Id /\ I.val \in Value /\ IsOperand(F, I.val)
    BY <1>1, <1>4, InstrFacts DEF WellTyped, IsInt
  <2> DEFINE u == [id |-> I.id, r |-> getRange(FuncVRMs, bi, I.val)]
  <2>2. IsUpdate(u)
    BY <2>1, OperandRange DEF IsUpdate
  <2>3. Updates(FuncVRMs, I) = <<u>>
    BY <1>4 DEF Updates
  <2> QED
    BY <1>3, <2>2, <2>3
<1>5. CASE I.op = "return" /\ IsInt(I.val)
  <2>1. I.val \in Value /\ IsOperand(F, I.val)
    BY <1>1, <1>5, InstrFacts DEF WellTyped, IsInt
  <2> DEFINE u == [id |-> RetId(F.fn), r |-> getRange(FuncVRMs, bi, I.val)]
  <2>2. IsUpdate(u)
    BY <1>2, <2>1, OperandRange, RetIdType DEF IsUpdate
  <2>3. Updates(FuncVRMs, I) = <<u>>
    BY <1>5 DEF Updates
  <2> QED
    BY <1>3, <2>2, <2>3
<1>6. CASE I.op = "call" /\ ~I.asm /\ I.callees # <<>>
  BY <1>6, CallUpdatesType DEF Updates
<1>7. CASE /\ ~(I.op = "store" /\ IsInt(I.val) /\ I.id # NoId)
           /\ ~(I.op = "return" /\ IsInt(I.val))
           /\ ~(I.op = "call" /\ ~I.asm /\ I.callees # <<>>)
  <2>1. Updates(FuncVRMs, I) = <<>>
    BY <1>7 DEF Updates
  <2> QED
    BY <2>1
<1> QED
  BY <1>4, <1>5, <1>6, <1>7

\* What getRange is asked for are values of the function.
LEMMA OperandsType ==
    ASSUME AtInstr, I.op # "phi", NEW v \in Operands(I)
    PROVE  v \in Value /\ (v.kind = "instr" => IsOperand(F, v))
<1>1. I \in Instr /\ WellTyped(F, I)
  BY CurrentFacts
<1>2. CASE I.op \in {"store", "return", "trunc", "zext", "sext"}
  <2>1. v = I.val /\ v \in Value
    BY <1>1, <1>2, InstrFacts DEF Operands
  <2>2. v.kind = "instr" => v.w > 0
    BY <2>1, ValueFacts
  <2> QED
    BY <1>1, <1>2, <2>1, <2>2 DEF WellTyped
<1>3. CASE I.op \in {"add", "sub", "sdiv", "urem", "srem", "ashr", "xor"}
  <2>1. v \in {I.l, I.r} /\ v \in Value
    BY <1>1, <1>3, InstrFacts DEF Operands
  <2> QED
    BY <1>1, <1>3, <2>1 DEF WellTyped
<1>4. CASE I.op = "select"
  <2>1. v \in {I.t, I.f} /\ v \in Value
    BY <1>1, <1>4, InstrFacts DEF Operands
  <2> QED
    BY <1>1, <1>4, <2>1 DEF WellTyped
<1>5. CASE I.op = "call"
  <2>1. v \in {I.args[n] : n \in DOMAIN I.args} /\ v.w > 0
    BY <1>5 DEF Operands, IsInt
  <2>2. PICK n \in DOMAIN I.args : v = I.args[n]
    BY <2>1
  <2>3. v \in Value
    BY <1>1, <1>5, <2>2, InstrFacts, SeqFacts
  <2> QED
    BY <1>1, <1>5, <2>1, <2>2, <2>3 DEF WellTyped
<1>6. CASE I.op \in {"load", "other"}
  BY <1>6 DEF Operands
<1> QED
  BY <1>1, <1>2, <1>3, <1>4, <1>5, <1>6, InstrFacts

LEMMA AskAllType ==
    ASSUME AtInstr
    PROVE  MapsType(AskAll(FuncVRMs, I))
<1> DEFINE merged(b) == {I.in[n].val : n \in {m \in Incoming(I) : I.in[m].pred = b}}
           vals(b) == IF I.op = "phi" THEN merged(b)
                      ELSE IF b = bi THEN Operands(I) ELSE {}
<1>1. I \in Instr /\ WellTyped(F, I)
  BY CurrentFacts
<1>2. ASSUME NEW b \in DOMAIN F.blocks, NEW v \in vals(b)
      PROVE  v \in Value /\ (v.kind = "instr" => IsOperand(F, v))
  <2>1. CASE I.op = "phi"
    <3>1. PICK n \in DOMAIN I.in : v = I.in[n].val
      BY <2>1 DEF Incoming
    <3>2. I.in \in Seq([pred: Nat, val: Value])
      BY <1>1, <2>1, InstrFacts
    <3>3. I.in[n] \in [pred: Nat, val: Value]
      BY <3>2, SeqFacts
    <3> QED
      BY <1>1, <2>1, <3>1, <3>3 DEF WellTyped
  <2>2. CASE I.op # "phi"
    BY <2>2, OperandsType
  <2> QED
    BY <2>1, <2>2
<1>3. Sane /\ MapsType(FuncVRMs)
  BY DEF AtInstr
<1>4. AskAll(FuncVRMs, I) = [b \in DOMAIN FuncVRMs |-> Ask(FuncVRMs, b, vals(b))[b]]
  BY DEF AskAll
<1> HIDE DEF vals
<1>5. ASSUME NEW b \in DOMAIN F.blocks
      PROVE  MapType(Ask(FuncVRMs, b, vals(b))[b])
  BY <1>2, <1>3, AskType DEF MapsType
<1>6. DOMAIN FuncVRMs = DOMAIN F.blocks
  BY <1>3 DEF MapsType
<1> QED
  BY <1>4, <1>5, <1>6 DEF MapsType

----------------------------------------------------------------------------
(* The inductive invariant *)

\* Where the pass is: inside a function it has a map for each of its blocks.
Position ==
    /\ fi \in Nat \ {0} /\ bi \in Nat /\ pi \in Nat \ {0} /\ ii \in Nat \ {0}
    /\ bi > 0 => /\ InModulePass /\ fi <= Len(Functions)
                 /\ DOMAIN FuncVRMs = DOMAIN F.blocks

\* What is in the maps has the width of what it is the range of.
Maps ==
    /\ IRType(IntRanges)
    /\ Changes \subseteq DOMAIN IntRanges
    /\ \A b \in DOMAIN FuncVRMs : MapType(FuncVRMs[b])
    /\ \A s \in DOMAIN Meta : Meta[s] \in CRange

\* The identifiers this sweep cannot change any more.
GivenUp(IR, ch) == {x \in DOMAIN IR \ ch : IR[x].s = Ring(IR[x].w)}

\* Each sweep after MaxIterations has given one up.
Sweeps ==
    /\ itr \in Nat \ {0} /\ Changed \in BOOLEAN /\ ret \in BOOLEAN
    /\ Changed <=> Changes # {}
    /\ itr <= MaxIterations + Cardinality(GivenUp(IntRanges, Changes))

Inv ==
    /\ DriverTypeOK
    /\ prog \in Programs
    /\ Position
    /\ Maps
    /\ Sweeps

LEMMA GivenUpFinite ==
    ASSUME NEW IR, IRType(IR), NEW ch
    PROVE  /\ IsFiniteSet(GivenUp(IR, ch))
           /\ Cardinality(GivenUp(IR, ch)) \in Nat
           /\ Cardinality(GivenUp(IR, ch)) <= Cardinality(DOMAIN IR)
<1>1. GivenUp(IR, ch) \in SUBSET (DOMAIN IR) /\ IsFiniteSet(DOMAIN IR)
  BY DEF GivenUp, IRType
<1>2. /\ IsFiniteSet(GivenUp(IR, ch))
      /\ Cardinality(GivenUp(IR, ch)) <= Cardinality(DOMAIN IR)
  BY <1>1, FS_Subset
<1> QED
  BY <1>2, FS_CardinalityType

\* What is given up stays so while ranges grow and only what changes is noted.
LEMMA GivenUpStays ==
    ASSUME NEW IR, IRType(IR), NEW IR2, IRType(IR2), Grown(IR, IR2),
           NEW ch, NEW ch2, \A x \in ch2 : x \in ch \/ x \notin DOMAIN IR \/ IR2[x] # IR[x]
    PROVE  /\ GivenUp(IR, ch) \subseteq GivenUp(IR2, ch2)
           /\ Cardinality(GivenUp(IR, ch)) <= Cardinality(GivenUp(IR2, ch2))
<1>1. ASSUME NEW x \in GivenUp(IR, ch)
      PROVE  x \in GivenUp(IR2, ch2)
  <2>1. x \in DOMAIN IR /\ x \notin ch /\ IR[x].s = Ring(IR[x].w) /\ x \in DOMAIN IR2
    BY DEF GivenUp, Grown
  <2>2. IR[x] \in CRange /\ IR2[x] \in CRange
    BY <2>1 DEF IRType
  <2>3. IR2[x].w = IR[x].w /\ IR[x].s \subseteq IR2[x].s
    BY <2>1 DEF Grown
  <2>4. IR2[x].s = IR[x].s
    BY <2>1, <2>2, <2>3, CRangeWidth
  <2>5. IR2[x] = IR[x]
    <3>1. IR[x] \in RangeOf(IR[x].w) /\ IR2[x] \in RangeOf(IR[x].w)
      BY <2>2, <2>3, CRangeWidth
    <3> QED
      BY <2>4, <3>1 DEF RangeOf
  <2>6. x \notin ch2
    BY <2>1, <2>5
  <2> QED
    BY <2>1, <2>3, <2>4, <2>6 DEF GivenUp
<1>2. GivenUp(IR, ch) \in SUBSET GivenUp(IR2, ch2)
  BY <1>1
<1>3. IsFiniteSet(GivenUp(IR2, ch2))
  BY GivenUpFinite
<1> QED
  BY <1>2, <1>3, FS_Subset

\* Giving up the identifiers that have changed makes ranges grow.
LEMMA WidenFacts ==
    ASSUME IRType(IntRanges)
    PROVE  /\ IRType(Widen(IntRanges))
           /\ DOMAIN Widen(IntRanges) = DOMAIN IntRanges
           /\ Grown(IntRanges, Widen(IntRanges))
           /\ \A x \in DOMAIN IntRanges \cap Changes :
                Widen(IntRanges)[x].s = Ring(Widen(IntRanges)[x].w)
<1> DEFINE W == Widen(IntRanges)
<1>1. /\ DOMAIN W = DOMAIN IntRanges
      /\ \A x \in DOMAIN IntRanges : W[x] = IF x \in Changes THEN FullRange(IntRanges[x].w)
                                            ELSE IntRanges[x]
      /\ W = [x \in DOMAIN W |-> W[x]]
  BY DEF Widen
<1> HIDE DEF W
<1>2. ASSUME NEW x \in DOMAIN IntRanges
      PROVE  /\ W[x] \in CRange /\ W[x].s # {}
             /\ W[x].w = IntRanges[x].w /\ IntRanges[x].s \subseteq W[x].s
             /\ x \in Changes => W[x].s = Ring(W[x].w)
  <2> DEFINE r == IntRanges[x]
  <2>1. r \in CRange /\ r.s # {}
    BY DEF IRType
  <2>2. r.w \in Widths /\ r.s \subseteq Ring(r.w)
    BY <2>1, CRangeWidth
  <2>3. /\ FullRange(r.w) \in CRange /\ FullRange(r.w).s = Ring(r.w) /\ FullRange(r.w).w = r.w
    BY <2>2, SimpleRanges, InCRange
  <2> QED
    BY <1>1, <2>1, <2>2, <2>3
<1>3. IRType(W) /\ Grown(IntRanges, W)
  BY <1>1, <1>2 DEF IRType, Grown
<1> QED
  BY <1>1, <1>2, <1>3 DEF W

LEMMA InitInv == Init => Inv
<1> SUFFICES ASSUME Init PROVE Inv
  OBVIOUS
<1>1. DriverTypeOK
  BY DriverInitType DEF Init
<1>2. /\ prog \in Programs /\ IntRanges = Empty /\ Changes = {} /\ Meta = Empty
      /\ FuncVRMs = Empty /\ fi = 1 /\ bi = 0 /\ pi = 1 /\ ii = 1
      /\ Changed = FALSE /\ ret = FALSE /\ itr = 1
  BY DEF Init
<1>3. DOMAIN Empty = {}
  BY DEF Empty
<1>4. IRType(IntRanges)
  BY <1>2, <1>3, FS_EmptySet DEF IRType
<1>5. Position
  BY <1>2 DEF Position
<1>6. Maps
  BY <1>2, <1>3, <1>4 DEF Maps
<1>7. Sweeps
  <2>1. Cardinality(GivenUp(IntRanges, Changes)) \in Nat
    BY <1>4, GivenUpFinite
  <2>2. Changed <=> Changes # {}
    BY <1>2
  <2>3. itr <= MaxIterations + Cardinality(GivenUp(IntRanges, Changes))
    BY <1>2, <2>1, RangeAssumption
  <2>4. itr \in Nat \ {0}
    BY <1>2
  <2>5. Changed \in BOOLEAN /\ ret \in BOOLEAN
    BY <1>2
  <2> QED
    BY <2>2, <2>3, <2>4, <2>5 DEF Sweeps
<1> QED
  BY <1>1, <1>2, <1>5, <1>6, <1>7 DEF Inv

\* Inside a function the hypotheses of the lemmas above hold.
LEMMA InFunctionFacts ==
    ASSUME Inv, InFunction
    PROVE  Sane /\ MapsType(FuncVRMs)
<1>1. mod \in ModuleNo /\ fi \in Nat \ {0} /\ fi <= Len(Functions)
  BY DEF Inv, InFunction, InModulePass, DriverTypeOK, Position, ModuleNo
<1>2. Len(Functions) \in Nat
  BY <1>1, ProgramFacts, SeqFacts DEF Inv
<1>3. Sane
  BY <1>1, <1>2 DEF Sane, Inv, Maps
<1>4. MapsType(FuncVRMs)
  BY DEF MapsType, Inv, Position, Maps, InFunction
<1> QED
  BY <1>3, <1>4

LEMMA VisitFacts ==
    ASSUME Inv, VisitInstruction
    PROVE  AtInstr
<1>1. InFunction /\ bi <= Len(F.blocks) /\ ii <= Len(BB.instrs)
  BY DEF VisitInstruction, Merged, InBlock
<1>2. Sane /\ MapsType(FuncVRMs)
  BY <1>1, InFunctionFacts
<1>3. F \in Function
  BY <1>2, TheFunction
<1>4. bi \in DOMAIN F.blocks
  BY <1>1, <1>3, FunctionFacts DEF Inv, Position, InFunction
<1>5. BB.instrs \in Seq(Instr)
  BY <1>3, <1>4, FunctionFacts DEF BB
<1>6. ii \in DOMAIN BB.instrs
  BY <1>1, <1>5, SeqFacts DEF Inv, Position
<1> QED
  BY <1>2, <1>4, <1>6 DEF AtInstr

----------------------------------------------------------------------------
(* Every step keeps the invariant and makes ranges grow *)

LEMMA VisitInstructionInv ==
    ASSUME Inv, VisitInstruction
    PROVE  Inv' /\ Grown(IntRanges, IntRanges')
<1> DEFINE ups == Updates(FuncVRMs, I)
           after == UnionAll(IntRanges, ups)
           grown == {x \in DOMAIN after : x \notin DOMAIN IntRanges \/ after[x] # IntRanges[x]}
           asked == AskAll(FuncVRMs, I)
           R == Result(FuncVRMs, I)
           own == [v \in {This} |-> R]
<1>1. AtInstr
  BY VisitFacts
<1>2. Len(ups) \in Nat /\ \A n \in 1..Len(ups) : IsUpdate(ups[n])
  BY <1>1, UpdatesType
<1>3. IRType(after) /\ Grown(IntRanges, after)
  BY <1>2, UnionAllFacts DEF Inv, Maps
<1>4. MapsType(asked)
  BY <1>1, AskAllType
<1>5. I.w # 0 => MapType(own)
  BY <1>1, ResultType, ThisFacts DEF This, MapType
<1>6. /\ IntRanges' = after
      /\ Changes' = Changes \cup grown
      /\ Changed' = (Changed \/ grown # {})
      /\ FuncVRMs' = IF I.w = 0 \/ R.s = {} THEN asked
                     ELSE [asked EXCEPT ![bi] = UnionMaps(@, own)]
      /\ ii' = ii + 1
      /\ UNCHANGED <<phase, mod, changed, prog, fi, bi, pi, ret, itr, Meta>>
  BY DEF VisitInstruction, This, driverVars
<1>7. MapsType(FuncVRMs')
  <2>1. CASE I.w = 0 \/ R.s = {}
    BY <1>4, <1>6, <2>1
  <2>2. CASE ~(I.w = 0 \/ R.s = {})
    <3>1. bi \in DOMAIN asked /\ MapType(asked[bi])
      BY <1>1, <1>4 DEF AtInstr, MapsType
    <3>2. MapType(UnionMaps(asked[bi], own))
      BY <1>5, <2>2, <3>1, UnionMapsType
    <3> HIDE DEF asked, own, R
    <3> QED
      BY <1>4, <1>6, <2>2, <3>2 DEF MapsType
  <2> QED
    BY <2>1, <2>2
<1> HIDE DEF ups, after, asked, R, own
<1>8. DriverTypeOK' /\ prog' \in Programs
  BY <1>6 DEF Inv, DriverTypeOK
<1>9. Position'
  BY <1>6, <1>7 DEF Inv, Position, MapsType, InModulePass, Functions, F
<1>10. Maps'
  BY <1>3, <1>6, <1>7 DEF Inv, Maps, MapsType, Grown
<1>11. Sweeps'
  <2>1. Changed' \in BOOLEAN /\ (Changed' <=> Changes' # {})
    BY <1>6 DEF Inv, Sweeps
  <2>2. \A x \in Changes' : x \in Changes \/ x \notin DOMAIN IntRanges \/ after[x] # IntRanges[x]
    BY <1>6
  <2>3. Cardinality(GivenUp(IntRanges, Changes)) <= Cardinality(GivenUp(after, Changes'))
    BY <1>3, <2>2, GivenUpStays DEF Inv, Maps
  <2>4. /\ Cardinality(GivenUp(IntRanges, Changes)) \in Nat
        /\ Cardinality(GivenUp(after, Changes')) \in Nat
    BY <1>3, GivenUpFinite DEF Inv, Maps
  <2>5. itr' <= MaxIterations + Cardinality(GivenUp(IntRanges', Changes'))
    BY <1>6, <2>3, <2>4, RangeAssumption DEF Inv, Sweeps
  <2> QED
    BY <1>6, <2>1, <2>5 DEF Inv, Sweeps
<1> QED
  BY <1>3, <1>6, <1>8, <1>9, <1>10, <1>11 DEF Inv

LEMMA MergePredecessorInv ==
    ASSUME Inv, MergePredecessor
    PROVE  Inv' /\ UNCHANGED IntRanges
<1> DEFINE p == BB.preds[pi]
           T == F.blocks[p].term
           c == IF T.op = "br" THEN T.cb ELSE p
           asked == Ask(FuncVRMs, c, Asked(T))
           refined == visitTerminator(asked, p, T, bi, FuncVRMs[p])
<1>1. Sane /\ MapsType(FuncVRMs) /\ F \in Function /\ WellFormed(F)
  BY InFunctionFacts, TheFunction DEF MergePredecessor, InBlock
<1>2. bi \in DOMAIN F.blocks
  BY <1>1, FunctionFacts DEF MergePredecessor, InBlock, InFunction, Inv, Position
<1>3. p \in DOMAIN F.blocks
  <2>1. BB.preds \in Seq(Nat) /\ pi <= Len(BB.preds)
    BY <1>1, <1>2, FunctionFacts DEF BB, MergePredecessor
  <2>2. pi \in DOMAIN BB.preds
    BY <2>1, SeqFacts DEF Inv, Position
  <2> QED
    BY <1>1, <1>2, <2>2 DEF WellFormed, BB
<1>4. T \in Terminator
  BY <1>1, <1>3, FunctionFacts
<1>5. /\ T.op = "br" => /\ T.cb \in DOMAIN F.blocks
                        /\ IsOperand(F, T.l) /\ IsOperand(F, T.r)
      /\ T.op = "switch" => IsOperand(F, T.val)
  BY <1>1, <1>3 DEF WellFormed
<1>6. /\ FuncVRMs' = IF <<p, bi>> \in F.back THEN FuncVRMs
                     ELSE [asked EXCEPT ![bi] = UnionMaps(@, refined)]
      /\ pi' = pi + 1
      /\ UNCHANGED <<phase, mod, changed, prog, Changed, ret, itr, Meta,
                     IntRanges, Changes, fi, bi, ii>>
  BY DEF MergePredecessor, passRest, driverVars
<1>7. MapsType(asked)
  <2>1. \A v \in Asked(T) : v \in Value /\ IsOperand(F, v)
    BY <1>4, <1>5, TerminatorFacts DEF Asked
  <2>2. c \in DOMAIN F.blocks
    BY <1>3, <1>5
  <2> HIDE DEF c, T
  <2> QED
    BY <1>1, <2>1, <2>2, AskType
<1>8. MapType(refined)
  <2>1. MapType(FuncVRMs[p])
    BY <1>1, <1>3 DEF MapsType
  <2> HIDE DEF asked
  <2> QED
    BY <1>1, <1>3, <1>7, <2>1, VisitTerminatorType
<1> HIDE DEF asked, refined
<1>9. MapType(UnionMaps(asked[bi], refined))
  BY <1>2, <1>7, <1>8, UnionMapsType DEF MapsType
<1>10. MapsType(FuncVRMs')
  <2> HIDE DEF p
  <2> QED
    BY <1>1, <1>6, <1>7, <1>9 DEF MapsType
<1> HIDE DEF p, T, c
<1>11. DriverTypeOK' /\ prog' \in Programs /\ Sweeps'
  BY <1>6 DEF Inv, DriverTypeOK, Sweeps
<1>12. Position'
  BY <1>6, <1>10 DEF Inv, Position, MapsType, InModulePass, Functions, F
<1>13. Maps'
  BY <1>6, <1>10 DEF Inv, Maps, MapsType
<1> QED
  BY <1>6, <1>11, <1>12, <1>13 DEF Inv

LEMMA SweepAgainInv ==
    ASSUME Inv, SweepAgain
    PROVE  Inv' /\ Grown(IntRanges, IntRanges')
<1> DEFINE old == GivenUp(IntRanges, Changes)
           new == GivenUp(IntRanges', {})
<1>1. /\ Changed
      /\ itr' = itr + 1
      /\ IntRanges' = IF itr' > MaxIterations THEN Widen(IntRanges) ELSE IntRanges
      /\ Changes' = {} /\ Changed' = FALSE /\ ret' = TRUE
      /\ fi' = 1
      /\ UNCHANGED <<phase, mod, changed, prog, FuncVRMs, bi, pi, ii, Meta>>
      /\ fi > Len(Functions)
  BY DEF SweepAgain, AtEnd, driverVars
<1>2. IRType(IntRanges)
  BY DEF Inv, Maps
<1>3. IRType(IntRanges') /\ Grown(IntRanges, IntRanges') /\ DOMAIN IntRanges' = DOMAIN IntRanges
  BY <1>1, <1>2, WidenFacts DEF Grown
<1>4. itr' \in Nat \ {0} /\ itr' <= MaxIterations + Cardinality(new)
  <2>1. Cardinality(old) <= Cardinality(new) /\ old \subseteq new
    BY <1>2, <1>3, GivenUpStays
  <2>2. /\ Cardinality(old) \in Nat /\ Cardinality(new) \in Nat
        /\ IsFiniteSet(old) /\ IsFiniteSet(new)
    BY <1>2, <1>3, GivenUpFinite
  <2>3. itr \in Nat \ {0} /\ itr <= MaxIterations + Cardinality(old)
    BY DEF Inv, Sweeps
  <2>4. CASE itr' <= MaxIterations
    BY <1>1, <2>2, <2>3, <2>4, RangeAssumption
  <2>5. CASE itr' > MaxIterations
    <3>1. PICK x \in DOMAIN IntRanges : x \in Changes
      BY <1>1 DEF Inv, Sweeps, Maps
    <3>2. x \notin old
      BY <3>1 DEF GivenUp
    <3>3. x \in new
      BY <1>1, <1>2, <2>5, <3>1, WidenFacts DEF GivenUp
    <3> HIDE DEF old, new
    <3>4. old \cup {x} \in SUBSET new
      BY <2>1, <3>3
    <3>5. Cardinality(old \cup {x}) = Cardinality(old) + 1
      BY <2>2, <3>2, FS_AddElement
    <3>6. Cardinality(old \cup {x}) <= Cardinality(new)
      BY <2>2, <3>4, FS_Subset
    <3> QED
      BY <1>1, <2>2, <2>3, <3>5, <3>6, RangeAssumption
  <2> QED
    BY <1>1, <2>3, <2>4, <2>5, RangeAssumption
<1>5. DriverTypeOK' /\ prog' \in Programs
  BY <1>1 DEF Inv, DriverTypeOK
<1>6. Position'
  <2>1. bi = 0
    BY <1>1, ProgramFacts DEF Inv, Position, InModulePass
  <2> QED
    BY <1>1, <2>1 DEF Inv, Position
<1>7. Maps'
  BY <1>1, <1>3 DEF Inv, Maps
<1>8. Sweeps'
  BY <1>1, <1>4 DEF Sweeps
<1> QED
  BY <1>3, <1>5, <1>6, <1>7, <1>8 DEF Inv

LEMMA doInitializationInv ==
    ASSUME Inv, doInitialization
    PROVE  Inv' /\ Grown(IntRanges, IntRanges')
<1> DEFINE leaves == prog.init[mod]
           ups == [n \in DOMAIN leaves |->
                     [id |-> leaves[n].id,
                      r |-> IF Collected(leaves[n]) THEN Singleton(leaves[n].w, leaves[n].c)
                            ELSE EmptyRange(leaves[n].w)]]
<1>1. ForModule("init")
  BY DEF doInitialization
<1>2. DriverTypeOK' /\ mod \in ModuleNo /\ phase = "init" /\ phase' = "init"
  BY <1>1, ForModuleType DEF Inv
<1>3. leaves \in Seq(InitLeaf)
  BY <1>2, ProgramFacts DEF Inv
<1>4. /\ IntRanges' = UnionAll(IntRanges, ups)
      /\ UNCHANGED <<prog, Changes, FuncVRMs, fi, bi, pi, ii, Changed, ret, itr, Meta>>
  BY DEF doInitialization, position
<1> HIDE DEF leaves
<1>5. Len(leaves) \in Nat /\ DOMAIN leaves = 1..Len(leaves)
      /\ \A n \in 1..Len(leaves) : leaves[n] \in InitLeaf
  BY <1>3, SeqFacts
<1>6. Len(ups) = Len(leaves)
  BY <1>5, LenOfNumbered
<1>7. ASSUME NEW n \in 1..Len(ups)
      PROVE  IsUpdate(ups[n])
  <2>1. n \in 1..Len(leaves)
    BY <1>6
  <2>2. leaves[n].id \in Id /\ leaves[n].w \in Widths /\ leaves[n].c \in Nat
    BY <1>5, <2>1 DEF InitLeaf
  <2>3. /\ Singleton(leaves[n].w, leaves[n].c) \in CRange
        /\ EmptyRange(leaves[n].w) \in CRange
    BY <2>2, SimpleRanges, InCRange
  <2>4. ups[n].id = leaves[n].id /\ ups[n].r \in CRange
    BY <1>5, <2>1, <2>3
  <2> QED
    BY <2>2, <2>4 DEF IsUpdate
<1> HIDE DEF ups
<1>8. IRType(IntRanges') /\ Grown(IntRanges, IntRanges')
  BY <1>4, <1>5, <1>6, <1>7, UnionAllFacts DEF Inv, Maps
<1>9. bi = 0
  BY <1>2 DEF Inv, Position, InModulePass
<1>10. Position'
  BY <1>4, <1>9 DEF Inv, Position
<1>11. Maps'
  BY <1>4, <1>8 DEF Inv, Maps, Grown
<1>12. Sweeps'
  <2>1. Cardinality(GivenUp(IntRanges, Changes)) <= Cardinality(GivenUp(IntRanges', Changes))
    BY <1>8, GivenUpStays DEF Inv, Maps
  <2>2. /\ Cardinality(GivenUp(IntRanges, Changes)) \in Nat
        /\ Cardinality(GivenUp(IntRanges', Changes)) \in Nat
    BY <1>8, GivenUpFinite DEF Inv, Maps
  <2>3. itr <= MaxIterations + Cardinality(GivenUp(IntRanges', Changes))
    BY <2>1, <2>2, RangeAssumption DEF Inv, Sweeps
  <2> QED
    BY <1>4, <2>3 DEF Inv, Sweeps
<1> QED
  BY <1>2, <1>4, <1>8, <1>10, <1>11, <1>12 DEF Inv

LEMMA doFinalizationInv ==
    ASSUME Inv, doFinalization
    PROVE  Inv' /\ UNCHANGED IntRanges
<1>1. ForModule("final")
  BY DEF doFinalization
<1>2. DriverTypeOK' /\ phase = "final"
  BY <1>1, ForModuleType DEF Inv
<1> DEFINE marked == {s \in Sites(mod) :
                        /\ At(s).op \in {"load", "call"}
                        /\ At(s).id \in DOMAIN IntRanges \ {NoId}
                        /\ IntRanges[At(s).id].s # Ring(IntRanges[At(s).id].w)}
<1>3. /\ Meta' = [s \in DOMAIN Meta \cup marked |->
                    IF s \in DOMAIN Meta THEN Meta[s] ELSE IntRanges[At(s).id]]
      /\ UNCHANGED <<prog, IntRanges, Changes, FuncVRMs, fi, bi, pi, ii, Changed, ret, itr>>
  BY DEF doFinalization, position
<1>4. \A s \in marked : At(s).id \in DOMAIN IntRanges
  OBVIOUS
<1> HIDE DEF marked
<1>5. ASSUME NEW s \in DOMAIN Meta'
      PROVE  Meta'[s] \in CRange
  BY <1>3, <1>4 DEF Inv, Maps, IRType
<1>6. bi = 0 /\ UNCHANGED <<fi, bi, pi, ii>>
  <2>1. UNCHANGED <<fi, bi, pi, ii>>
    BY <1>3
  <2>2. bi = 0
    <3>1. ~InModulePass
      BY <1>2 DEF InModulePass
    <3> QED
      BY <3>1 DEF Inv, Position
  <2> QED
    BY <2>1, <2>2
<1>7. Position'
  BY <1>6 DEF Inv, Position
<1>8. Maps'
  BY <1>3, <1>5 DEF Inv, Maps
<1>9. Sweeps'
  BY <1>3 DEF Inv, Sweeps
<1> QED
  BY <1>2, <1>3, <1>7, <1>8, <1>9 DEF Inv

\* The steps between blocks, functions and modules.
LEMMA StepInv ==
    ASSUME Inv, BeginFunction \/ NextBlock \/ NextFunction \/ ReturnFromModule \/ Drive
    PROVE  Inv' /\ UNCHANGED IntRanges
<1>1. CASE BeginFunction
  <2>1. /\ InModulePass /\ fi <= Len(Functions)
        /\ FuncVRMs' = [b \in DOMAIN F.blocks |-> Empty] /\ bi' = 1
        /\ UNCHANGED <<phase, mod, changed, prog, Changed, ret, itr, Meta,
                       IntRanges, Changes, fi, pi, ii>>
    BY <1>1 DEF BeginFunction, passRest, driverVars
  <2>2. DriverTypeOK' /\ prog' \in Programs /\ Sweeps'
    BY <2>1 DEF Inv, DriverTypeOK, Sweeps
  <2>3. Position'
    BY <2>1 DEF Inv, Position, InModulePass, Functions, F
  <2>4. Maps'
    BY <2>1 DEF Inv, Maps, MapType, Empty
  <2> QED
    BY <2>1, <2>2, <2>3, <2>4 DEF Inv
<1>2. CASE NextBlock
  <2>1. /\ InFunction
        /\ bi' = bi + 1 /\ pi' = 1 /\ ii' = 1
        /\ UNCHANGED <<phase, mod, changed, prog, Changed, ret, itr, Meta,
                       IntRanges, Changes, FuncVRMs, fi>>
    BY <1>2 DEF NextBlock, Merged, InBlock, passRest, driverVars
  <2>2. DriverTypeOK' /\ prog' \in Programs /\ Sweeps' /\ Maps'
    BY <2>1 DEF Inv, DriverTypeOK, Sweeps, Maps
  <2>3. Position'
    BY <2>1 DEF Inv, Position, InModulePass, Functions, F, InFunction
  <2> QED
    BY <2>1, <2>2, <2>3 DEF Inv
<1>3. CASE NextFunction
  <2>1. /\ fi' = fi + 1 /\ bi' = 0 /\ pi' = 1 /\ ii' = 1
        /\ UNCHANGED <<phase, mod, changed, prog, Changed, ret, itr, Meta,
                       IntRanges, Changes, FuncVRMs>>
    BY <1>3 DEF NextFunction, passRest, driverVars
  <2>2. DriverTypeOK' /\ prog' \in Programs /\ Sweeps' /\ Maps'
    BY <2>1 DEF Inv, DriverTypeOK, Sweeps, Maps
  <2>3. Position'
    BY <2>1 DEF Inv, Position
  <2> QED
    BY <2>1, <2>2, <2>3 DEF Inv
<1>4. CASE ReturnFromModule
  <2>1. /\ EndModulePass(ret) /\ AtEnd
        /\ fi' = 1 /\ itr' = 1 /\ ret' = FALSE
        /\ UNCHANGED <<prog, IntRanges, Changes, FuncVRMs, bi, pi, ii, Changed, Meta>>
    BY <1>4 DEF ReturnFromModule
  <2>2. DriverTypeOK'
    BY <2>1, EndModulePassType DEF Inv
  <2>3. bi = 0
    BY <2>1, ProgramFacts DEF AtEnd, Inv, Position, InModulePass, DriverTypeOK, ModuleNo
  <2>4. Position'
    BY <2>1, <2>3 DEF Inv, Position
  <2>5. Maps'
    BY <2>1 DEF Inv, Maps
  <2>6. Sweeps'
    <3>1. Cardinality(GivenUp(IntRanges, Changes)) \in Nat
      BY GivenUpFinite DEF Inv, Maps
    <3>2. itr' <= MaxIterations + Cardinality(GivenUp(IntRanges', Changes'))
      BY <2>1, <3>1, RangeAssumption
    <3>3. itr' \in Nat \ {0}
      BY <2>1
    <3>4. ret' \in BOOLEAN
      BY <2>1, Zenon
    <3>5. Changed' \in BOOLEAN /\ (Changed' <=> Changes' # {})
      BY <2>1 DEF Inv, Sweeps
    <3> QED
      BY <3>2, <3>3, <3>4, <3>5 DEF Sweeps
  <2> QED
    BY <2>1, <2>2, <2>4, <2>5, <2>6 DEF Inv
<1>5. CASE Drive
  <2>1. /\ BeginSweep \/ BeginFinal \/ Finish
        /\ UNCHANGED <<prog, IntRanges, Changes, FuncVRMs, fi, bi, pi, ii, Changed, ret,
                       itr, Meta>>
    BY <1>5 DEF Drive, passVars, position
  <2>2. DriverTypeOK' /\ mod > NumModules
    BY <2>1, DriveType DEF Inv
  <2>3. bi = 0
    BY <2>2, IdsAssumption DEF Inv, Position, InModulePass, DriverTypeOK
  <2>4. Position'
    BY <2>1, <2>3 DEF Inv, Position
  <2>5. Maps' /\ Sweeps'
    BY <2>1 DEF Inv, Maps, Sweeps
  <2> QED
    BY <2>1, <2>2, <2>4, <2>5 DEF Inv
<1> QED
  BY <1>1, <1>2, <1>3, <1>4, <1>5

LEMMA NextInv ==
    ASSUME Inv, [Next]_vars
    PROVE  Inv' /\ Grown(IntRanges, IntRanges')
<1>1. Grown(IntRanges, IntRanges)
  BY DEF Grown
<1>2. CASE UNCHANGED vars
  <2>1. UNCHANGED <<phase, mod, changed, prog, IntRanges, Changes, FuncVRMs, fi, bi, pi, ii,
                    Changed, ret, itr, Meta>>
    BY <1>2 DEF vars, driverVars, passVars, position
  <2>2. DriverTypeOK' /\ prog' \in Programs /\ Sweeps' /\ Maps'
    BY <2>1 DEF Inv, DriverTypeOK, Sweeps, Maps
  <2>3. Position'
    BY <2>1 DEF Inv, Position, InModulePass, Functions, F
  <2> QED
    BY <1>1, <2>1, <2>2, <2>3 DEF Inv
<1>3. CASE doInitialization
  BY <1>3, doInitializationInv
<1>4. CASE BeginFunction \/ NextBlock \/ NextFunction \/ ReturnFromModule \/ Drive
  BY <1>1, <1>4, StepInv
<1>5. CASE MergePredecessor
  BY <1>1, <1>5, MergePredecessorInv
<1>6. CASE VisitInstruction
  BY <1>6, VisitInstructionInv
<1>7. CASE SweepAgain
  BY <1>7, SweepAgainInv
<1>8. CASE doFinalization
  BY <1>1, <1>8, doFinalizationInv
<1> QED
  BY <1>2, <1>3, <1>4, <1>5, <1>6, <1>7, <1>8 DEF Next, Done

THEOREM Invariant == Spec => []Inv
<1>1. Inv /\ [Next]_vars => Inv'
  BY NextInv
<1> QED
  BY <1>1, InitInv, PTL DEF Spec

\* Everything has its type: what a map holds of a value is a range of that
\* value's width, whatever the operations it came through did to widths
\* (zextOrTrunc, signExtend and match in Range.cc's visitors, CRange.h).
THEOREM TypeCorrect == Spec => []TypeOK
<1>1. Inv => TypeOK
  <2> SUFFICES ASSUME Inv PROVE TypeOK
    OBVIOUS
  <2>1. ASSUME NEW b \in DOMAIN FuncVRMs, NEW v \in DOMAIN FuncVRMs[b]
        PROVE  FuncVRMs[b][v] \in CRange
    BY InCRange DEF Inv, Maps, MapType
  <2> QED
    BY <2>1 DEF Inv, TypeOK, Position, Maps, IRType, Sweeps
<1> QED
  BY <1>1, Invariant, PTL

\* The loop of doModulePass ends however slowly the values converge: after
\* MaxIterations sweeps each one gives up an identifier for good (the widening
\* of Range.cc's doModulePass), so there are at most as many more as identifiers.
THEOREM SweepsAreBounded == Spec => []SweepsBounded
<1>1. Inv => SweepsBounded
  <2> SUFFICES ASSUME Inv PROVE SweepsBounded
    OBVIOUS
  <2>1. /\ Cardinality(GivenUp(IntRanges, Changes)) \in Nat
        /\ Cardinality(GivenUp(IntRanges, Changes)) <= Cardinality(DOMAIN IntRanges)
    BY GivenUpFinite DEF Inv, Maps
  <2>2. Cardinality(DOMAIN IntRanges) \in Nat
    BY FS_CardinalityType DEF Inv, Maps, IRType
  <2> QED
    BY <2>1, <2>2, RangeAssumption DEF Inv, Sweeps, SweepsBounded
<1> QED
  BY <1>1, Invariant, PTL

\* No step of the pass takes an identifier's range back or narrows it, or
\* changes its width: unionRange only ever adds, and so does the widening.
THEOREM RangesOnlyGrow == Spec => [][Grown(IntRanges, IntRanges')]_vars
<1>1. Inv /\ [Next]_vars => [Grown(IntRanges, IntRanges')]_vars
  BY NextInv
<1> QED
  BY <1>1, Invariant, PTL DEF Spec

----------------------------------------------------------------------------
(* What the operations on ranges cover *)

\* Ranges of one width are left as they are.
LEMMA MatchSame ==
    ASSUME NEW r, NEW other, r.w = other.w
    PROVE  match(r, other) = r
BY DEF match, zextOrTrunc

\* A union covers both its ranges.
LEMMA UnionCovers ==
    ASSUME NEW r \in CRange, NEW other \in CRange, r.w = other.w
    PROVE  r.s \subseteq safeUnion(r, other).s /\ other.s \subseteq safeUnion(r, other).s
<1>1. r.w \in Widths /\ r.s \subseteq Ring(r.w) /\ other.s \subseteq Ring(r.w)
  BY CRangeWidth
<1>2. safeUnion(r, other) = Hull(r.w, r.s \cup other.s)
  BY MatchSame DEF safeUnion
<1>3. r.s \cup other.s \in SUBSET Ring(r.w)
  BY <1>1
<1>4. r.s \cup other.s \subseteq Hull(r.w, r.s \cup other.s).s
  BY <1>1, <1>3, HullFacts
<1> QED
  BY <1>2, <1>4

\* And the union over a sequence each of them.
LEMMA UnionOfCovers ==
    ASSUME NEW w \in Widths, NEW rs, Len(rs) \in Nat,
           \A n \in 1..Len(rs) : rs[n] \in CRange /\ rs[n].w = w
    PROVE  \A n \in 1..Len(rs) : rs[n].s \subseteq UnionOf(w, rs).s
<1>1. PICK f : /\ f = [n \in 0..Len(rs) |->
                         IF n = 0 THEN EmptyRange(w) ELSE safeUnion(f[n - 1], rs[n])]
               /\ UnionOf(w, rs) = f[Len(rs)]
  BY UnionOfRecursion
<1> DEFINE S == {m \in Nat : m <= Len(rs) =>
                    f[m] \in RangeOf(w) /\ \A n \in 1..m : rs[n].s \subseteq f[m].s}
<1>2. 0 \in S
  <2>1. f[0] = EmptyRange(w)
    BY <1>1
  <2> QED
    BY <2>1, SimpleRanges
<1>3. ASSUME NEW m \in Nat, m \in S
      PROVE  m + 1 \in S
  <2> SUFFICES ASSUME m + 1 <= Len(rs)
               PROVE  /\ f[m + 1] \in RangeOf(w)
                      /\ \A n \in 1..(m + 1) : rs[n].s \subseteq f[m + 1].s
    OBVIOUS
  <2>1. f[m] \in RangeOf(w) /\ \A n \in 1..m : rs[n].s \subseteq f[m].s
    BY <1>3
  <2>2. f[m + 1] = safeUnion(f[m], rs[m + 1])
    <3>1. m + 1 \in 0..Len(rs) /\ m + 1 # 0 /\ (m + 1) - 1 = m
      OBVIOUS
    <3> QED
      BY <1>1, <3>1
  <2>3. f[m] \in CRange /\ f[m].w = w /\ rs[m + 1] \in CRange /\ rs[m + 1].w = w
    BY <2>1, InCRange
  <2>4. /\ f[m + 1] \in RangeOf(w)
        /\ f[m].s \subseteq f[m + 1].s /\ rs[m + 1].s \subseteq f[m + 1].s
    BY <2>2, <2>3, SafeUnionFacts, UnionCovers
  <2> QED
    BY <2>1, <2>4
<1>4. Len(rs) \in S
  <2> HIDE DEF S
  <2> QED
    BY <1>2, <1>3, InductionOverSets
<1> QED
  BY <1>1, <1>4

\* The operations on ranges cover those on their members.
LEMMA ArithmeticCovers ==
    ASSUME NEW w \in Widths, NEW l \in RangeOf(w), NEW r \in RangeOf(w),
           NEW a \in l.s, NEW b \in r.s
    PROVE  /\ (a + b) % 2^w \in add(l, r).s
           /\ (a - b) % 2^w \in sub(l, r).s
           /\ sdiv(l, r).s = Ring(w)
<1>1. l.w = w /\ l.s \subseteq Ring(w) /\ r.s \subseteq Ring(w)
  BY InCRange
<1> DEFINE A == {(x + y) % 2^w : x \in l.s, y \in r.s}
           B == {(x - y) % 2^w : x \in l.s, y \in r.s}
<1>2. A \in SUBSET Ring(w) /\ B \in SUBSET Ring(w)
  <2>1. \A x \in l.s : \A y \in r.s : x + y \in Int /\ x - y \in Int
    BY <1>1, RingFacts
  <2>2. \A x \in Int : x % 2^w \in Ring(w)
    BY RingFacts
  <2> QED
    BY <2>1, <2>2
<1>3. (a + b) % 2^w \in A /\ (a - b) % 2^w \in B
  OBVIOUS
<1>4. add(l, r) = Hull(w, A) /\ sub(l, r) = Hull(w, B)
  BY <1>1 DEF add, sub
<1> HIDE DEF A, B
<1>5. A \subseteq Hull(w, A).s /\ B \subseteq Hull(w, B).s
  BY <1>2, HullFacts
<1>6. sdiv(l, r).s = Ring(w)
  BY <1>1, SimpleRanges DEF sdiv
<1> QED
  BY <1>3, <1>4, <1>5, <1>6

\* So do the casts.
LEMMA CastCovers ==
    ASSUME NEW r \in CRange, NEW w \in Widths, NEW a \in r.s
    PROVE  /\ a % 2^w \in zextOrTrunc(r, w).s
           /\ r.w <= w => SignExtended(r.w, w, a) \in signExtend(r, w).s
<1>1. r.w \in Widths /\ r.s \subseteq Ring(r.w)
  BY CRangeWidth
<1>2. a % 2^w \in zextOrTrunc(r, w).s
  <2>1. CASE r.w = w
    BY <1>1, <2>1, RingFacts DEF zextOrTrunc
  <2>2. CASE r.w # w
    <3> DEFINE A == {x % 2^w : x \in r.s}
    <3>1. A \in SUBSET Ring(w)
      BY <1>1, RingFacts
    <3>2. a % 2^w \in A
      OBVIOUS
    <3>3. zextOrTrunc(r, w) = Hull(w, A)
      BY <2>2 DEF zextOrTrunc
    <3> HIDE DEF A
    <3> QED
      BY <3>1, <3>2, <3>3, HullFacts
  <2> QED
    BY <2>1, <2>2
<1>3. ASSUME r.w <= w PROVE SignExtended(r.w, w, a) \in signExtend(r, w).s
  <2>1. /\ 2^w \in Nat \ {0} /\ Ring(w) = 0..(2^w - 1)
        /\ 2^r.w \in Nat \ {0} /\ Ring(r.w) = 0..(2^r.w - 1)
    BY <1>1, RingFacts DEF Ring
  <2>2. 2^r.w <= 2^w
    BY <1>1, <1>3, RingFacts, PowerMonotone
  <2>3. 2^(r.w - 1) \in Nat
    <3>1. r.w \in Nat \ {0}
      BY <1>1, RingFacts
    <3>2. r.w - 1 \in Nat
      BY <3>1
    <3> QED
      BY <3>2, Power
  <2> DEFINE ext(x) == IF x < 2^(r.w - 1) THEN x ELSE x + 2^w - 2^r.w
             A == {ext(x) : x \in r.s}
  <2>4. A \in SUBSET Ring(w)
    <3>1. ASSUME NEW x \in r.s PROVE ext(x) \in Ring(w)
      <4>1. x \in 0..(2^r.w - 1)
        BY <1>1, <2>1
      <4> QED
        BY <2>1, <2>2, <2>3, <4>1
    <3> QED
      BY <3>1
  <2>5. SignExtended(r.w, w, a) = ext(a)
    <3>1. a \in Nat
      BY <1>1, <2>1
    <3> QED
      BY <2>1, <3>1 DEF SignExtended
  <2>6. ext(a) \in A
    OBVIOUS
  <2>7. signExtend(r, w) = Hull(w, A)
    BY DEF signExtend
  <2> HIDE DEF A, ext
  <2> QED
    BY <2>4, <2>5, <2>6, <2>7, HullFacts
<1> QED
  BY <1>2, <1>3

\* IR knows of an update.
Knows(IR, u) ==
    u.r.s # {} => /\ u.id \in DOMAIN IR
                  /\ IR[u.id].w = u.r.w => u.r.s \subseteq IR[u.id].s

WidthsIn(IR, U) == \A x \in DOMAIN IR : <<x, IR[x].w>> \in U

\* IntRanges knows an update it has been unioned with, and keeps to the widths.
LEMMA UnionIdHolds ==
    ASSUME NEW IR, IRType(IR), NEW u, IsUpdate(u), NEW U, WidthsIn(IR, U),
           u.r.s # {} => <<u.id, u.r.w>> \in U
    PROVE  Knows(UnionId(IR, u.id, u.r), u) /\ WidthsIn(UnionId(IR, u.id, u.r), U)
<1> DEFINE id == u.id
           r == u.r
           IR2 == UnionId(IR, id, r)
<1>1. CASE r.s = {}
  BY <1>1 DEF UnionId, Knows
<1>2. CASE r.s # {}
  <2>1. id \in Id /\ r \in CRange
    BY <1>2 DEF IsUpdate
  <2>2. /\ DOMAIN IR2 = DOMAIN IR \cup {id}
        /\ \A x \in DOMAIN IR : x # id => IR2[x] = IR[x]
        /\ id \in DOMAIN IR => IR2[id] = safeUnion(IR[id], r)
        /\ id \notin DOMAIN IR => IR2[id] = r
    BY <1>2 DEF UnionId
  <2> HIDE DEF IR2
  <2>3. ASSUME id \in DOMAIN IR
        PROVE  /\ IR2[id].w = IR[id].w
               /\ IR2[id].w = r.w => r.s \subseteq IR2[id].s
    <3>1. IR[id] \in CRange
      BY <2>3 DEF IRType
    <3>2. IR2[id].w = IR[id].w
      BY <2>1, <2>2, <2>3, <3>1, SafeUnionFacts, InCRange, CRangeWidth
    <3>3. IR[id].w = r.w => r.s \subseteq IR2[id].s
      BY <2>1, <2>2, <2>3, <3>1, UnionCovers
    <3> QED
      BY <3>2, <3>3
  <2>4. Knows(IR2, u)
    BY <2>2, <2>3 DEF Knows
  <2>5. WidthsIn(IR2, U)
    BY <1>2, <2>2, <2>3 DEF WidthsIn
  <2> QED
    BY <2>4, <2>5 DEF IR2
<1> QED
  BY <1>1, <1>2

\* What grows still knows it.
LEMMA GrownHolds ==
    ASSUME NEW A, NEW B, Grown(A, B), NEW u, Knows(A, u)
    PROVE  Knows(B, u)
BY DEF Grown, Knows

\* After a sequence of updates they are all known.
LEMMA UnionAllHolds ==
    ASSUME NEW IR, IRType(IR), NEW ups, Len(ups) \in Nat,
           \A n \in 1..Len(ups) : IsUpdate(ups[n]),
           NEW U, WidthsIn(IR, U),
           \A n \in 1..Len(ups) : ups[n].r.s # {} => <<ups[n].id, ups[n].r.w>> \in U
    PROVE  /\ WidthsIn(UnionAll(IR, ups), U)
           /\ \A n \in 1..Len(ups) : Knows(UnionAll(IR, ups), ups[n])
<1>1. PICK f : /\ f = [n \in 0..Len(ups) |->
                         IF n = 0 THEN IR ELSE UnionId(f[n - 1], ups[n].id, ups[n].r)]
               /\ UnionAll(IR, ups) = f[Len(ups)]
  BY UnionAllRecursion
<1> DEFINE S == {m \in Nat : m <= Len(ups) =>
                   /\ IRType(f[m]) /\ WidthsIn(f[m], U)
                   /\ \A n \in 1..m : Knows(f[m], ups[n])}
<1>2. 0 \in S
  <2>1. f[0] = IR
    BY <1>1
  <2> QED
    BY <2>1
<1>3. ASSUME NEW m \in Nat, m \in S
      PROVE  m + 1 \in S
  <2> SUFFICES ASSUME m + 1 <= Len(ups)
               PROVE  /\ IRType(f[m + 1]) /\ WidthsIn(f[m + 1], U)
                      /\ \A n \in 1..(m + 1) : Knows(f[m + 1], ups[n])
    OBVIOUS
  <2> DEFINE u == ups[m + 1]
  <2>1. IRType(f[m]) /\ WidthsIn(f[m], U) /\ \A n \in 1..m : Knows(f[m], ups[n])
    BY <1>3
  <2>2. f[m + 1] = UnionId(f[m], u.id, u.r)
    <3>1. m + 1 \in 0..Len(ups) /\ m + 1 # 0 /\ (m + 1) - 1 = m
      OBVIOUS
    <3> QED
      BY <1>1, <3>1
  <2>3. IsUpdate(u) /\ (u.r.s # {} => <<u.id, u.r.w>> \in U)
    OBVIOUS
  <2> HIDE DEF u
  <2>4. IRType(f[m + 1]) /\ Grown(f[m], f[m + 1])
    BY <2>1, <2>2, <2>3, UnionIdFacts
  <2>5. Knows(f[m + 1], u) /\ WidthsIn(f[m + 1], U)
    BY <2>1, <2>2, <2>3, UnionIdHolds
  <2>6. \A n \in 1..m : Knows(f[m + 1], ups[n])
    BY <2>1, <2>4, GrownHolds
  <2> QED
    BY <2>4, <2>5, <2>6 DEF u
<1>4. Len(ups) \in S
  <2> HIDE DEF S
  <2> QED
    BY <1>2, <1>3, InductionOverSets
<1> QED
  BY <1>1, <1>4

----------------------------------------------------------------------------
(* The program and its sites *)

\* A site is an instruction of a function of a module.
LEMMA SiteParts ==
    ASSUME NEW s \in ProgSites
    PROVE  /\ s = <<s[1], s[2], s[3], s[4]>>
           /\ s[1] \in ModuleNo /\ s[2] \in DOMAIN prog.code[s[1]]
           /\ s[3] \in DOMAIN FunctionOf(s).blocks
           /\ s[4] \in DOMAIN FunctionOf(s).blocks[s[3]].instrs
<1>1. PICK m \in ModuleNo : s \in Sites(m)
  BY DEF ProgSites
<1> DEFINE fs == prog.code[m]
           in(f) == UNION {{<<m, f, b, i>> : i \in DOMAIN fs[f].blocks[b].instrs} :
                           b \in DOMAIN fs[f].blocks}
<1>2. PICK f \in DOMAIN fs : s \in in(f)
  BY <1>1 DEF Sites
<1>3. PICK b \in DOMAIN fs[f].blocks : s \in {<<m, f, b, i>> : i \in DOMAIN fs[f].blocks[b].instrs}
  BY <1>2
<1>4. PICK i \in DOMAIN fs[f].blocks[b].instrs : s = <<m, f, b, i>>
  BY <1>3
<1>5. s[1] = m /\ s[2] = f /\ s[3] = b /\ s[4] = i
  BY <1>4
<1> QED
  BY <1>4, <1>5 DEF FunctionOf

\* And every instruction is a site.
LEMMA IsSite ==
    ASSUME NEW m \in ModuleNo, NEW f \in DOMAIN prog.code[m],
           NEW b \in DOMAIN prog.code[m][f].blocks,
           NEW i \in DOMAIN prog.code[m][f].blocks[b].instrs
    PROVE  <<m, f, b, i>> \in ProgSites
<1> DEFINE s == <<m, f, b, i>>
           in(g) == UNION {{<<m, g, c, j>> : j \in DOMAIN prog.code[m][g].blocks[c].instrs} :
                           c \in DOMAIN prog.code[m][g].blocks}
<1>1. s \in in(f)
  OBVIOUS
<1>2. s \in UNION {in(g) : g \in DOMAIN prog.code[m]}
  BY <1>1
<1>3. s \in Sites(m)
  BY <1>2 DEF Sites
<1> QED
  BY <1>3 DEF ProgSites

\* Programs are well formed throughout.
LEMMA SiteFacts ==
    ASSUME prog \in Programs, NEW s \in ProgSites
    PROVE  /\ FunctionOf(s) \in Function /\ WellFormed(FunctionOf(s))
           /\ At(s) = FunctionOf(s).blocks[s[3]].instrs[s[4]]
           /\ At(s) \in Instr /\ WellTyped(FunctionOf(s), At(s))
<1> DEFINE f == FunctionOf(s)
<1>1. /\ s[1] \in ModuleNo /\ s[2] \in DOMAIN prog.code[s[1]]
      /\ s[3] \in DOMAIN f.blocks /\ s[4] \in DOMAIN f.blocks[s[3]].instrs
  BY SiteParts
<1>2. prog \in [init: [ModuleNo -> Seq(InitLeaf)], code: [ModuleNo -> Seq(Function)]]
  BY RangeAssumption
<1>3. prog.code[s[1]] \in Seq(Function)
  BY <1>1, <1>2
<1>4. f \in Function
  BY <1>1, <1>3, SeqFacts DEF FunctionOf
<1>5. WellFormed(f)
  BY <1>1, RangeAssumption DEF FunctionOf
<1>6. At(s) = f.blocks[s[3]].instrs[s[4]]
  BY DEF At, FunctionOf
<1> HIDE DEF f
<1>7. f.blocks[s[3]].instrs \in Seq(Instr)
  BY <1>1, <1>4, FunctionFacts
<1>8. f.blocks[s[3]].instrs[s[4]] \in Instr
  BY <1>1, <1>7, SeqFacts
<1>9. WellTyped(f, f.blocks[s[3]].instrs[s[4]])
  BY <1>1, <1>5 DEF WellFormed
<1> QED
  BY <1>4, <1>5, <1>6, <1>8, <1>9 DEF f

\* A value of an instruction names it.
LEMMA OperandParts ==
    ASSUME NEW f, NEW v \in Value, IsOperand(f, v), v.kind # "const"
    PROVE  /\ v.kind = "instr" /\ v.b \in DOMAIN f.blocks
           /\ v.i \in DOMAIN f.blocks[v.b].instrs
           /\ v = [kind |-> "instr", b |-> v.b, i |-> v.i, w |-> f.blocks[v.b].instrs[v.i].w]
           /\ v.b \in Nat /\ v.i \in Nat
<1>1. v.kind = "instr" /\ v.b \in DOMAIN f.blocks /\ v.i \in DOMAIN f.blocks[v.b].instrs
      /\ f.blocks[v.b].instrs[v.i].w = v.w
  BY DEF IsOperand
<1>2. v \in [kind: {"instr"}, b: Nat, i: Nat, w: Widths]
  BY <1>1 DEF Value
<1>3. v = [kind |-> v.kind, b |-> v.b, i |-> v.i, w |-> v.w]
  BY <1>2
<1> QED
  BY <1>1, <1>2, <1>3

----------------------------------------------------------------------------
(* Dominance *)

\* What dominates a block dominates its predecessors.
LEMMA DominatesPreds ==
    ASSUME NEW f, NEW d, NEW b, Dominates(f, d, b), b # d
    PROVE  /\ b # 1
           /\ \A n \in DOMAIN f.blocks[b].preds : Dominates(f, d, f.blocks[b].preds[n])
<1>1. PICK S \in SUBSET DOMAIN f.blocks :
         /\ b \in S
         /\ \A c \in S \ {d} :
               c # 1 /\ \A n \in DOMAIN f.blocks[c].preds : f.blocks[c].preds[n] \in S
  BY DEF Dominates
<1>2. b # 1 /\ \A n \in DOMAIN f.blocks[b].preds : f.blocks[b].preds[n] \in S
  BY <1>1
<1> QED
  BY <1>1, <1>2 DEF Dominates

\* A block that dominates another one is listed before it.
LEMMA DominatesEarlier ==
    ASSUME NEW f \in Function, WellFormed(f), Listed(f),
           NEW d \in Nat, NEW b, Dominates(f, d, b)
    PROVE  b \in DOMAIN f.blocks /\ b \in Nat /\ d <= b
<1>1. PICK S \in SUBSET DOMAIN f.blocks :
         /\ b \in S
         /\ \A c \in S \ {d} :
               c # 1 /\ \A n \in DOMAIN f.blocks[c].preds : f.blocks[c].preds[n] \in S
  BY DEF Dominates
<1>2. DOMAIN f.blocks \subseteq Nat
  BY FunctionFacts
<1> SUFFICES ASSUME b < d PROVE FALSE
  BY <1>1, <1>2
<1> DEFINE T == {c \in S : c < d}
<1>3. T \in SUBSET Nat /\ T # {}
  BY <1>1, <1>2
<1> HIDE DEF T
<1>4. PICK c \in T : \A e \in T : c <= e
  BY <1>3, LeastNumber
<1>5. c \in S /\ c < d /\ c \in Nat /\ c \in DOMAIN f.blocks
  BY <1>2, <1>3, <1>4 DEF T
<1>6. c # d
  BY <1>5
<1>7. c # 1 /\ \A n \in DOMAIN f.blocks[c].preds : f.blocks[c].preds[n] \in S
  BY <1>1, <1>5, <1>6
<1>8. PICK n \in DOMAIN f.blocks[c].preds : <<f.blocks[c].preds[n], c>> \notin f.back
  BY <1>5, <1>7 DEF Listed
<1>9. f.blocks[c].preds[n] < c
  BY <1>5, <1>8 DEF Listed
<1>10. f.blocks[c].preds[n] \in T
  <2>1. f.blocks[c].preds[n] \in S /\ f.blocks[c].preds[n] \in Nat
    BY <1>2, <1>7
  <2> QED
    BY <1>5, <1>9, <2>1 DEF T
<1> QED
  BY <1>4, <1>5, <1>9, <1>10, <1>2, <1>3

----------------------------------------------------------------------------
(* What an instruction yields and writes depends on what it reads *)

ReadsAll(s) ==
    Reads(At(s))
      \cup (IF At(s).op = "phi" THEN {At(s).in[n].val : n \in Entering(s)} ELSE {})

\* What an instruction reads is a value, and an operand if it has a width.
LEMMA ReadsAllType ==
    ASSUME prog \in Programs, NEW s \in ProgSites, NEW v \in ReadsAll(s)
    PROVE  v \in Value /\ (v.w > 0 => IsOperand(FunctionOf(s), v))
<1> DEFINE f == FunctionOf(s)
           J == At(s)
<1>1. J \in Instr /\ WellTyped(f, J)
  BY SiteFacts
<1> HIDE DEF f, J
<1>2. CASE J.op \in {"store", "return", "trunc", "zext", "sext"}
  <2>1. v = J.val /\ v \in Value
    BY <1>1, <1>2, InstrFacts DEF ReadsAll, Reads, J
  <2> QED
    BY <1>1, <1>2, <2>1 DEF WellTyped, f
<1>3. CASE J.op \in {"add", "sub", "sdiv", "urem", "srem", "ashr", "xor"}
  <2>1. v \in {J.l, J.r} /\ v \in Value
    BY <1>1, <1>3, InstrFacts DEF ReadsAll, Reads, J
  <2> QED
    BY <1>1, <1>3, <2>1 DEF WellTyped, f
<1>4. CASE J.op = "select"
  <2>1. v \in {J.t, J.f} /\ v \in Value
    BY <1>1, <1>4, InstrFacts DEF ReadsAll, Reads, J
  <2> QED
    BY <1>1, <1>4, <2>1 DEF WellTyped, f
<1>5. CASE J.op = "call"
  <2>1. PICK n \in DOMAIN J.args : v = J.args[n]
    BY <1>5 DEF ReadsAll, Reads, J
  <2>2. v \in Value
    BY <1>1, <1>5, <2>1, InstrFacts, SeqFacts
  <2> QED
    BY <1>1, <1>5, <2>1, <2>2 DEF WellTyped, f
<1>6. CASE J.op = "phi"
  <2>1. PICK n \in DOMAIN J.in : v = J.in[n].val
    BY <1>6 DEF ReadsAll, Reads, Entering, J
  <2>2. J.in \in Seq([pred: Nat, val: Value])
    BY <1>1, <1>6, InstrFacts
  <2>3. J.in[n] \in [pred: Nat, val: Value]
    BY <2>1, <2>2, SeqFacts
  <2> QED
    BY <1>1, <1>6, <2>1, <2>3 DEF WellTyped, f
<1>7. CASE J.op \in {"load", "other"}
  BY <1>7 DEF ReadsAll, Reads, J
<1> QED
  BY <1>1, <1>2, <1>3, <1>4, <1>5, <1>6, <1>7, InstrFacts

\* Return and argument identifiers are not empty.
LEMMA IdKinds ==
    \A f, n : RetId(f) # NoId /\ ArgId(f, n) # NoId /\ ArgId(f, n).kind = <<"arg">>
<1>1. <<>> # <<"ret">> /\ <<>> # <<"arg">>
  OBVIOUS
<1>2. \A f, n : /\ RetId(f).kind = <<"ret">> /\ ArgId(f, n).kind = <<"arg">>
                /\ NoId.kind = <<>>
  BY DEF RetId, ArgId, NoId
<1> QED
  BY <1>1, <1>2

\* The identifiers a load or a call reads are among those of the program.
LEMMA ReadIds ==
    ASSUME NEW s \in ProgSites, At(s).w > 0
    PROVE  /\ At(s).op = "load" => <<At(s).id, At(s).w>> \in Uses
           /\ At(s).op = "call" =>
                /\ <<At(s).id, At(s).w>> \in Uses /\ <<At(s).retId, At(s).w>> \in Uses
                /\ \A n \in DOMAIN At(s).callees : <<RetId(At(s).callees[n]), At(s).w>> \in Uses
<1>1. UsesAt(s) \subseteq Uses
  BY DEF Uses
<1>2. At(s).op = "load" => <<At(s).id, At(s).w>> \in UsesAt(s)
  BY DEF UsesAt
<1>3. ASSUME At(s).op = "call"
      PROVE  /\ <<At(s).id, At(s).w>> \in UsesAt(s) /\ <<At(s).retId, At(s).w>> \in UsesAt(s)
             /\ \A n \in DOMAIN At(s).callees : <<RetId(At(s).callees[n]), At(s).w>> \in UsesAt(s)
  <2> DEFINE args == UNION {{<<ArgId(At(s).callees[n], j - 1), At(s).args[j].w>> :
                               j \in {i \in DOMAIN At(s).args : IsInt(At(s).args[i])}} :
                            n \in DOMAIN At(s).callees}
             rets == {<<RetId(At(s).callees[n]), At(s).w>> : n \in DOMAIN At(s).callees}
             both == {<<At(s).id, At(s).w>>, <<At(s).retId, At(s).w>>}
             others == IF At(s).w = 0 THEN {} ELSE both \cup rets
  <2>1. UsesAt(s) = args \cup others
    BY <1>3 DEF UsesAt
  <2>2. others = both \cup rets
    OBVIOUS
  <2> HIDE DEF args, others
  <2> QED
    BY <2>1, <2>2
<1> QED
  BY <1>1, <1>2, <1>3

\* An instruction with a result has a legal width.
LEMMA Positive ==
    ASSUME NEW J \in Instr, J.w # 0
    PROVE  J.w \in Widths /\ J.w > 0
<1>1. J.w \in Widths
  BY InstrFacts
<1>2. J.w \in Nat \ {0}
  BY <1>1, RingFacts
<1> QED
  BY <1>1, <1>2

\* With more values to read, more are yielded and written.
LEMMA Monotone ==
    ASSUME prog \in Programs, NEW s \in ProgSites, NEW P, NEW Q,
           \A v \in ReadsAll(s) : v.kind = "instr" =>
               P.at[<<s[1], s[2], v.b, v.i>>] \subseteq Q.at[<<s[1], s[2], v.b, v.i>>]
    PROVE  /\ Written(P, s) \subseteq Written(Q, s)
           /\ Claimed(s) /\ (\A id \in ProgIds \ {NoId} : P.held[id] \subseteq Q.held[id]) =>
                Computed(P, s) \subseteq Computed(Q, s)
<1> DEFINE J == At(s)
<1>1. ASSUME NEW v \in ReadsAll(s), v.w > 0
      PROVE  Of(P, s, v) \subseteq Of(Q, s, v)
  BY <1>1, ReadsAllType DEF Of, IsOperand
<1>2. J \in Instr /\ WellTyped(FunctionOf(s), J)
  BY SiteFacts
<1>3. ASSUME Claimed(s), \A id \in ProgIds \ {NoId} : P.held[id] \subseteq Q.held[id]
      PROVE  Computed(P, s) \subseteq Computed(Q, s)
  <2>0. ASSUME NEW id, NEW w, id # NoId, <<id, w>> \in Uses
        PROVE  OfId(P, id, w) \subseteq OfId(Q, id, w)
    <3>1. <<id, w>>[1] = id
      OBVIOUS
    <3>2. id \in ProgIds
      BY <2>0, <3>1 DEF ProgIds
    <3> QED
      BY <1>3, <2>0, <3>2 DEF OfId
  <2>1. CASE J.w = 0
    BY <2>1 DEF Computed
  <2>2. CASE J.w # 0 /\ J.op \in {"add", "sub", "sdiv"}
    <3>1. {J.l, J.r} \subseteq ReadsAll(s)
      BY <2>2 DEF ReadsAll, Reads
    <3>2. J.l.w > 0 /\ J.r.w > 0
      BY <1>2, <2>2, InstrFacts, ValueFacts DEF WellTyped
    <3>3. Of(P, s, J.l) \subseteq Of(Q, s, J.l) /\ Of(P, s, J.r) \subseteq Of(Q, s, J.r)
      BY <1>1, <3>1, <3>2
    <3> QED
      BY <2>2, <3>3 DEF Computed
  <2>3. CASE J.w # 0 /\ J.op \in {"trunc", "zext", "sext"}
    <3>1. J.val \in ReadsAll(s)
      BY <2>3 DEF ReadsAll, Reads
    <3>2. J.val.w > 0
      BY <1>2, <2>3, InstrFacts, ValueFacts DEF WellTyped, IsOperand
    <3>3. Of(P, s, J.val) \subseteq Of(Q, s, J.val)
      BY <1>1, <3>1, <3>2
    <3> QED
      BY <2>3, <3>3 DEF Computed
  <2>4. CASE J.w # 0 /\ J.op = "select"
    <3>1. {J.t, J.f} \subseteq ReadsAll(s)
      BY <2>4 DEF ReadsAll, Reads
    <3>2. J.t.w > 0 /\ J.f.w > 0
      BY <1>2, <2>4, InstrFacts, ValueFacts DEF WellTyped
    <3>3. Of(P, s, J.t) \subseteq Of(Q, s, J.t) /\ Of(P, s, J.f) \subseteq Of(Q, s, J.f)
      BY <1>1, <3>1, <3>2
    <3> QED
      BY <2>4, <3>3 DEF Computed
  <2>5. CASE J.w # 0 /\ J.op = "phi"
    <3>1. ASSUME NEW n \in Entering(s)
          PROVE  Of(P, s, J.in[n].val) \subseteq Of(Q, s, J.in[n].val)
      <4>1. J.in[n].val \in ReadsAll(s)
        BY <2>5 DEF ReadsAll
      <4>2. n \in DOMAIN J.in
        BY DEF Entering
      <4>3. J.in \in Seq([pred: Nat, val: Value])
        BY <1>2, <2>5, InstrFacts
      <4>4. J.in[n] \in [pred: Nat, val: Value]
        BY <4>2, <4>3, SeqFacts
      <4>5. J.in[n].val.w > 0
        BY <1>2, <2>5, <4>2, <4>4, ValueFacts DEF WellTyped, IsOperand
      <4> QED
        BY <1>1, <4>1, <4>5
    <3>2. /\ Computed(P, s) = UNION {Of(P, s, J.in[n].val) : n \in Entering(s)}
          /\ Computed(Q, s) = UNION {Of(Q, s, J.in[n].val) : n \in Entering(s)}
      BY <2>5 DEF Computed
    <3> HIDE DEF J
    <3> QED
      BY <3>1, <3>2
  <2>6. CASE J.w # 0 /\ J.op = "load"
    <3>0. J.w > 0
      BY <1>2, <2>6, Positive
    <3>1. J.id # NoId /\ <<J.id, J.w>> \in Uses
      BY <1>3, <2>6, <3>0, ReadIds DEF Claimed
    <3>2. OfId(P, J.id, J.w) \subseteq OfId(Q, J.id, J.w)
      BY <2>0, <3>1
    <3> QED
      BY <2>6, <3>2 DEF Computed
  <2>7. CASE J.w # 0 /\ J.op = "call"
    <3>1. /\ <<J.id, J.w>> \in Uses
          /\ \A n \in DOMAIN J.callees : <<RetId(J.callees[n]), J.w>> \in Uses
      <4>1. J.w > 0
        BY <1>2, <2>7, Positive
      <4> QED
        BY <2>7, <4>1, ReadIds
    <3>2. ReadsArgument(J) => J.id # NoId
      BY IdKinds DEF ReadsArgument, NoId
    <3>3. ReadsArgument(J) => OfId(P, J.id, J.w) \subseteq OfId(Q, J.id, J.w)
      BY <2>0, <3>1, <3>2
    <3>4. \A n \in DOMAIN J.callees :
             OfId(P, RetId(J.callees[n]), J.w) \subseteq OfId(Q, RetId(J.callees[n]), J.w)
      BY <2>0, <3>1, IdKinds
    <3> DEFINE all(R) == UNION {OfId(R, RetId(J.callees[n]), J.w) : n \in DOMAIN J.callees}
    <3>5. all(P) \subseteq all(Q)
      BY <3>4
    <3>6. /\ Computed(P, s) = IF J.asm THEN {} ELSE
                               IF ReadsArgument(J) THEN OfId(P, J.id, J.w) ELSE all(P)
          /\ Computed(Q, s) = IF J.asm THEN {} ELSE
                               IF ReadsArgument(J) THEN OfId(Q, J.id, J.w) ELSE all(Q)
      BY <2>7 DEF Computed
    <3> HIDE DEF all
    <3> QED
      BY <3>3, <3>5, <3>6
  <2>8. CASE J.w # 0 /\ J.op \in {"other", "store", "return"}
    BY <2>8 DEF Computed
  <2> QED
    BY <1>2, <1>3, <2>1, <2>2, <2>3, <2>4, <2>5, <2>6, <2>7, <2>8, InstrFacts DEF Claimed
<1>4. Written(P, s) \subseteq Written(Q, s)
  <2>1. CASE J.op \in {"store", "return"} /\ IsInt(J.val)
    <3>1. J.val \in ReadsAll(s) /\ J.val.w > 0
      BY <2>1 DEF ReadsAll, Reads, IsInt
    <3>2. Of(P, s, J.val) \subseteq Of(Q, s, J.val)
      BY <1>1, <3>1
    <3> QED
      BY <2>1, <3>2 DEF Written
  <2>2. CASE J.op = "call" /\ ~J.asm
    <3>1. ASSUME NEW j \in DOMAIN J.args, IsInt(J.args[j])
          PROVE  Of(P, s, J.args[j]) \subseteq Of(Q, s, J.args[j])
      <4>1. J.args[j] \in ReadsAll(s) /\ J.args[j].w > 0
        BY <2>2, <3>1 DEF ReadsAll, Reads, IsInt
      <4> QED
        BY <1>1, <4>1
    <3> DEFINE js == {i \in DOMAIN J.args : IsInt(J.args[i])}
               ns == {i \in DOMAIN J.callees : J.callees[i] \notin Opaque}
               give(R, n) == UNION {{ArgId(J.callees[n], j - 1)} \X Of(R, s, J.args[j]) : j \in js}
    <3>2. ASSUME NEW n \in ns
          PROVE  give(P, n) \subseteq give(Q, n)
      <4>1. ASSUME NEW j \in js
            PROVE  {ArgId(J.callees[n], j - 1)} \X Of(P, s, J.args[j])
                     \subseteq {ArgId(J.callees[n], j - 1)} \X Of(Q, s, J.args[j])
        BY <3>1
      <4> HIDE DEF js
      <4> QED
        BY <4>1
    <3>3. /\ Written(P, s) = UNION {give(P, n) : n \in ns}
          /\ Written(Q, s) = UNION {give(Q, n) : n \in ns}
      BY <2>2 DEF Written
    <3> HIDE DEF give, ns
    <3> QED
      BY <3>2, <3>3
  <2>3. CASE ~(J.op \in {"store", "return"} /\ IsInt(J.val)) /\ ~(J.op = "call" /\ ~J.asm)
    BY <2>3 DEF Written
  <2> QED
    BY <2>1, <2>2, <2>3
<1> QED
  BY <1>3, <1>4

\* What an instruction reads has been made before it.
LEMMA ReadsEarlier ==
    ASSUME prog \in Programs, Regular, NEW s \in ProgSites,
           NEW v \in ReadsAll(s), v.kind = "instr", v \in Value
    PROVE  v.b < s[3] \/ (v.b = s[3] /\ v.i < s[4])
<1> DEFINE f == FunctionOf(s)
           J == At(s)
<1>1. /\ f \in Function /\ WellFormed(f) /\ J = f.blocks[s[3]].instrs[s[4]]
      /\ s[3] \in DOMAIN f.blocks /\ s[4] \in DOMAIN f.blocks[s[3]].instrs
  BY SiteFacts, SiteParts
<1>2. Verified(f) /\ Listed(f)
  BY SiteParts DEF Regular, FunctionOf
<1>3. v.b \in Nat /\ s[3] \in Nat
  <2>1. v \in [kind: {"instr"}, b: Nat, i: Nat, w: Widths]
    BY DEF Value
  <2> QED
    BY <1>1, <2>1, FunctionFacts
<1> HIDE DEF f
<1>4. CASE v \in Reads(J)
  <2>1. AvailableAt(f, v, s[3], s[4])
    BY <1>1, <1>2, <1>4 DEF Verified
  <2>2. (v.b = s[3] /\ v.i < s[4]) \/ (v.b # s[3] /\ Dominates(f, v.b, s[3]))
    BY <2>1 DEF AvailableAt
  <2> QED
    BY <1>1, <1>2, <1>3, <2>2, DominatesEarlier
<1>5. CASE J.op = "phi" /\ \E n \in Entering(s) : v = J.in[n].val
  <2>1. PICK n \in Entering(s) : v = J.in[n].val
    BY <1>5
  <2>2. n \in DOMAIN J.in /\ <<J.in[n].pred, s[3]>> \notin f.back
    BY <2>1 DEF Entering, f
  <2>3. /\ \E k \in DOMAIN f.blocks[s[3]].preds : f.blocks[s[3]].preds[k] = J.in[n].pred
        /\ AvailableAfter(f, J.in[n].val, J.in[n].pred)
    <3>1. f.blocks[s[3]].instrs[s[4]].op = "phi"
      BY <1>1, <1>5
    <3>2. n \in DOMAIN f.blocks[s[3]].instrs[s[4]].in
      BY <1>1, <2>2
    <3>3. /\ \E k \in DOMAIN f.blocks[s[3]].preds :
                f.blocks[s[3]].preds[k] = f.blocks[s[3]].instrs[s[4]].in[n].pred
          /\ AvailableAfter(f, f.blocks[s[3]].instrs[s[4]].in[n].val,
                            f.blocks[s[3]].instrs[s[4]].in[n].pred)
      BY <1>1, <1>2, <3>1, <3>2 DEF Verified
    <3> QED
      BY <1>1, <3>3
  <2>4. J.in[n].pred < s[3]
    BY <1>1, <1>2, <2>2, <2>3 DEF Listed
  <2>5. Dominates(f, v.b, J.in[n].pred)
    BY <2>1, <2>3 DEF AvailableAfter
  <2>6. v.b <= J.in[n].pred /\ J.in[n].pred \in Nat
    BY <1>1, <1>2, <1>3, <2>5, DominatesEarlier
  <2> QED
    BY <1>3, <2>4, <2>6
<1> QED
  BY <1>4, <1>5 DEF ReadsAll

----------------------------------------------------------------------------
(* The invariant behind the soundness *)

\* The pass has been at instruction i of block b when it is at j of c.
Before(b, i, c, j) == b < c \/ (b = c /\ i < j)

ValueAt(b, i) == [kind |-> "instr", b |-> b, i |-> i, w |-> F.blocks[b].instrs[i].w]

\* The values a map M knows the instructions before j of c to yield.
DefRange(M, c, j, b, i) ==
    IF Before(b, i, c, j) /\ ValueAt(b, i) \in DOMAIN M[b] THEN M[b][ValueAt(b, i)].s ELSE {}

AtFn(M, c, j) ==
    [s \in ProgSites |-> IF s[1] = mod /\ s[2] = fi THEN DefRange(M, c, j, s[3], s[4]) ELSE {}]

HeldIR == [id \in ProgIds |-> IF id \in DOMAIN IntRanges THEN IntRanges[id].s ELSE {}]

Here(M, c, j) == [at |-> AtFn(M, c, j), held |-> HeldIR]

\* What s may yield and leave behind is covered by P.
SiteSound(P, s) ==
    /\ Claimed(s) /\ ~ReadsArgument(At(s)) => Computed(P, s) \subseteq P.at[s]
    /\ \A p \in Written(P, s) : p[1] # NoId => p[2] \in P.held[p[1]]
    /\ At(s).op = "call" /\ ~ReadsArgument(At(s)) /\ At(s).w # 0 /\ At(s).retId # NoId =>
         Computed(P, s) \subseteq P.held[At(s).retId]

\* What IntRanges says of the function k of module m covers what the function
\* does, with some choice of what its instructions yield.
FnSound(m, k) ==
    \E at : \A s \in ProgSites :
        s[1] = m /\ s[2] = k => SiteSound([at |-> at, held |-> HeldIR], s)

\* Another than a back edge has been merged into block c before edge p.
Entered(c, p) ==
    \E n \in DOMAIN F.blocks[c].preds : n < p /\ <<F.blocks[c].preds[n], c>> \notin F.back

\* Only values made before the end of a block are in its map, and of its own
\* those visited.
MapsOwn(M, c, j) ==
    \A b \in DOMAIN F.blocks : \A v \in DOMAIN M[b] :
        v \in Value /\ v.kind = "instr" /\ v.b <= b /\ (v.b = b => Before(b, v.i, c, j))

\* A visited instruction without a range has none in IntRanges either.
MapsComplete(M, c, j) ==
    \A b \in DOMAIN F.blocks : \A i \in DOMAIN F.blocks[b].instrs :
        Before(b, i, c, j) /\ F.blocks[b].instrs[i].w > 0 /\ ValueAt(b, i) \notin DOMAIN M[b]
        => GlobalRange(ValueAt(b, i)).s = {}

\* The map of a block covers what the blocks that dominate it have made.
MapsCarry(M, c, p) ==
    \A b, d \in DOMAIN F.blocks :
        d # b /\ Dominates(F, d, b) /\ (b < c \/ (b = c /\ Entered(c, p)))
        => \A i \in DOMAIN F.blocks[d].instrs :
              ValueAt(d, i) \in DOMAIN M[d] =>
                 /\ ValueAt(d, i) \in DOMAIN M[b]
                 /\ M[d][ValueAt(d, i)].s \subseteq M[b][ValueAt(d, i)].s

SitesSound(M, c, j) ==
    \A s \in ProgSites :
        s[1] = mod /\ s[2] = fi /\ Before(s[3], s[4], c, j) => SiteSound(Here(M, c, j), s)

MapsSound(M, c, p, j) ==
    MapsOwn(M, c, j) /\ MapsComplete(M, c, j) /\ MapsCarry(M, c, p) /\ SitesSound(M, c, j)

\* The sweep over the modules has changed nothing.
Clean == phase = "pass" /\ changed = 0 /\ ~ret /\ ~Changed

Earlier(m, k) == m < mod \/ (m = mod /\ k < fi)

IsFn(m, k) == m \in ModuleNo /\ k \in DOMAIN prog.code[m]

Control ==
    /\ bi = 0 => pi = 1 /\ ii = 1
    /\ bi > 0 /\ ii > 1 => Merged
    /\ ~InModulePass => fi = 1 /\ ~ret /\ ~Changed

\* What the initializers of the modules past hold is known.
Initialized ==
    \A m \in ModuleNo : phase # "init" \/ m < mod =>
        \A n \in DOMAIN prog.init[m] : LET l == prog.init[m][n] IN
            Collected(l) => Knows(IntRanges, [id |-> l.id, r |-> Singleton(l.w, l.c)])

Marked ==
    /\ phase \notin {"final", "done"} => DOMAIN Meta = {}
    /\ \A s \in DOMAIN Meta :
         /\ s \in ProgSites /\ At(s).op \in {"load", "call"}
         /\ At(s).id \in DOMAIN IntRanges \ {NoId}
         /\ Meta[s] = IntRanges[At(s).id]

\* In a sweep that has changed nothing, the functions past are covered and the
\* maps of the current one say what has been seen of it.
PassSound ==
    Regular /\ Clean =>
        /\ \A m, k \in Nat : IsFn(m, k) /\ Earlier(m, k) => FnSound(m, k)
        /\ bi > 0 => MapsSound(FuncVRMs, bi, pi, ii)

FinalSound ==
    Regular /\ phase \in {"final", "done"} =>
        \A m, k \in Nat : IsFn(m, k) => FnSound(m, k)

SoundInv ==
    /\ Control
    /\ WidthsIn(IntRanges, Uses)
    /\ Initialized
    /\ Marked
    /\ PassSound
    /\ FinalSound

----------------------------------------------------------------------------
(* The program does not change, and so neither does what it means *)

\* Sites and instructions stay with the program,
LEMMA SameSites ==
    ASSUME prog' = prog
    PROVE  /\ ProgSites' = ProgSites
           /\ \A s : At(s)' = At(s) /\ FunctionOf(s)' = FunctionOf(s)
<1>1. \A m : Sites(m)' = Sites(m)
  BY DEF Sites
<1>2. ProgSites' = ProgSites
  BY <1>1 DEF ProgSites
<1> QED
  BY <1>2 DEF At, FunctionOf

\* and so do the identifiers,
LEMMA SameUses ==
    ASSUME prog' = prog
    PROVE  Uses' = Uses /\ ProgIds' = ProgIds
<1>1. ProgSites' = ProgSites /\ \A s : At(s)' = At(s) /\ FunctionOf(s)' = FunctionOf(s)
  BY SameSites
<1>2. ASSUME NEW s PROVE UsesAt(s)' = UsesAt(s)
  <2> DEFINE U(J, f) ==
        CASE J.op = "store" /\ IsInt(J.val) /\ J.id # NoId -> {<<J.id, J.val.w>>}
          [] J.op = "return" /\ IsInt(J.val) -> {<<RetId(f.fn), J.val.w>>}
          [] J.op = "load" /\ J.w > 0 -> {<<J.id, J.w>>}
          [] J.op = "call" ->
                (UNION {{<<ArgId(J.callees[n], j - 1), J.args[j].w>> :
                          j \in {i \in DOMAIN J.args : IsInt(J.args[i])}} :
                       n \in DOMAIN J.callees})
                  \cup (IF J.w = 0 THEN {}
                        ELSE {<<J.id, J.w>>, <<J.retId, J.w>>}
                               \cup {<<RetId(J.callees[n]), J.w>> : n \in DOMAIN J.callees})
          [] OTHER -> {}
  <2>1. UsesAt(s) = U(At(s), FunctionOf(s)) /\ UsesAt(s)' = U(At(s)', FunctionOf(s)')
    BY DEF UsesAt
  <2> HIDE DEF U
  <2> QED
    BY <1>1, <2>1
<1>3. Leaves' = Leaves
  BY DEF Leaves
<1>4. Uses' = Uses
  BY <1>1, <1>2, <1>3 DEF Uses
<1> QED
  BY <1>4 DEF ProgIds

\* what is sound of a site,
LEMMA SameSoundness ==
    ASSUME prog' = prog
    PROVE  \A P, s : SiteSound(P, s)' <=> SiteSound(P, s)
<1>1. ProgSites' = ProgSites /\ \A s : At(s)' = At(s) /\ FunctionOf(s)' = FunctionOf(s)
  BY SameSites
<1>2. ASSUME NEW P, NEW s PROVE Computed(P, s)' = Computed(P, s)
  <2> DEFINE C(J, E) ==
        IF J.w = 0 THEN {} ELSE
        CASE J.op = "add" -> {(a + b) % 2^J.w : a \in Of(P, s, J.l), b \in Of(P, s, J.r)}
          [] J.op = "sub" -> {(a - b) % 2^J.w : a \in Of(P, s, J.l), b \in Of(P, s, J.r)}
          [] J.op = "sdiv" ->
                {Quotient(J.w, a, b) : a \in Of(P, s, J.l), b \in Of(P, s, J.r) \ {0}}
          [] J.op \in {"trunc", "zext"} -> {a % 2^J.w : a \in Of(P, s, J.val)}
          [] J.op = "sext" -> {SignExtended(J.val.w, J.w, a) : a \in Of(P, s, J.val)}
          [] J.op = "select" -> Of(P, s, J.t) \cup Of(P, s, J.f)
          [] J.op = "phi" -> UNION {Of(P, s, J.in[n].val) : n \in E}
          [] J.op = "load" -> OfId(P, J.id, J.w)
          [] J.op = "call" ->
                IF J.asm THEN {}
                ELSE IF ReadsArgument(J) THEN OfId(P, J.id, J.w)
                ELSE UNION {OfId(P, RetId(J.callees[n]), J.w) : n \in DOMAIN J.callees}
          [] OTHER -> Ring(J.w)
  <2>1. /\ Computed(P, s) = C(At(s), Entering(s))
        /\ Computed(P, s)' = C(At(s)', Entering(s)')
    BY DEF Computed
  <2>2. Entering(s)' = Entering(s)
    BY <1>1 DEF Entering
  <2> HIDE DEF C
  <2> QED
    BY <1>1, <2>1, <2>2
<1>3. ASSUME NEW P, NEW s PROVE Written(P, s)' = Written(P, s)
  <2> DEFINE W(J, f) ==
        CASE J.op = "store" /\ IsInt(J.val) /\ J.id # NoId -> {J.id} \X Of(P, s, J.val)
          [] J.op = "return" /\ IsInt(J.val) -> {RetId(f.fn)} \X Of(P, s, J.val)
          [] J.op = "call" /\ ~J.asm ->
                UNION {UNION {{ArgId(J.callees[n], j - 1)} \X Of(P, s, J.args[j]) :
                              j \in {i \in DOMAIN J.args : IsInt(J.args[i])}} :
                       n \in {i \in DOMAIN J.callees : J.callees[i] \notin Opaque}}
          [] OTHER -> {}
  <2>1. Written(P, s) = W(At(s), FunctionOf(s)) /\ Written(P, s)' = W(At(s)', FunctionOf(s)')
    BY DEF Written
  <2> HIDE DEF W
  <2> QED
    BY <1>1, <2>1
<1>4. \A s : Claimed(s)' <=> Claimed(s)
  BY <1>1 DEF Claimed
<1> QED
  BY <1>1, <1>2, <1>3, <1>4 DEF SiteSound

\* and what the pass relies on.
LEMMA SameRegular ==
    ASSUME prog' = prog
    PROVE  Regular' <=> Regular
<1>1. ProgSites' = ProgSites /\ (\A s : At(s)' = At(s)) /\ Uses' = Uses
  BY SameSites, SameUses
<1>2. Identified' <=> Identified
  BY <1>1 DEF Identified
<1> QED
  BY <1>2 DEF Regular

----------------------------------------------------------------------------
(* The sites of the current function *)

\* An instruction of the current function is a site,
LEMMA SiteHere ==
    ASSUME Sane, NEW b \in DOMAIN F.blocks, NEW i \in DOMAIN F.blocks[b].instrs
    PROVE  /\ <<mod, fi, b, i>> \in ProgSites
           /\ At(<<mod, fi, b, i>>) = F.blocks[b].instrs[i]
           /\ FunctionOf(<<mod, fi, b, i>>) = F
           /\ b \in Nat \ {0} /\ i \in Nat \ {0}
<1>1. mod \in ModuleNo /\ fi \in DOMAIN prog.code[mod]
  BY ProgramFacts, SeqFacts DEF Sane, Functions
<1>2. <<mod, fi, b, i>> \in ProgSites
  BY <1>1, IsSite DEF F, Functions
<1>3. b \in Nat \ {0} /\ i \in Nat \ {0}
  <2>1. F \in Function
    BY TheFunction
  <2>2. b \in 1..Len(F.blocks) /\ Len(F.blocks) \in Nat /\ F.blocks[b].instrs \in Seq(Instr)
    BY <2>1, FunctionFacts
  <2>3. i \in 1..Len(F.blocks[b].instrs) /\ Len(F.blocks[b].instrs) \in Nat
    BY <2>2, SeqFacts
  <2> QED
    BY <2>2, <2>3
<1> QED
  BY <1>2, <1>3 DEF At, FunctionOf, F, Functions

\* and the sites of the current function are its instructions.
LEMMA HereSite ==
    ASSUME Sane, NEW s \in ProgSites, s[1] = mod, s[2] = fi
    PROVE  /\ s = <<mod, fi, s[3], s[4]>>
           /\ s[3] \in DOMAIN F.blocks /\ s[4] \in DOMAIN F.blocks[s[3]].instrs
           /\ FunctionOf(s) = F /\ At(s) = F.blocks[s[3]].instrs[s[4]]
<1>1. FunctionOf(s) = F
  BY DEF FunctionOf, F, Functions
<1> QED
  BY <1>1, SiteParts, SiteFacts DEF Sane

\* The current function is as the pass relies on.
LEMMA RegularHere ==
    ASSUME Sane, Regular
    PROVE  Verified(F) /\ Listed(F)
<1>1. mod \in ModuleNo /\ fi \in DOMAIN prog.code[mod]
  BY ProgramFacts, SeqFacts DEF Sane, Functions
<1> QED
  BY <1>1 DEF Regular, F, Functions

\* An operand is the value of the instruction it names.
LEMMA OperandHere ==
    ASSUME Sane, NEW v \in Value, v.kind = "instr", IsOperand(F, v)
    PROVE  /\ v.b \in DOMAIN F.blocks /\ v.i \in DOMAIN F.blocks[v.b].instrs
           /\ v = ValueAt(v.b, v.i) /\ v.w \in Widths /\ v.w > 0
           /\ F.blocks[v.b].instrs[v.i].w = v.w
<1>1. /\ v.b \in DOMAIN F.blocks /\ v.i \in DOMAIN F.blocks[v.b].instrs
      /\ v = [kind |-> "instr", b |-> v.b, i |-> v.i, w |-> F.blocks[v.b].instrs[v.i].w]
  BY OperandParts
<1>2. v.w \in Widths
  BY ValueFacts
<1>3. v.w \in Nat \ {0}
  BY <1>2, RingFacts
<1> QED
  BY <1>1, <1>2, <1>3 DEF ValueAt, IsOperand

\* Instructions are told apart by their values.
LEMMA ValueAtFacts ==
    ASSUME NEW b, NEW i
    PROVE  /\ ValueAt(b, i).kind = "instr" /\ ValueAt(b, i).b = b /\ ValueAt(b, i).i = i
           /\ ValueAt(b, i).w = F.blocks[b].instrs[i].w
           /\ \A d, k : ValueAt(b, i) = ValueAt(d, k) => b = d /\ i = k
BY DEF ValueAt

----------------------------------------------------------------------------
(* What IntRanges holds of an identifier *)

\* IntRanges has a range of the width an identifier is used with.
LEMMA OneWidth ==
    ASSUME Identified, NEW IR, WidthsIn(IR, Uses),
           NEW id, NEW w, <<id, w>> \in Uses, id # NoId, id \in DOMAIN IR
    PROVE  IR[id].w = w
<1>1. <<id, IR[id].w>> \in Uses
  BY DEF WidthsIn
<1>2. \A u, v \in Uses : u[1] = v[1] /\ u[1] # NoId => u[2] = v[2]
  BY DEF Identified
<1>3. <<id, IR[id].w>>[1] = <<id, w>>[1] /\ <<id, IR[id].w>>[1] # NoId
  OBVIOUS
<1>4. <<id, IR[id].w>>[2] = <<id, w>>[2]
  BY <1>1, <1>2, <1>3
<1> QED
  BY <1>4

\* An identifier that is used is one of the program.
LEMMA IsProgId ==
    ASSUME NEW id, NEW w, <<id, w>> \in Uses
    PROVE  id \in ProgIds
<1>1. <<id, w>>[1] = id
  OBVIOUS
<1> QED
  BY <1>1 DEF ProgIds

\* What is looked up under an identifier is what it holds.
LEMMA HeldFound ==
    ASSUME IRType(IntRanges), Identified, WidthsIn(IntRanges, Uses),
           NEW id, NEW w \in Widths, <<id, w>> \in Uses, id # NoId
    PROVE  /\ Found(IntRanges, id, w) \in RangeOf(w)
           /\ Found(IntRanges, id, w) \in CRange /\ Found(IntRanges, id, w).w = w
           /\ HeldIR[id] = Found(IntRanges, id, w).s
<1>1. id \in ProgIds
  BY IsProgId
<1>2. CASE id \in DOMAIN IntRanges
  <2>1. IntRanges[id].w = w /\ IntRanges[id] \in CRange
    BY <1>2, OneWidth DEF IRType
  <2>2. Found(IntRanges, id, w) = IntRanges[id]
    BY <1>2 DEF Found
  <2>3. HeldIR[id] = IntRanges[id].s
    BY <1>1, <1>2 DEF HeldIR
  <2> QED
    BY <2>1, <2>2, <2>3, CRangeWidth
<1>3. CASE id \notin DOMAIN IntRanges
  <2>1. Found(IntRanges, id, w) = EmptyRange(w)
    BY <1>3 DEF Found
  <2>2. HeldIR[id] = {}
    BY <1>1, <1>3 DEF HeldIR
  <2> QED
    BY <2>1, <2>2, SimpleRanges, InCRange
<1> QED
  BY <1>2, <1>3

\* An update that is known is in what the identifier holds.
LEMMA KnownHeld ==
    ASSUME Identified, WidthsIn(IntRanges, Uses),
           NEW id, NEW r, <<id, r.w>> \in Uses, id # NoId, Knows(IntRanges, [id |-> id, r |-> r])
    PROVE  r.s \subseteq HeldIR[id]
<1>1. CASE r.s = {}
  BY <1>1
<1>2. CASE r.s # {}
  <2>1. id \in DOMAIN IntRanges
    BY <1>2 DEF Knows
  <2>2. IntRanges[id].w = r.w
    BY <2>1, OneWidth
  <2>3. r.s \subseteq IntRanges[id].s
    BY <1>2, <2>2 DEF Knows
  <2> QED
    BY <2>1, <2>3, IsProgId DEF HeldIR
<1> QED
  BY <1>1, <1>2

\* The range a load or a call gets from IntRanges covers what it may yield.
LEMMA GlobalCovers ==
    ASSUME Sane, Identified, WidthsIn(IntRanges, Uses),
           NEW b \in DOMAIN F.blocks, NEW i \in DOMAIN F.blocks[b].instrs,
           F.blocks[b].instrs[i].op \in {"load", "call"}, F.blocks[b].instrs[i].w # 0,
           Claimed(<<mod, fi, b, i>>), ~ReadsArgument(F.blocks[b].instrs[i]),
           NEW P, P.held = HeldIR
    PROVE  Computed(P, <<mod, fi, b, i>>) \subseteq GlobalRange(ValueAt(b, i)).s
<1> DEFINE J == F.blocks[b].instrs[i]
           s == <<mod, fi, b, i>>
           w == J.w
<1>1. s \in ProgSites /\ At(s) = J
  BY SiteHere
<1>2. J \in Instr /\ w \in Widths /\ w > 0
  BY TheInstruction, Positive
<1>3. InstrAt(ValueAt(b, i)) = J /\ ValueAt(b, i).w = w
  BY DEF InstrAt, ValueAt
<1>4. IRType(IntRanges)
  BY DEF Sane
<1> HIDE DEF J, s
<1>5. CASE J.op = "load"
  <2>1. J.id # NoId /\ <<J.id, w>> \in Uses
    BY <1>1, <1>2, <1>5, ReadIds DEF Claimed, s
  <2>2. Computed(P, s) = OfId(P, J.id, w)
    BY <1>1, <1>2, <1>5 DEF Computed
  <2>3. /\ Found(IntRanges, J.id, w).w = w
        /\ P.held[J.id] = Found(IntRanges, J.id, w).s
    BY <1>2, <1>4, <2>1, HeldFound
  <2>4. zextOrTrunc(Found(IntRanges, J.id, w), w) = Found(IntRanges, J.id, w)
    BY <2>3 DEF zextOrTrunc
  <2>5. GlobalRange(ValueAt(b, i)) =
          IF J.id \in SourceIds THEN FullRange(w) ELSE Found(IntRanges, J.id, w)
    BY <1>3, <1>5, <2>1, <2>4 DEF GlobalRange
  <2> QED
    BY <1>2, <2>2, <2>3, <2>5, SimpleRanges DEF OfId, s
<1>6. CASE J.op = "call" /\ J.asm
  BY <1>1, <1>6 DEF Computed, s
<1>7. CASE J.op = "call" /\ ~J.asm
  <2> DEFINE fs == DOMAIN J.callees
             ids(n) == RetId(J.callees[n])
             rs == [n \in fs |-> Found(IntRanges, ids(n), w)]
  <2>1. Len(J.callees) \in Nat /\ fs = 1..Len(J.callees)
    BY <1>2, <1>7, InstrFacts, SeqFacts
  <2>2. ASSUME NEW n \in fs
        PROVE  /\ Found(IntRanges, ids(n), w) \in CRange /\ Found(IntRanges, ids(n), w).w = w
               /\ P.held[ids(n)] = Found(IntRanges, ids(n), w).s
               /\ P.held[ids(n)] \subseteq Ring(w)
    <3>1. <<ids(n), w>> \in Uses /\ ids(n) # NoId
      BY <1>1, <1>2, <1>7, <2>2, ReadIds, IdKinds
    <3> QED
      BY <1>2, <1>4, <3>1, HeldFound, InCRange
  <2>3. Computed(P, s) = UNION {OfId(P, ids(n), w) : n \in fs}
    BY <1>1, <1>2, <1>7 DEF Computed, J
  <2>4. CASE \E n \in fs : ids(n) \in SourceIds
    <3>1. GlobalRange(ValueAt(b, i)) = FullRange(w)
      BY <1>3, <1>7, <2>4 DEF GlobalRange
    <3>2. \A n \in fs : OfId(P, ids(n), w) \subseteq Ring(w)
      BY <2>2 DEF OfId
    <3> QED
      BY <1>2, <2>3, <3>1, <3>2, SimpleRanges DEF s
  <2>5. CASE ~\E n \in fs : ids(n) \in SourceIds
    <3>1. GlobalRange(ValueAt(b, i)) = UnionOf(w, rs)
      BY <1>3, <1>7, <2>5 DEF GlobalRange
    <3>2. Len(rs) = Len(J.callees)
      BY <2>1, LenOfNumbered
    <3>3. \A n \in 1..Len(rs) : rs[n] \in CRange /\ rs[n].w = w
      BY <2>1, <2>2, <3>2
    <3>4. \A n \in fs : OfId(P, ids(n), w) = rs[n].s
      BY <2>2, <2>5 DEF OfId
    <3> HIDE DEF rs
    <3>5. \A n \in 1..Len(rs) : rs[n].s \subseteq UnionOf(w, rs).s
      BY <1>2, <2>1, <3>2, <3>3, UnionOfCovers
    <3> QED
      BY <2>1, <2>3, <3>1, <3>2, <3>4, <3>5 DEF s
  <2> QED
    BY <2>4, <2>5
<1> QED
  BY <1>5, <1>6, <1>7 DEF J, s

----------------------------------------------------------------------------
(* The maps of the blocks *)

\* A block dominates itself.
LEMMA DominatesSelf ==
    ASSUME NEW f, NEW b \in DOMAIN f.blocks
    PROVE  Dominates(f, b, b)
<1>1. {b} \in SUBSET DOMAIN f.blocks /\ b \in {b} /\ {b} \ {b} = {}
  OBVIOUS
<1> QED
  BY <1>1 DEF Dominates

\* Block b is done when the pass is at edge p of block c, or its edges are.
Settled(b, c, p) == b < c \/ (b = c /\ p > Len(F.blocks[c].preds))

\* The map of a block that is settled covers what dominates it has made.
LEMMA Carried ==
    ASSUME Sane, Regular, NEW M, NEW c, NEW p \in Nat, MapsCarry(M, c, p),
           NEW b \in DOMAIN F.blocks, Settled(b, c, p),
           NEW d \in DOMAIN F.blocks, Dominates(F, d, b),
           NEW i \in DOMAIN F.blocks[d].instrs, ValueAt(d, i) \in DOMAIN M[d]
    PROVE  /\ ValueAt(d, i) \in DOMAIN M[b]
           /\ M[d][ValueAt(d, i)].s \subseteq M[b][ValueAt(d, i)].s
<1>1. CASE d = b
  BY <1>1
<1>2. CASE d # b
  <2>1. b < c \/ (b = c /\ Entered(c, p))
    <3> SUFFICES ASSUME b = c, p > Len(F.blocks[c].preds)
                 PROVE  Entered(c, p)
      BY DEF Settled
    <3>1. b # 1
      BY <1>2, DominatesPreds
    <3>2. PICK n \in DOMAIN F.blocks[b].preds : <<F.blocks[b].preds[n], b>> \notin F.back
      BY <3>1, RegularHere DEF Listed
    <3>3. F.blocks[b].preds \in Seq(Nat)
      BY TheFunction, FunctionFacts
    <3>4. n \in 1..Len(F.blocks[b].preds) /\ Len(F.blocks[b].preds) \in Nat
      BY <3>2, <3>3, SeqFacts
    <3>5. n < p
      BY <3>4
    <3> QED
      BY <3>2, <3>5 DEF Entered
  <2> QED
    BY <1>2, <2>1 DEF MapsCarry
<1> QED
  BY <1>1, <1>2

\* There is nothing new to be found of a value that is there already.
LEMMA NothingFresh ==
    ASSUME Sane, Regular, NEW M, NEW c, NEW p \in Nat, NEW j,
           MapsCarry(M, c, p), MapsComplete(M, c, j),
           NEW b \in DOMAIN F.blocks, Settled(b, c, p),
           NEW v \in Value, v.kind = "instr", IsOperand(F, v), Dominates(F, v.b, b),
           Before(v.b, v.i, c, j), v \notin DOMAIN M[b]
    PROVE  GlobalRange(v).s = {}
<1>1. /\ v.b \in DOMAIN F.blocks /\ v.i \in DOMAIN F.blocks[v.b].instrs
      /\ v = ValueAt(v.b, v.i) /\ F.blocks[v.b].instrs[v.i].w > 0
  BY OperandHere
<1>2. ValueAt(v.b, v.i) \notin DOMAIN M[v.b]
  BY <1>1, Carried
<1> QED
  BY <1>1, <1>2 DEF MapsComplete

\* The range of an operand covers its values.
LEMMA OperandCovers ==
    ASSUME Sane, Regular, NEW M, MapsType(M), NEW c, NEW p \in Nat, NEW j,
           MapsCarry(M, c, p),
           NEW b \in DOMAIN F.blocks, Settled(b, c, p),
           NEW v \in Value, IsOperand(F, v), v.kind = "instr" => Dominates(F, v.b, b),
           NEW s, s[1] = mod, s[2] = fi
    PROVE  Of(Here(M, c, j), s, v) \subseteq getRange(M, b, v).s
<1>1. CASE v.kind = "const"
  BY <1>1 DEF Of, getRange, Singleton
<1>2. CASE v.kind # "const"
  <2>1. /\ v.kind = "instr" /\ v.b \in DOMAIN F.blocks /\ v.i \in DOMAIN F.blocks[v.b].instrs
        /\ v = ValueAt(v.b, v.i)
    BY <1>2, OperandHere DEF IsOperand
  <2>2. <<mod, fi, v.b, v.i>> \in ProgSites
    BY <2>1, SiteHere
  <2>3. Of(Here(M, c, j), s, v) = AtFn(M, c, j)[<<mod, fi, v.b, v.i>>]
    BY <1>2 DEF Of, Here
  <2>4. AtFn(M, c, j)[<<mod, fi, v.b, v.i>>] = DefRange(M, c, j, v.b, v.i)
    <3>1. LET z == <<mod, fi, v.b, v.i>>
          IN z[1] = mod /\ z[2] = fi /\ z[3] = v.b /\ z[4] = v.i
      OBVIOUS
    <3> QED
      BY <2>2, <3>1 DEF AtFn
  <2>5. CASE ValueAt(v.b, v.i) \in DOMAIN M[v.b]
    <3>1. v \in DOMAIN M[b] /\ M[v.b][v].s \subseteq M[b][v].s
      BY <2>1, <2>5, Carried
    <3>2. getRange(M, b, v) = M[b][v]
      BY <1>2, <3>1 DEF getRange
    <3>3. DefRange(M, c, j, v.b, v.i) \subseteq M[v.b][v].s
      BY <2>1 DEF DefRange
    <3> QED
      BY <2>3, <2>4, <3>1, <3>2, <3>3
  <2>6. CASE ValueAt(v.b, v.i) \notin DOMAIN M[v.b]
    BY <2>3, <2>4, <2>6 DEF DefRange
  <2> QED
    BY <2>5, <2>6
<1> QED
  BY <1>1, <1>2

\* Pair n, j of l callees and k arguments is number (n - 1) * k + j.
LEMMA PairNumber ==
    ASSUME NEW k \in Nat, NEW l \in Nat, NEW n \in 1..l, NEW j \in 1..k
    PROVE  LET e == (n - 1) * k + j
           IN /\ e \in 1..(k * l)
              /\ ((e - 1) \div k) + 1 = n
              /\ (e - 1) % k = j - 1
<1> DEFINE q == n - 1
           e == q * k + j
<1>1. q \in Nat /\ q + 1 <= l /\ k > 0 /\ q * k \in Nat /\ k * l \in Nat
  OBVIOUS
<1>2. (l - (q + 1)) * k \in Nat
  <2>1. l - (q + 1) \in Nat
    BY <1>1
  <2> HIDE DEF q
  <2> QED
    BY <2>1
<1>3. (l - (q + 1)) * k = k * l - q * k - k
  BY <1>1
<1>4. e \in 1..(k * l)
  <2> HIDE DEF q
  <2> QED
    BY <1>1, <1>2, <1>3
<1>5. e - 1 = k * q + (j - 1) /\ j - 1 \in 0..(k - 1)
  BY <1>1
<1>6. (e - 1) \div k = q /\ (e - 1) % k = j - 1
  <2> HIDE DEF q
  <2>1. \A r \in 0..(k - 1) : (k * q + r) \div k = q /\ (k * q + r) % k = r
    BY <1>1
  <2> QED
    BY <1>5, <2>1
<1> QED
  BY <1>1, <1>4, <1>6

----------------------------------------------------------------------------
(* The updates of an instruction *)

\* What a call hands to argument j of callee f, and to itself.
Handed(f, j) ==
    [id |-> ArgId(I.callees[f], j - 1),
     r |-> IF I.callees[f] \in Opaque \/ ~IsInt(I.args[j]) THEN EmptyRange(0)
           ELSE getRange(FuncVRMs, bi, I.args[j])]

Own == [id |-> I.retId, r |-> getRange(FuncVRMs, bi, This)]

\* A call hands over each argument to each callee, and its own result.
LEMMA CallUpdatesAre ==
    ASSUME AtInstr, I.op = "call"
    PROVE  LET ups == CallUpdates(FuncVRMs, I)
           IN /\ \A n \in 1..Len(ups) :
                   \/ \E f \in DOMAIN I.callees, j \in DOMAIN I.args : ups[n] = Handed(f, j)
                   \/ I.w # 0 /\ ups[n] = Own
              /\ \A f \in DOMAIN I.callees, j \in DOMAIN I.args :
                   \E n \in 1..Len(ups) : ups[n] = Handed(f, j)
              /\ I.w # 0 => \E n \in 1..Len(ups) : ups[n] = Own
<1> DEFINE ups == CallUpdates(FuncVRMs, I)
           k == Len(I.args)
           l == Len(I.callees)
           callee(n) == ((n - 1) \div k) + 1
           number(n) == (n - 1) % k
           A == [n \in 1..(k * l) |->
                   [id |-> ArgId(I.callees[callee(n)], number(n)),
                    r |-> IF I.callees[callee(n)] \in Opaque \/ ~IsInt(I.args[number(n) + 1])
                          THEN EmptyRange(0)
                          ELSE getRange(FuncVRMs, bi, I.args[number(n) + 1])]]
           B == IF I.w = 0 THEN <<>> ELSE <<Own>>
<1>1. /\ k \in Nat /\ DOMAIN I.args = 1..k
      /\ l \in Nat /\ DOMAIN I.callees = 1..l
  BY CurrentFacts, InstrFacts, SeqFacts
<1>2. ups = A \o B
  BY DEF CallUpdates, Own, This
<1>3. k * l \in Nat
  <2> HIDE DEF k, l
  <2> QED
    BY <1>1
<1>4. ASSUME NEW n \in 1..(k * l)
      PROVE  /\ callee(n) \in DOMAIN I.callees /\ number(n) + 1 \in DOMAIN I.args
             /\ A[n] = Handed(callee(n), number(n) + 1)
  <2>1. k # 0
    <3> HIDE DEF k, l
    <3>1. k = 0 => k * l = 0
      BY <1>1
    <3> QED
      BY <3>1
  <2>2. callee(n) \in 1..l /\ number(n) + 1 \in 1..k /\ number(n) \in Nat
    <3> HIDE DEF k, l
    <3> QED
      BY <1>1, <2>1, PairIndex
  <2>3. (number(n) + 1) - 1 = number(n)
    <3> HIDE DEF number
    <3> QED
      BY <2>2
  <2>4. A[n] = Handed(callee(n), number(n) + 1)
    BY <2>3 DEF Handed
  <2> QED
    BY <1>1, <2>2, <2>4
<1>5. ASSUME NEW f \in DOMAIN I.callees, NEW j \in DOMAIN I.args
      PROVE  \E n \in 1..(k * l) : A[n] = Handed(f, j)
  <2> DEFINE e == (f - 1) * k + j
  <2>1. e \in 1..(k * l) /\ callee(e) = f /\ number(e) = j - 1
    <3>1. f \in 1..l /\ j \in 1..k
      BY <1>1
    <3> HIDE DEF k, l, callee, number, e
    <3>2. /\ (f - 1) * k + j \in 1..(k * l)
          /\ ((((f - 1) * k + j) - 1) \div k) + 1 = f
          /\ (((f - 1) * k + j) - 1) % k = j - 1
      BY <1>1, <3>1, PairNumber, ZenonT(60)
    <3> QED
      BY <3>2, Zenon DEF e, callee, number
  <2> HIDE DEF e, k, l, callee, number
  <2>2. A[e] = Handed(callee(e), number(e) + 1)
    BY <1>4, <2>1
  <2>3. number(e) + 1 = j
    BY <1>1, <2>1
  <2> QED
    BY <2>1, <2>2, <2>3
<1>6. /\ Len(ups) = k * l + (IF I.w = 0 THEN 0 ELSE 1)
      /\ \A n \in 1..(k * l) : ups[n] = A[n]
      /\ I.w # 0 => ups[k * l + 1] = Own
  <2> DEFINE S == {A[n] : n \in 1..(k * l)} \cup {Own}
  <2> HIDE DEF k, l
  <2>1. Len(A) = k * l
    BY <1>3, LenOfNumbered
  <2>2. A \in Seq(S)
    <3>1. A = [n \in 1..(k * l) |-> A[n]]
      OBVIOUS
    <3>2. \A n \in 1..(k * l) : A[n] \in S
      OBVIOUS
    <3> HIDE DEF A, S
    <3>3. A \in [1..(k * l) -> S]
      BY <3>1, <3>2
    <3> QED
      BY <1>3, <3>3
  <2>3. B \in Seq(S) /\ Len(B) = (IF I.w = 0 THEN 0 ELSE 1) /\ (I.w # 0 => B[1] = Own)
    <3>1. Own \in S
      OBVIOUS
    <3> HIDE DEF S
    <3>2. CASE I.w = 0
      BY <3>2
    <3>3. CASE I.w # 0
      <4>1. B = <<Own>>
        BY <3>3
      <4> HIDE DEF B
      <4> QED
        BY <3>1, <3>3, <4>1
    <3> QED
      BY <3>2, <3>3
  <2> HIDE DEF A, B, S, ups
  <2> QED
    BY <1>2, <1>3, <2>1, <2>2, <2>3
<1> HIDE DEF A, B, ups, callee, number
<1>7. ASSUME NEW n \in 1..Len(ups)
      PROVE  \/ \E f \in DOMAIN I.callees, j \in DOMAIN I.args : ups[n] = Handed(f, j)
             \/ I.w # 0 /\ ups[n] = Own
  <2> HIDE DEF k, l
  <2>1. n \in 1..(k * l) \/ (I.w # 0 /\ n = k * l + 1)
    BY <1>3, <1>6
  <2>2. CASE n \in 1..(k * l)
    BY <1>4, <1>6, <2>2
  <2>3. CASE I.w # 0 /\ n = k * l + 1
    BY <1>6, <2>3
  <2> QED
    BY <2>1, <2>2, <2>3
<1>8. ASSUME NEW f \in DOMAIN I.callees, NEW j \in DOMAIN I.args
      PROVE  \E n \in 1..Len(ups) : ups[n] = Handed(f, j)
  <2> HIDE DEF k, l
  <2>1. PICK n \in 1..(k * l) : A[n] = Handed(f, j)
    BY <1>5
  <2>2. n \in 1..Len(ups)
    BY <1>3, <1>6
  <2> QED
    BY <1>6, <2>1, <2>2
<1>9. ASSUME I.w # 0 PROVE \E n \in 1..Len(ups) : ups[n] = Own
  <2> HIDE DEF k, l
  <2>1. k * l + 1 \in 1..Len(ups)
    BY <1>3, <1>6, <1>9
  <2> QED
    BY <1>6, <1>9, <2>1
<1> QED
  BY <1>7, <1>8, <1>9 DEF ups

\* Every update that says something is of an identifier the program uses, and
\* of its width.
LEMMA UpdatesUse ==
    ASSUME AtInstr, NEW n \in 1..Len(Updates(FuncVRMs, I)),
           Updates(FuncVRMs, I)[n].r.s # {}
    PROVE  <<Updates(FuncVRMs, I)[n].id, Updates(FuncVRMs, I)[n].r.w>> \in Uses
<1> DEFINE s == <<mod, fi, bi, ii>>
           u == Updates(FuncVRMs, I)[n]
<1>1. /\ s \in ProgSites /\ At(s) = I /\ FunctionOf(s) = F
  BY SiteHere DEF AtInstr, I, BB
<1>2. I \in Instr /\ WellTyped(F, I)
  BY CurrentFacts
<1>3. UsesAt(s) \subseteq Uses
  BY <1>1 DEF Uses
<1> HIDE DEF s
<1>4. CASE I.op = "store" /\ IsInt(I.val) /\ I.id # NoId
  <2>1. Updates(FuncVRMs, I) = <<[id |-> I.id, r |-> getRange(FuncVRMs, bi, I.val)]>>
    BY <1>4 DEF Updates
  <2>2. u = [id |-> I.id, r |-> getRange(FuncVRMs, bi, I.val)]
    BY <2>1
  <2>3. I.val \in Value /\ IsOperand(F, I.val)
    BY <1>2, <1>4, InstrFacts DEF WellTyped, IsInt
  <2>4. u.id = I.id /\ u.r.w = I.val.w
    BY <2>2, <2>3, OperandRange
  <2>5. <<I.id, I.val.w>> \in UsesAt(s)
    BY <1>1, <1>4 DEF UsesAt
  <2> QED
    BY <1>3, <2>4, <2>5
<1>5. CASE I.op = "return" /\ IsInt(I.val)
  <2>1. Updates(FuncVRMs, I) = <<[id |-> RetId(F.fn), r |-> getRange(FuncVRMs, bi, I.val)]>>
    BY <1>5 DEF Updates
  <2>2. u = [id |-> RetId(F.fn), r |-> getRange(FuncVRMs, bi, I.val)]
    BY <2>1
  <2>3. I.val \in Value /\ IsOperand(F, I.val)
    BY <1>2, <1>5, InstrFacts DEF WellTyped, IsInt
  <2>4. u.id = RetId(F.fn) /\ u.r.w = I.val.w
    BY <2>2, <2>3, OperandRange
  <2>5. <<RetId(F.fn), I.val.w>> \in UsesAt(s)
    BY <1>1, <1>5 DEF UsesAt
  <2> QED
    BY <1>3, <2>4, <2>5
<1>6. CASE I.op = "call" /\ ~I.asm /\ I.callees # <<>>
  <2>1. Updates(FuncVRMs, I) = CallUpdates(FuncVRMs, I)
    BY <1>6 DEF Updates
  <2>2. \/ \E f \in DOMAIN I.callees, j \in DOMAIN I.args : u = Handed(f, j)
        \/ I.w # 0 /\ u = Own
    BY <1>6, <2>1, CallUpdatesAre
  <2> HIDE DEF u
  <2>3. ASSUME NEW f \in DOMAIN I.callees, NEW j \in DOMAIN I.args, u = Handed(f, j)
        PROVE  <<u.id, u.r.w>> \in UsesAt(s)
    <3>1. IsInt(I.args[j]) /\ u.r = getRange(FuncVRMs, bi, I.args[j])
      BY <2>3 DEF Handed, u, EmptyRange
    <3>2. I.args[j] \in Value /\ IsOperand(F, I.args[j])
      BY <1>2, <1>6, <3>1, InstrFacts, SeqFacts DEF WellTyped, IsInt
    <3>3. u.id = ArgId(I.callees[f], j - 1) /\ u.r.w = I.args[j].w
      BY <2>3, <3>1, <3>2, OperandRange DEF Handed
    <3> DEFINE of(g) == {<<ArgId(I.callees[g], h - 1), I.args[h].w>> :
                            h \in {i \in DOMAIN I.args : IsInt(I.args[i])}}
    <3>4. <<ArgId(I.callees[f], j - 1), I.args[j].w>> \in of(f)
      BY <3>1
    <3>5. UNION {of(g) : g \in DOMAIN I.callees} \subseteq UsesAt(s)
      BY <1>1, <1>6 DEF UsesAt
    <3> HIDE DEF of
    <3> QED
      BY <3>3, <3>4, <3>5
  <2>4. ASSUME I.w # 0, u = Own
        PROVE  <<u.id, u.r.w>> \in Uses
    <3>1. u.id = I.retId /\ u.r.w = I.w
      BY <2>4, ThisFacts, OperandRange DEF Own, This
    <3>2. I.w > 0
      BY <1>2, <2>4, Positive
    <3> QED
      BY <1>1, <1>6, <3>1, <3>2, ReadIds
  <2> QED
    BY <1>3, <2>2, <2>3, <2>4 DEF u
<1>7. CASE /\ ~(I.op = "store" /\ IsInt(I.val) /\ I.id # NoId)
           /\ ~(I.op = "return" /\ IsInt(I.val))
           /\ ~(I.op = "call" /\ ~I.asm /\ I.callees # <<>>)
  <2>1. Updates(FuncVRMs, I) = <<>>
    BY <1>7 DEF Updates
  <2> QED
    BY <2>1
<1> QED
  BY <1>4, <1>5, <1>6, <1>7

----------------------------------------------------------------------------
(* The visit of an instruction covers what it may yield and leave behind *)

ThisSite == <<mod, fi, bi, ii>>
Now == Here(FuncVRMs, bi, ii)

Visiting ==
    /\ AtInstr /\ Regular /\ WidthsIn(IntRanges, Uses)
    /\ pi \in Nat /\ pi > Len(BB.preds)
    /\ MapsSound(FuncVRMs, bi, pi, ii)

\* The instruction that is visited is a site.
LEMMA ThisSiteFacts ==
    ASSUME AtInstr
    PROVE  /\ ThisSite \in ProgSites /\ At(ThisSite) = I /\ FunctionOf(ThisSite) = F
           /\ ThisSite[1] = mod /\ ThisSite[2] = fi /\ ThisSite[3] = bi /\ ThisSite[4] = ii
           /\ bi \in Nat \ {0} /\ ii \in Nat \ {0}
           /\ This = ValueAt(bi, ii)
<1>1. bi \in DOMAIN F.blocks /\ ii \in DOMAIN F.blocks[bi].instrs /\ Sane
  BY DEF AtInstr, BB
<1>2. F.blocks[bi].instrs[ii] = I
  BY DEF I, BB
<1>3. This = ValueAt(bi, ii)
  BY <1>2 DEF This, ValueAt
<1> QED
  BY <1>1, <1>2, <1>3, SiteHere DEF ThisSite

\* What an instruction that is no phi reads.
LEMMA ReadCovers ==
    ASSUME Visiting, NEW v \in Reads(I), v.w > 0
    PROVE  /\ v \in Value /\ IsOperand(F, v)
           /\ v.kind = "instr" => /\ Dominates(F, v.b, bi)
                                  /\ Before(v.b, v.i, bi, ii)
           /\ Of(Now, ThisSite, v) \subseteq getRange(FuncVRMs, bi, v).s
<1> USE DEF Visiting
<1>1. /\ ThisSite \in ProgSites /\ At(ThisSite) = I /\ FunctionOf(ThisSite) = F
      /\ ThisSite[1] = mod /\ ThisSite[2] = fi /\ ThisSite[3] = bi /\ ThisSite[4] = ii
  BY ThisSiteFacts
<1>2. prog \in Programs /\ Sane /\ MapsType(FuncVRMs) /\ bi \in DOMAIN F.blocks
      /\ ii \in DOMAIN F.blocks[bi].instrs
  BY DEF AtInstr, Sane, BB
<1>3. v \in ReadsAll(ThisSite)
  BY <1>1 DEF ReadsAll
<1>4. v \in Value /\ IsOperand(F, v)
  BY <1>1, <1>2, <1>3, ReadsAllType
<1>5. ASSUME v.kind = "instr"
      PROVE  Dominates(F, v.b, bi) /\ Before(v.b, v.i, bi, ii)
  <2>1. AvailableAt(F, v, bi, ii)
    BY <1>2, RegularHere DEF Verified, I, BB
  <2>2. Before(v.b, v.i, bi, ii)
    BY <1>1, <1>2, <1>3, <1>4, <1>5, ReadsEarlier DEF Before
  <2> QED
    BY <1>2, <1>5, <2>1, <2>2, DominatesSelf DEF AvailableAt
<1>6. Settled(bi, bi, pi) /\ MapsCarry(FuncVRMs, bi, pi)
  BY DEF Settled, MapsSound, BB
<1>7. Of(Now, ThisSite, v) \subseteq getRange(FuncVRMs, bi, v).s
  BY <1>1, <1>2, <1>4, <1>5, <1>6, OperandCovers DEF Now
<1> QED
  BY <1>4, <1>5, <1>7

\* What a phi reads over an edge.
LEMMA EntryCovers ==
    ASSUME Visiting, I.op = "phi", NEW n \in Entering(ThisSite)
    PROVE  LET p == I.in[n].pred
               v == I.in[n].val
           IN /\ n \in DOMAIN I.in /\ n \in Incoming(I)
              /\ p \in DOMAIN F.blocks /\ p < bi
              /\ v \in Value /\ IsOperand(F, v) /\ v.w = I.w
              /\ v.kind = "instr" => /\ Dominates(F, v.b, p)
                                     /\ Before(v.b, v.i, bi, ii)
              /\ Of(Now, ThisSite, v) \subseteq getRange(FuncVRMs, p, v).s
<1> USE DEF Visiting
<1> DEFINE p == I.in[n].pred
           v == I.in[n].val
<1>1. /\ ThisSite \in ProgSites /\ At(ThisSite) = I /\ FunctionOf(ThisSite) = F
      /\ ThisSite[1] = mod /\ ThisSite[2] = fi /\ ThisSite[3] = bi /\ ThisSite[4] = ii
  BY ThisSiteFacts
<1>2. prog \in Programs /\ Sane /\ MapsType(FuncVRMs) /\ bi \in DOMAIN F.blocks
      /\ ii \in DOMAIN F.blocks[bi].instrs /\ I \in Instr /\ WellTyped(F, I)
  BY CurrentFacts DEF AtInstr, Sane, BB
<1>3. n \in DOMAIN I.in /\ n \in Incoming(I) /\ <<p, bi>> \notin F.back
  BY <1>1 DEF Entering, Incoming
<1>4. v \in ReadsAll(ThisSite)
  BY <1>1 DEF ReadsAll
<1>5. p \in DOMAIN F.blocks /\ IsOperand(F, v) /\ v.w = I.w
  BY <1>2, <1>3 DEF WellTyped
<1>6. v \in Value
  <2>1. I.in \in Seq([pred: Nat, val: Value])
    BY <1>2, InstrFacts
  <2>2. I.in[n] \in [pred: Nat, val: Value]
    BY <1>3, <2>1, SeqFacts
  <2> QED
    BY <2>2
<1>7. /\ \E m \in DOMAIN F.blocks[bi].preds : F.blocks[bi].preds[m] = p
      /\ AvailableAfter(F, v, p)
  <2>1. F.blocks[bi].instrs[ii] = I
    BY DEF I, BB
  <2>2. Verified(F)
    BY <1>2, RegularHere
  <2>3. F.blocks[bi].instrs[ii].op = "phi" /\ n \in DOMAIN F.blocks[bi].instrs[ii].in
    BY <1>3, <2>1
  <2>4. /\ \E m \in DOMAIN F.blocks[bi].preds :
              F.blocks[bi].preds[m] = F.blocks[bi].instrs[ii].in[n].pred
        /\ AvailableAfter(F, F.blocks[bi].instrs[ii].in[n].val, F.blocks[bi].instrs[ii].in[n].pred)
    BY <1>2, <2>2, <2>3 DEF Verified
  <2> QED
    BY <2>1, <2>4
<1>8. p < bi
  BY <1>2, <1>3, <1>7, RegularHere DEF Listed
<1> HIDE DEF p, v
<1>9. v.kind = "instr" => Dominates(F, v.b, p) /\ Before(v.b, v.i, bi, ii)
  BY <1>1, <1>2, <1>4, <1>6, <1>7, ReadsEarlier DEF AvailableAfter, Before
<1>10. Settled(p, bi, pi) /\ MapsCarry(FuncVRMs, bi, pi)
  BY <1>8 DEF Settled, MapsSound
<1>11. Of(Now, ThisSite, v) \subseteq getRange(FuncVRMs, p, v).s
  BY <1>1, <1>2, <1>5, <1>6, <1>9, <1>10, OperandCovers DEF Now
<1> QED
  BY <1>3, <1>5, <1>6, <1>8, <1>9, <1>11 DEF p, v

\* Signed division yields a number of its width.
LEMMA QuotientType ==
    ASSUME NEW w \in Widths, NEW a \in Ring(w), NEW b \in Ring(w) \ {0}
    PROVE  Quotient(w, a, b) \in Ring(w)
<1>1. 2^w \in Nat \ {0} /\ a \in Nat /\ b \in Nat /\ b # 0 /\ b < 2^w
  <2>1. Ring(w) = 0..(2^w - 1) /\ 2^w \in Nat \ {0}
    BY RingFacts DEF Ring
  <2> QED
    BY <2>1
<1>2. Signed(w, a) \in Int /\ Signed(w, b) \in Int /\ Signed(w, b) # 0
  <2>1. /\ Signed(w, a) = a \/ Signed(w, a) = a - 2^w
        /\ Signed(w, b) = b \/ Signed(w, b) = b - 2^w
    BY DEF Signed
  <2> QED
    BY <1>1, <2>1
<1>3. Abs(Signed(w, a)) \in Nat /\ Abs(Signed(w, b)) \in Nat \ {0}
  BY <1>2 DEF Abs
<1> DEFINE q == Abs(Signed(w, a)) \div Abs(Signed(w, b))
<1>4. q \in Int
  BY <1>3
<1>5. q % 2^w \in Ring(w) /\ (-q) % 2^w \in Ring(w)
  <2> HIDE DEF q
  <2>1. -q \in Int
    BY <1>4
  <2> QED
    BY <1>4, <2>1, RingFacts
<1> QED
  BY <1>5 DEF Quotient

\* The range given to the instruction that is visited covers what it may yield.
LEMMA ResultCovers ==
    ASSUME Visiting, I.w # 0, Claimed(ThisSite), ~ReadsArgument(I)
    PROVE  Computed(Now, ThisSite) \subseteq Result(FuncVRMs, I).s
<1> DEFINE get(v) == getRange(FuncVRMs, bi, v)
           of(v) == Of(Now, ThisSite, v)
           w == I.w
<1>1. AtInstr
  BY DEF Visiting
<1>2. /\ I \in Instr /\ WellTyped(F, I) /\ w \in Widths /\ w > 0
      /\ At(ThisSite) = I /\ FunctionOf(ThisSite) = F
  BY <1>1, CurrentFacts, ThisSiteFacts, Positive
<1>3. ASSUME NEW v \in Reads(I), v.w > 0
      PROVE  /\ get(v) \in RangeOf(v.w) /\ get(v) \in CRange /\ get(v).w = v.w
             /\ of(v) \subseteq get(v).s
  BY <1>1, <1>3, ReadCovers, OperandRange
<1>4. CASE I.op \in {"add", "sub", "sdiv"}
  <2>1. I.l \in Reads(I) /\ I.r \in Reads(I) /\ I.l.w = w /\ I.r.w = w
    BY <1>2, <1>4 DEF Reads, WellTyped
  <2>2. /\ get(I.l) \in RangeOf(w) /\ get(I.r) \in RangeOf(w)
        /\ get(I.r).w = w /\ get(I.l).w = w
        /\ of(I.l) \subseteq get(I.l).s /\ of(I.r) \subseteq get(I.r).s
    BY <1>2, <1>3, <2>1
  <2>3. match(get(I.r), get(I.l)) = get(I.r)
    BY <2>2, MatchSame
  <2>4. Result(FuncVRMs, I) = CASE I.op = "add" -> add(get(I.l), get(I.r))
                                [] I.op = "sub" -> sub(get(I.l), get(I.r))
                                [] I.op = "sdiv" -> sdiv(get(I.l), get(I.r))
    BY <1>4, <2>3 DEF Result
  <2>5. Computed(Now, ThisSite) =
          CASE I.op = "add" -> {(a + b) % 2^w : a \in of(I.l), b \in of(I.r)}
            [] I.op = "sub" -> {(a - b) % 2^w : a \in of(I.l), b \in of(I.r)}
            [] I.op = "sdiv" -> {Quotient(w, a, b) : a \in of(I.l), b \in of(I.r) \ {0}}
    BY <1>2, <1>4 DEF Computed
  <2> HIDE DEF get, of
  <2>6. ASSUME NEW a \in of(I.l), NEW b \in of(I.r)
        PROVE  /\ (a + b) % 2^w \in add(get(I.l), get(I.r)).s
               /\ (a - b) % 2^w \in sub(get(I.l), get(I.r)).s
               /\ sdiv(get(I.l), get(I.r)).s = Ring(w)
    BY <1>2, <2>2, ArithmeticCovers
  <2>7. ASSUME NEW a \in of(I.l), NEW b \in of(I.r) \ {0}
        PROVE  Quotient(w, a, b) \in Ring(w)
    BY <1>2, <2>2, InCRange, QuotientType
  <2>8. CASE I.op = "add"
    BY <2>4, <2>5, <2>6, <2>8
  <2>9. CASE I.op = "sub"
    BY <2>4, <2>5, <2>6, <2>9
  <2>10. CASE I.op = "sdiv"
    BY <2>4, <2>5, <2>6, <2>7, <2>10
  <2> QED
    BY <1>4, <2>8, <2>9, <2>10
<1>5. CASE I.op \in {"trunc", "zext", "sext"}
  <2>1. I.val \in Reads(I) /\ I.val.w > 0 /\ (I.op = "sext" => I.val.w <= w)
    BY <1>2, <1>5, InstrFacts, ValueFacts DEF Reads, WellTyped, IsOperand
  <2>2. get(I.val) \in CRange /\ get(I.val).w = I.val.w /\ of(I.val) \subseteq get(I.val).s
    BY <1>3, <2>1
  <2>3. Computed(Now, ThisSite) =
          IF I.op = "sext" THEN {SignExtended(I.val.w, w, a) : a \in of(I.val)}
          ELSE {a % 2^w : a \in of(I.val)}
    BY <1>2, <1>5 DEF Computed
  <2>4. Result(FuncVRMs, I) =
          IF I.op = "sext" THEN signExtend(get(I.val), w) ELSE zextOrTrunc(get(I.val), w)
    BY <1>5 DEF Result
  <2> HIDE DEF get, of
  <2>5. ASSUME NEW a \in of(I.val)
        PROVE  /\ a % 2^w \in zextOrTrunc(get(I.val), w).s
               /\ I.op = "sext" => SignExtended(I.val.w, w, a) \in signExtend(get(I.val), w).s
    BY <1>2, <2>1, <2>2, CastCovers
  <2> QED
    BY <1>5, <2>3, <2>4, <2>5
<1>6. CASE I.op = "select"
  <2>1. I.t \in Reads(I) /\ I.f \in Reads(I) /\ I.t.w = w /\ I.f.w = w
    BY <1>2, <1>6 DEF Reads, WellTyped
  <2>2. /\ get(I.t) \in CRange /\ get(I.t).w = w /\ of(I.t) \subseteq get(I.t).s
        /\ get(I.f) \in CRange /\ get(I.f).w = w /\ of(I.f) \subseteq get(I.f).s
    BY <1>2, <1>3, <2>1
  <2>3. Computed(Now, ThisSite) = of(I.t) \cup of(I.f)
    BY <1>2, <1>6 DEF Computed
  <2>4. Result(FuncVRMs, I) = safeUnion(get(I.t), get(I.f))
    BY <1>6 DEF Result
  <2> HIDE DEF get, of
  <2> QED
    BY <2>2, <2>3, <2>4, UnionCovers
<1>7. CASE I.op = "phi"
  <2> DEFINE rs == [n \in DOMAIN I.in |->
                      IF n \in Incoming(I) THEN getRange(FuncVRMs, I.in[n].pred, I.in[n].val)
                      ELSE EmptyRange(w)]
  <2>1. Len(I.in) \in Nat /\ DOMAIN I.in = 1..Len(I.in)
    BY <1>2, <1>7, InstrFacts, SeqFacts
  <2>2. Len(rs) = Len(I.in)
    BY <2>1, LenOfNumbered
  <2>3. Entering(ThisSite) = Incoming(I)
    BY <1>2, ThisSiteFacts, <1>1 DEF Entering, Incoming
  <2>4. ASSUME NEW n \in 1..Len(rs)
        PROVE  rs[n] \in CRange /\ rs[n].w = w
    <3>1. CASE n \in Incoming(I)
      <4>1. /\ I.in[n].pred \in DOMAIN F.blocks /\ I.in[n].val \in Value
            /\ IsOperand(F, I.in[n].val) /\ I.in[n].val.w = w
        BY <1>7, <2>3, <3>1, EntryCovers
      <4>2. MapType(FuncVRMs[I.in[n].pred]) /\ Sane
        BY <1>1, <4>1 DEF AtInstr, MapsType
      <4>3. getRange(FuncVRMs, I.in[n].pred, I.in[n].val) \in RangeOf(w)
        BY <4>1, <4>2, GetRangeType
      <4> QED
        BY <1>2, <2>1, <2>2, <3>1, <4>3, InCRange
    <3>2. CASE n \notin Incoming(I)
      BY <1>2, <2>1, <2>2, <3>2, SimpleRanges, InCRange
    <3> QED
      BY <3>1, <3>2
  <2>5. ASSUME NEW n \in Entering(ThisSite)
        PROVE  n \in 1..Len(rs) /\ of(I.in[n].val) \subseteq rs[n].s
    <3>1. n \in DOMAIN I.in /\ of(I.in[n].val) \subseteq getRange(FuncVRMs, I.in[n].pred, I.in[n].val).s
      BY <1>7, EntryCovers
    <3> QED
      BY <2>1, <2>2, <2>3, <3>1
  <2>6. Computed(Now, ThisSite) = UNION {of(I.in[n].val) : n \in Entering(ThisSite)}
    BY <1>2, <1>7 DEF Computed
  <2>7. Result(FuncVRMs, I) = UnionOf(w, rs)
    BY <1>7 DEF Result
  <2> HIDE DEF rs, of
  <2>8. \A n \in 1..Len(rs) : rs[n].s \subseteq UnionOf(w, rs).s
    BY <1>2, <2>1, <2>2, <2>4, UnionOfCovers
  <2> QED
    BY <2>5, <2>6, <2>7, <2>8
<1>8. CASE I.op \in {"load", "call"}
  <2>1. This = ValueAt(bi, ii) /\ This \notin DOMAIN FuncVRMs[bi]
    <3>1. This = ValueAt(bi, ii) /\ bi \in DOMAIN F.blocks
      BY <1>1, ThisSiteFacts DEF AtInstr
    <3>2. ~Before(bi, ii, bi, ii)
      BY <1>1, ThisSiteFacts DEF Before
    <3> QED
      BY <3>1, <3>2, ValueAtFacts DEF Visiting, MapsSound, MapsOwn
  <2>2. Result(FuncVRMs, I) = GlobalRange(This)
    <3>1. This.kind = "instr"
      BY DEF This
    <3> QED
      BY <1>8, <2>1, <3>1 DEF Result, getRange, This
  <2>3. /\ bi \in DOMAIN F.blocks /\ ii \in DOMAIN F.blocks[bi].instrs
        /\ F.blocks[bi].instrs[ii] = I /\ Sane /\ Identified /\ WidthsIn(IntRanges, Uses)
    BY <1>1 DEF AtInstr, I, BB, Visiting, Regular
  <2>4. Now.held = HeldIR
    BY DEF Now, Here
  <2> QED
    BY <1>8, <2>1, <2>2, <2>3, <2>4, GlobalCovers DEF ThisSite
<1>9. CASE I.op \in {"store", "return", "other"}
  <2>1. Computed(Now, ThisSite) = Ring(w)
    BY <1>2, <1>9 DEF Computed
  <2>2. Result(FuncVRMs, I) = FullRange(w)
    BY <1>9 DEF Result
  <2> QED
    BY <2>1, <2>2 DEF FullRange
<1> QED
  BY <1>2, <1>4, <1>5, <1>6, <1>7, <1>8, <1>9, InstrFacts DEF Claimed

\* An update of the instruction that adds nothing is of values held already.
LEMMA UpdateHeld ==
    ASSUME Visiting, UnionAll(IntRanges, Updates(FuncVRMs, I)) = IntRanges,
           NEW n \in 1..Len(Updates(FuncVRMs, I)), NEW id, NEW r,
           Updates(FuncVRMs, I)[n] = [id |-> id, r |-> r], id # NoId, NEW S, S \subseteq r.s
    PROVE  \A x \in S : x \in HeldIR[id]
<1> DEFINE ups == Updates(FuncVRMs, I)
<1>1. AtInstr /\ IRType(IntRanges) /\ Identified /\ WidthsIn(IntRanges, Uses)
  BY DEF Visiting, AtInstr, Sane, Regular
<1>2. /\ Len(ups) \in Nat /\ \A m \in 1..Len(ups) : IsUpdate(ups[m])
      /\ \A m \in 1..Len(ups) : ups[m].r.s # {} => <<ups[m].id, ups[m].r.w>> \in Uses
  BY <1>1, UpdatesType, UpdatesUse
<1> HIDE DEF ups
<1>3. Knows(UnionAll(IntRanges, ups), ups[n])
  BY <1>1, <1>2, UnionAllHolds DEF ups
<1>4. Knows(IntRanges, [id |-> id, r |-> r])
  BY <1>3 DEF ups
<1>5. ASSUME NEW x \in S PROVE x \in HeldIR[id]
  <2>1. x \in r.s
    OBVIOUS
  <2>2. ups[n].r.s # {} /\ ups[n].id = id /\ ups[n].r = r
    BY <2>1 DEF ups
  <2>3. <<id, r.w>> \in Uses
    <3>1. <<ups[n].id, ups[n].r.w>> \in Uses
      BY <1>2, <2>2 DEF ups
    <3> QED
      BY <2>2, <3>1
  <2> QED
    BY <1>1, <1>4, <2>1, <2>3, KnownHeld
<1> QED
  BY <1>5

\* What it writes is held, if its updates change nothing,
LEMMA WrittenHeld ==
    ASSUME Visiting, UnionAll(IntRanges, Updates(FuncVRMs, I)) = IntRanges,
           NEW q \in Written(Now, ThisSite), q[1] # NoId
    PROVE  q[2] \in HeldIR[q[1]]
<1> DEFINE ups == Updates(FuncVRMs, I)
           get(v) == getRange(FuncVRMs, bi, v)
           of(v) == Of(Now, ThisSite, v)
<1>1. AtInstr
  BY DEF Visiting
<1>2. I \in Instr /\ WellTyped(F, I) /\ At(ThisSite) = I /\ FunctionOf(ThisSite) = F
  BY <1>1, CurrentFacts, ThisSiteFacts
<1>3. ASSUME NEW v \in Reads(I), IsInt(v)
      PROVE  of(v) \subseteq get(v).s
  BY <1>3, ReadCovers DEF IsInt
<1>4. CASE I.op = "store" /\ IsInt(I.val) /\ I.id # NoId
  <2>1. ups = <<[id |-> I.id, r |-> get(I.val)]>>
    BY <1>4 DEF Updates
  <2>2. Len(ups) = 1 /\ ups[1] = [id |-> I.id, r |-> get(I.val)]
    BY <2>1
  <2>3. Written(Now, ThisSite) = {I.id} \X of(I.val)
    BY <1>2, <1>4 DEF Written
  <2>4. of(I.val) \subseteq get(I.val).s
    BY <1>3, <1>4 DEF Reads
  <2> HIDE DEF ups, get, of
  <2>5. \A x \in of(I.val) : x \in HeldIR[I.id]
    BY <1>4, <2>2, <2>4, UpdateHeld DEF ups
  <2>6. q[1] = I.id /\ q[2] \in of(I.val)
    BY <2>3
  <2> QED
    BY <2>5, <2>6
<1>5. CASE I.op = "return" /\ IsInt(I.val)
  <2>1. ups = <<[id |-> RetId(F.fn), r |-> get(I.val)]>>
    BY <1>5 DEF Updates
  <2>2. Len(ups) = 1 /\ ups[1] = [id |-> RetId(F.fn), r |-> get(I.val)]
    BY <2>1
  <2>3. Written(Now, ThisSite) = {RetId(F.fn)} \X of(I.val)
    BY <1>2, <1>5 DEF Written
  <2>4. of(I.val) \subseteq get(I.val).s
    BY <1>3, <1>5 DEF Reads
  <2> HIDE DEF ups, get, of
  <2>5. \A x \in of(I.val) : x \in HeldIR[RetId(F.fn)]
    BY <2>2, <2>4, UpdateHeld, IdKinds DEF ups
  <2>6. q[1] = RetId(F.fn) /\ q[2] \in of(I.val)
    BY <2>3
  <2> QED
    BY <2>5, <2>6
<1>6. CASE I.op = "call" /\ ~I.asm
  <2> DEFINE js == {i \in DOMAIN I.args : IsInt(I.args[i])}
             fs == {i \in DOMAIN I.callees : I.callees[i] \notin Opaque}
             to(f, j) == {ArgId(I.callees[f], j - 1)} \X of(I.args[j])
             give(f) == UNION {to(f, j) : j \in js}
  <2>1. Written(Now, ThisSite) = UNION {give(f) : f \in fs}
    BY <1>2, <1>6 DEF Written
  <2>2. PICK f \in fs : q \in give(f)
    <3> HIDE DEF give, fs
    <3> QED
      BY <2>1
  <2>3. PICK j \in js : q \in to(f, j)
    <3> HIDE DEF to, js
    <3> QED
      BY <2>2
  <2> HIDE DEF give, of, get
  <2>4. q[1] = ArgId(I.callees[f], j - 1) /\ q[2] \in of(I.args[j])
    BY <2>3
  <2>5. /\ f \in DOMAIN I.callees /\ I.callees[f] \notin Opaque
        /\ j \in DOMAIN I.args /\ IsInt(I.args[j])
    BY <2>2, <2>3
  <2>6. Handed(f, j) = [id |-> ArgId(I.callees[f], j - 1), r |-> get(I.args[j])]
    BY <2>5 DEF Handed, get
  <2>7. I.callees # <<>>
    BY <2>5
  <2>8. ups = CallUpdates(FuncVRMs, I)
    BY <1>6, <2>7 DEF Updates
  <2>9. PICK n \in 1..Len(ups) : ups[n] = Handed(f, j)
    BY <1>1, <1>6, <2>5, <2>8, CallUpdatesAre
  <2>10. of(I.args[j]) \subseteq get(I.args[j]).s
    <3>1. I.args[j] \in Reads(I)
      BY <1>6, <2>5 DEF Reads
    <3> QED
      BY <1>3, <2>5, <3>1 DEF of, get
  <2>11. \A x \in of(I.args[j]) : x \in HeldIR[ArgId(I.callees[f], j - 1)]
    BY <2>6, <2>9, <2>10, UpdateHeld, IdKinds
  <2> QED
    BY <2>4, <2>11
<1>7. CASE /\ ~(I.op = "store" /\ IsInt(I.val) /\ I.id # NoId)
           /\ ~(I.op = "return" /\ IsInt(I.val)) /\ ~(I.op = "call" /\ ~I.asm)
  <2>1. Written(Now, ThisSite) = {}
    BY <1>2, <1>7 DEF Written
  <2> QED
    BY <2>1
<1> QED
  BY <1>4, <1>5, <1>6, <1>7

\* and so is what a call returns.
LEMMA ReturnedHeld ==
    ASSUME Visiting, UnionAll(IntRanges, Updates(FuncVRMs, I)) = IntRanges,
           I.op = "call", ~ReadsArgument(I), I.w # 0, I.retId # NoId
    PROVE  Computed(Now, ThisSite) \subseteq HeldIR[I.retId]
<1>1. AtInstr
  BY DEF Visiting
<1>2. I \in Instr /\ At(ThisSite) = I /\ FunctionOf(ThisSite) = F
  BY <1>1, CurrentFacts, ThisSiteFacts
<1>3. CASE I.asm
  BY <1>2, <1>3 DEF Computed
<1>4. CASE ~I.asm /\ I.callees = <<>>
  <2>1. Computed(Now, ThisSite) =
          UNION {OfId(Now, RetId(I.callees[n]), I.w) : n \in DOMAIN I.callees}
    BY <1>2, <1>4 DEF Computed
  <2>2. DOMAIN I.callees = {}
    BY <1>4
  <2> QED
    BY <2>1, <2>2
<1>5. CASE ~I.asm /\ I.callees # <<>>
  <2>1. Updates(FuncVRMs, I) = CallUpdates(FuncVRMs, I)
    BY <1>5 DEF Updates
  <2>2. PICK n \in 1..Len(Updates(FuncVRMs, I)) : Updates(FuncVRMs, I)[n] = Own
    BY <1>1, <2>1, CallUpdatesAre
  <2>3. Computed(Now, ThisSite) \subseteq Result(FuncVRMs, I).s
    BY <1>2, ResultCovers DEF Claimed
  <2>4. Result(FuncVRMs, I) = getRange(FuncVRMs, bi, This)
    BY DEF Result, This
  <2> QED
    BY <2>2, <2>3, <2>4, UpdateHeld DEF Own
<1> QED
  BY <1>3, <1>4, <1>5

----------------------------------------------------------------------------
(* A visit keeps what is said of the maps *)

\* What is asked for and not found changes no map.
LEMMA AskIdle ==
    ASSUME NEW M, NEW b \in DOMAIN M, NEW vals,
           \A v \in vals : v.kind = "instr" /\ v \notin DOMAIN M[b] => GlobalRange(v).s = {}
    PROVE  /\ DOMAIN Ask(M, b, vals) = DOMAIN M
           /\ \A c \in DOMAIN M : /\ DOMAIN Ask(M, b, vals)[c] = DOMAIN M[c]
                                /\ \A v \in DOMAIN M[c] : Ask(M, b, vals)[c][v] = M[c][v]
<1> DEFINE fresh == {v \in vals : /\ v.kind = "instr" /\ v \notin DOMAIN M[b]
                                  /\ GlobalRange(v).s # {}}
           A == Ask(M, b, vals)
<1>1. fresh = {}
  OBVIOUS
<1>2. A = [M EXCEPT ![b] = [v \in DOMAIN @ \cup fresh |->
                              IF v \in fresh THEN GlobalRange(v) ELSE @[v]]]
  BY DEF Ask
<1> HIDE DEF fresh, A
<1>3. DOMAIN A = DOMAIN M /\ \A c \in DOMAIN M : c # b => A[c] = M[c]
  BY <1>2
<1>4. A[b] = [v \in DOMAIN M[b] \cup fresh |-> IF v \in fresh THEN GlobalRange(v) ELSE M[b][v]]
  BY <1>2
<1>5. DOMAIN A[b] = DOMAIN M[b] /\ \A v \in DOMAIN M[b] : A[b][v] = M[b][v]
  BY <1>1, <1>4
<1> QED
  BY <1>3, <1>5 DEF A

\* Asking for the range of an operand changes no map: all of them are there.
LEMMA AskAllIdle ==
    ASSUME Visiting, NEW c \in DOMAIN FuncVRMs
    PROVE  /\ DOMAIN AskAll(FuncVRMs, I) = DOMAIN FuncVRMs
           /\ DOMAIN AskAll(FuncVRMs, I)[c] = DOMAIN FuncVRMs[c]
           /\ \A v \in DOMAIN FuncVRMs[c] : AskAll(FuncVRMs, I)[c][v] = FuncVRMs[c][v]
<1> DEFINE vals(b) == IF I.op = "phi"
                      THEN {I.in[n].val : n \in {m \in Incoming(I) : I.in[m].pred = b}}
                      ELSE IF b = bi THEN Operands(I) ELSE {}
<1>1. /\ AtInstr /\ Sane /\ Regular /\ MapsType(FuncVRMs) /\ DOMAIN FuncVRMs = DOMAIN F.blocks
      /\ pi \in Nat /\ MapsCarry(FuncVRMs, bi, pi) /\ MapsComplete(FuncVRMs, bi, ii)
      /\ pi > Len(BB.preds) /\ bi \in DOMAIN F.blocks
  BY DEF Visiting, AtInstr, MapsType, MapsSound
<1>2. ASSUME NEW v \in vals(c), v.kind = "instr", v \notin DOMAIN FuncVRMs[c]
      PROVE  GlobalRange(v).s = {}
  <2>1. CASE I.op = "phi"
    <3>1. PICK n \in Incoming(I) : I.in[n].pred = c /\ v = I.in[n].val
      BY <1>2, <2>1
    <3>2. n \in Entering(ThisSite)
      BY <1>1, ThisSiteFacts DEF Entering, Incoming
    <3>3. /\ c \in DOMAIN F.blocks /\ c < bi /\ v \in Value /\ IsOperand(F, v)
          /\ Dominates(F, v.b, c) /\ Before(v.b, v.i, bi, ii)
      BY <1>2, <2>1, <3>1, <3>2, EntryCovers
    <3>4. Settled(c, bi, pi)
      BY <3>3 DEF Settled
    <3> QED
      BY <1>1, <1>2, <3>3, <3>4, NothingFresh
  <2>2. CASE I.op # "phi"
    <3>1. c = bi /\ v \in Operands(I)
      BY <1>2, <2>2
    <3>2. v \in Value /\ v.w > 0
      <4>1. v \in Value
        BY <1>1, <2>2, <3>1, OperandsType
      <4>2. v.w \in Widths
        BY <1>2, <4>1, ValueFacts
      <4> QED
        BY <4>1, <4>2, RingFacts
    <3>3. v \in Reads(I)
      BY <3>1 DEF Operands, Reads
    <3>4. IsOperand(F, v) /\ Dominates(F, v.b, bi) /\ Before(v.b, v.i, bi, ii)
      BY <1>2, <3>2, <3>3, ReadCovers
    <3>5. Settled(bi, bi, pi)
      BY <1>1 DEF Settled, BB
    <3> QED
      BY <1>1, <1>2, <3>1, <3>2, <3>4, <3>5, NothingFresh
  <2> QED
    BY <2>1, <2>2
<1>3. AskAll(FuncVRMs, I) = [b \in DOMAIN FuncVRMs |-> Ask(FuncVRMs, b, vals(b))[b]]
  BY DEF AskAll
<1> HIDE DEF vals
<1>4. AskAll(FuncVRMs, I)[c] = Ask(FuncVRMs, c, vals(c))[c]
  BY <1>3
<1> QED
  BY <1>2, <1>3, <1>4, AskIdle

\* The maps after the visit.
Visited(M) ==
    /\ \A b \in DOMAIN F.blocks : \A v \in DOMAIN FuncVRMs[b] :
         v \in DOMAIN M[b] /\ M[b][v] = FuncVRMs[b][v]
    /\ \A b \in DOMAIN F.blocks : \A v \in DOMAIN M[b] :
         v \in DOMAIN FuncVRMs[b] \/ (b = bi /\ v = This)
    /\ I.w = 0 => This \notin DOMAIN M[bi]
    /\ I.w # 0 => IF This \in DOMAIN M[bi] THEN M[bi][This] = Result(FuncVRMs, I)
                 ELSE Result(FuncVRMs, I).s = {}

\* The instruction that is visited has no range yet.
LEMMA ThisIsNew ==
    ASSUME Visiting
    PROVE  This \notin DOMAIN FuncVRMs[bi]
<1>1. This = ValueAt(bi, ii) /\ bi \in DOMAIN F.blocks /\ ~Before(bi, ii, bi, ii)
  BY ThisSiteFacts DEF AtInstr, Visiting, Before
<1> QED
  BY <1>1, ValueAtFacts DEF Visiting, MapsSound, MapsOwn

\* A visit adds the range of the instruction to the map of its block.
LEMMA VisitMaps ==
    ASSUME Visiting, VisitInstruction
    PROVE  Visited(FuncVRMs')
<1> DEFINE asked == AskAll(FuncVRMs, I)
           R == Result(FuncVRMs, I)
           M == FuncVRMs'
<1>1. This \notin DOMAIN FuncVRMs[bi] /\ DOMAIN FuncVRMs = DOMAIN F.blocks /\ bi \in DOMAIN F.blocks
  BY ThisIsNew DEF Visiting, AtInstr, MapsType
<1>2. /\ DOMAIN asked = DOMAIN FuncVRMs
      /\ \A b \in DOMAIN FuncVRMs : /\ DOMAIN asked[b] = DOMAIN FuncVRMs[b]
                                  /\ \A v \in DOMAIN FuncVRMs[b] : asked[b][v] = FuncVRMs[b][v]
  BY <1>1, AskAllIdle
<1>3. M = IF I.w = 0 \/ R.s = {} THEN asked
          ELSE [asked EXCEPT ![bi] = UnionMaps(@, [v \in {This} |-> R])]
  BY DEF VisitInstruction, This
<1> HIDE DEF asked, R, M
<1>4. CASE I.w = 0 \/ R.s = {}
  <2>1. M = asked
    BY <1>3, <1>4
  <2> QED
    BY <1>1, <1>2, <1>4, <2>1 DEF Visited, M, R
<1>5. CASE ~(I.w = 0 \/ R.s = {})
  <2>1. /\ \A b \in DOMAIN FuncVRMs : b # bi => M[b] = asked[b]
        /\ M[bi] = UnionMaps(asked[bi], [v \in {This} |-> R])
    BY <1>1, <1>2, <1>3, <1>5
  <2>2. /\ DOMAIN M[bi] = DOMAIN asked[bi] \cup {This}
        /\ \A v \in DOMAIN asked[bi] : v # This => M[bi][v] = asked[bi][v]
        /\ This \notin DOMAIN asked[bi] => M[bi][This] = R
    BY <2>1 DEF UnionMaps
  <2> QED
    BY <1>1, <1>2, <1>5, <2>1, <2>2 DEF Visited, M, R
<1> QED
  BY <1>4, <1>5

\* Whether P covers a site depends on what it says of the site and its reads.
LEMMA SoundElsewhere ==
    ASSUME prog \in Programs, NEW s \in ProgSites, NEW P, NEW Q, SiteSound(P, s),
           P.held = Q.held, P.at[s] = Q.at[s],
           \A v \in ReadsAll(s) : v.kind = "instr" =>
               P.at[<<s[1], s[2], v.b, v.i>>] = Q.at[<<s[1], s[2], v.b, v.i>>]
    PROVE  SiteSound(Q, s)
<1>1. /\ Written(Q, s) \subseteq Written(P, s)
      /\ Claimed(s) => Computed(Q, s) \subseteq Computed(P, s)
  BY Monotone
<1>2. At(s).op = "call" => Claimed(s)
  BY DEF Claimed
<1> QED
  BY <1>1, <1>2 DEF SiteSound

\* The values a map has for the sites of the current function.
LEMMA AtHere ==
    ASSUME Sane, NEW M, NEW c, NEW j, NEW b \in DOMAIN F.blocks, NEW i \in DOMAIN F.blocks[b].instrs
    PROVE  Here(M, c, j).at[<<mod, fi, b, i>>] = DefRange(M, c, j, b, i)
<1>1. <<mod, fi, b, i>> \in ProgSites
  BY SiteHere
<1>2. LET z == <<mod, fi, b, i>> IN z[1] = mod /\ z[2] = fi /\ z[3] = b /\ z[4] = i
  OBVIOUS
<1> QED
  BY <1>1, <1>2 DEF Here, AtFn

\* The reads of a site of the current function are sites before it.
LEMMA ReadsHere ==
    ASSUME Sane, Regular, NEW s \in ProgSites, s[1] = mod, s[2] = fi,
           NEW v \in ReadsAll(s), v.kind = "instr"
    PROVE  /\ v.b \in DOMAIN F.blocks /\ v.i \in DOMAIN F.blocks[v.b].instrs
           /\ Before(v.b, v.i, s[3], s[4])
<1>1. prog \in Programs
  BY DEF Sane
<1>2. v \in Value
  BY <1>1, ReadsAllType
<1>3. v.w > 0
  BY <1>2, ValueFacts, RingFacts
<1>4. IsOperand(F, v)
  BY <1>1, <1>3, ReadsAllType, HereSite
<1>5. Before(v.b, v.i, s[3], s[4])
  BY <1>1, <1>2, ReadsEarlier DEF Before
<1> QED
  BY <1>2, <1>4, <1>5, OperandHere

\* Positions are ordered.
LEMMA BeforeTransitive ==
    ASSUME NEW b \in Nat, NEW i \in Nat, NEW d \in Nat, NEW k \in Nat, NEW c \in Nat, NEW j \in Nat,
           Before(b, i, d, k), Before(d, k, c, j)
    PROVE  Before(b, i, c, j)
BY DEF Before

\* Sites stay covered while the ranges of what they read do not change.
LEMMA SitesElsewhere ==
    ASSUME Sane, Regular, NEW M, NEW c \in Nat, NEW j \in Nat, SitesSound(M, c, j),
           NEW M2, NEW c2, NEW j2,
           \A b \in DOMAIN F.blocks : \A i \in DOMAIN F.blocks[b].instrs :
               Before(b, i, c, j) => DefRange(M2, c2, j2, b, i) = DefRange(M, c, j, b, i)
    PROVE  /\ \A b \in DOMAIN F.blocks : \A i \in DOMAIN F.blocks[b].instrs :
               Before(b, i, c, j) =>
                   Here(M, c, j).at[<<mod, fi, b, i>>] = Here(M2, c2, j2).at[<<mod, fi, b, i>>]
           /\ \A s \in ProgSites :
               s[1] = mod /\ s[2] = fi /\ Before(s[3], s[4], c, j) =>
                   SiteSound(Here(M2, c2, j2), s)
<1> DEFINE P == Here(M, c, j)
           Q == Here(M2, c2, j2)
<1>1. ASSUME NEW b \in DOMAIN F.blocks, NEW i \in DOMAIN F.blocks[b].instrs, Before(b, i, c, j)
      PROVE  P.at[<<mod, fi, b, i>>] = Q.at[<<mod, fi, b, i>>]
  <2>1. P.at[<<mod, fi, b, i>>] = DefRange(M, c, j, b, i)
    BY AtHere
  <2>2. Q.at[<<mod, fi, b, i>>] = DefRange(M2, c2, j2, b, i)
    BY AtHere
  <2> QED
    BY <1>1, <2>1, <2>2
<1>2. P.held = HeldIR /\ Q.held = HeldIR
  BY DEF Here
<1>3. prog \in Programs
  BY DEF Sane
<1>4. \A s \in ProgSites :
         s[1] = mod /\ s[2] = fi /\ Before(s[3], s[4], c, j) => SiteSound(P, s)
  BY DEF SitesSound
<1> HIDE DEF P, Q
<1>5. ASSUME NEW s \in ProgSites, s[1] = mod, s[2] = fi, Before(s[3], s[4], c, j)
      PROVE  SiteSound(Q, s)
  <2>1. SiteSound(P, s)
    BY <1>4, <1>5
  <2>2. /\ s = <<mod, fi, s[3], s[4]>>
        /\ s[3] \in DOMAIN F.blocks /\ s[4] \in DOMAIN F.blocks[s[3]].instrs
        /\ s[3] \in Nat /\ s[4] \in Nat
    BY <1>5, HereSite, SiteHere
  <2>3. P.at[s] = Q.at[s]
    <3>1. P.at[<<mod, fi, s[3], s[4]>>] = Q.at[<<mod, fi, s[3], s[4]>>]
      BY <1>1, <1>5, <2>2
    <3> QED
      BY <2>2, <3>1
  <2>4. ASSUME NEW v \in ReadsAll(s), v.kind = "instr"
        PROVE  P.at[<<s[1], s[2], v.b, v.i>>] = Q.at[<<s[1], s[2], v.b, v.i>>]
    <3>1. /\ v.b \in DOMAIN F.blocks /\ v.i \in DOMAIN F.blocks[v.b].instrs
          /\ Before(v.b, v.i, s[3], s[4])
      BY <1>5, <2>4, ReadsHere
    <3>2. Before(v.b, v.i, c, j)
      <4>1. v.b \in Nat /\ v.i \in Nat
        BY <3>1, SiteHere
      <4> QED
        BY <1>5, <2>2, <3>1, <4>1, BeforeTransitive
    <3> QED
      BY <1>1, <1>5, <3>1, <3>2
  <2> QED
    BY <1>2, <1>3, <2>1, <2>3, <2>4, SoundElsewhere
<1> QED
  BY <1>1, <1>5 DEF P, Q

\* An instruction that yields nothing has no range in IntRanges.
LEMMA ThisRange ==
    ASSUME Visiting, I.w # 0, Result(FuncVRMs, I).s = {}
    PROVE  GlobalRange(This).s = {}
<1>1. InstrAt(This) = I /\ This.kind = "instr"
  BY DEF InstrAt, This, I, BB
<1>2. CASE I.op \in {"load", "call"}
  <2>1. Result(FuncVRMs, I) = getRange(FuncVRMs, bi, This)
    BY <1>2 DEF Result, This
  <2> QED
    BY <1>1, <2>1, ThisIsNew DEF getRange
<1>3. CASE I.op \notin {"load", "call"}
  <2>1. GlobalRange(This) = EmptyRange(This.w)
    BY <1>1, <1>3 DEF GlobalRange
  <2> QED
    BY <2>1 DEF EmptyRange
<1> QED
  BY <1>2, <1>3

\* After a visit that changes no range the maps cover that instruction too.
LEMMA VisitMapsSound ==
    ASSUME Visiting, UnionAll(IntRanges, Updates(FuncVRMs, I)) = IntRanges,
           NEW M, Visited(M)
    PROVE  MapsSound(M, bi, pi, ii + 1)
<1> DEFINE R == Result(FuncVRMs, I)
<1>1. /\ Sane /\ Regular /\ prog \in Programs
      /\ bi \in DOMAIN F.blocks /\ ii \in DOMAIN F.blocks[bi].instrs
      /\ bi \in Nat \ {0} /\ ii \in Nat \ {0} /\ This = ValueAt(bi, ii)
      /\ F.blocks[bi].instrs[ii] = I /\ F \in Function /\ WellFormed(F) /\ Listed(F)
  BY ThisSiteFacts, TheFunction, RegularHere DEF Visiting, AtInstr, Sane, BB, I
<1>2. /\ MapsOwn(FuncVRMs, bi, ii) /\ MapsComplete(FuncVRMs, bi, ii)
      /\ MapsCarry(FuncVRMs, bi, pi) /\ SitesSound(FuncVRMs, bi, ii)
  BY DEF Visiting, MapsSound
<1>3. \A b, i \in Nat : Before(b, i, bi, ii + 1) <=> Before(b, i, bi, ii) \/ (b = bi /\ i = ii)
  BY <1>1 DEF Before
<1>4. MapsOwn(M, bi, ii + 1)
  <2> SUFFICES ASSUME NEW b \in DOMAIN F.blocks, NEW v \in DOMAIN M[b]
               PROVE  /\ v \in Value /\ v.kind = "instr" /\ v.b <= b
                      /\ v.b = b => Before(b, v.i, bi, ii + 1)
    BY DEF MapsOwn
  <2>1. b \in Nat
    BY <1>1, FunctionFacts
  <2>2. CASE v \in DOMAIN FuncVRMs[b]
    <3>1. v \in Value /\ v.kind = "instr" /\ v.b <= b /\ (v.b = b => Before(b, v.i, bi, ii))
      BY <1>2, <2>2 DEF MapsOwn
    <3>2. v.i \in Nat
      BY <3>1 DEF Value
    <3> QED
      BY <1>3, <2>1, <3>1, <3>2
  <2>3. CASE b = bi /\ v = This
    <3>1. I.w # 0
      BY <2>3 DEF Visited
    <3>2. This \in Value
      BY <3>1, ThisFacts DEF Visiting
    <3> QED
      BY <1>1, <1>3, <2>3, <3>2, ValueAtFacts
  <2> QED
    BY <2>2, <2>3 DEF Visited
<1>5. MapsComplete(M, bi, ii + 1)
  <2> SUFFICES ASSUME NEW b \in DOMAIN F.blocks, NEW i \in DOMAIN F.blocks[b].instrs,
                      Before(b, i, bi, ii + 1), F.blocks[b].instrs[i].w > 0,
                      ValueAt(b, i) \notin DOMAIN M[b]
               PROVE  GlobalRange(ValueAt(b, i)).s = {}
    BY DEF MapsComplete
  <2>1. b \in Nat /\ i \in Nat
    BY <1>1, SiteHere
  <2>2. CASE Before(b, i, bi, ii)
    <3>1. ValueAt(b, i) \notin DOMAIN FuncVRMs[b]
      BY DEF Visited
    <3> QED
      BY <1>2, <2>2, <3>1 DEF MapsComplete
  <2>3. CASE b = bi /\ i = ii
    <3>1. I.w # 0
      BY <1>1, <2>3
    <3>2. R.s = {}
      BY <1>1, <2>3, <3>1 DEF Visited
    <3> QED
      BY <1>1, <2>3, <3>1, <3>2, ThisRange
  <2> QED
    BY <1>3, <2>1, <2>2, <2>3
<1>6. MapsCarry(M, bi, pi)
  <2> SUFFICES ASSUME NEW b \in DOMAIN F.blocks, NEW d \in DOMAIN F.blocks,
                      d # b, Dominates(F, d, b), b < bi \/ (b = bi /\ Entered(bi, pi)),
                      NEW i \in DOMAIN F.blocks[d].instrs, ValueAt(d, i) \in DOMAIN M[d]
               PROVE  /\ ValueAt(d, i) \in DOMAIN M[b]
                      /\ M[d][ValueAt(d, i)].s \subseteq M[b][ValueAt(d, i)].s
    BY DEF MapsCarry
  <2>1. d \in Nat /\ b \in Nat
    BY <1>1, FunctionFacts
  <2>2. d <= b
    BY <1>1, <2>1, DominatesEarlier
  <2>3. d # bi
    BY <1>1, <2>1, <2>2
  <2>4. ValueAt(d, i) \in DOMAIN FuncVRMs[d]
    BY <2>3 DEF Visited
  <2>5. /\ ValueAt(d, i) \in DOMAIN FuncVRMs[b]
        /\ FuncVRMs[d][ValueAt(d, i)].s \subseteq FuncVRMs[b][ValueAt(d, i)].s
    BY <1>2, <2>4 DEF MapsCarry
  <2> QED
    BY <2>4, <2>5 DEF Visited
<1>7. ASSUME NEW b \in DOMAIN F.blocks, NEW i \in DOMAIN F.blocks[b].instrs, Before(b, i, bi, ii)
      PROVE  DefRange(M, bi, ii + 1, b, i) = DefRange(FuncVRMs, bi, ii, b, i)
  <2>1. b \in Nat /\ i \in Nat
    BY <1>1, SiteHere
  <2>2. ValueAt(b, i) # This
    <3>1. ~(b = bi /\ i = ii)
      BY <1>1, <1>7, <2>1 DEF Before
    <3> QED
      BY <1>1, <3>1, ValueAtFacts
  <2>3. ValueAt(b, i) \in DOMAIN M[b] <=> ValueAt(b, i) \in DOMAIN FuncVRMs[b]
    BY <2>2 DEF Visited
  <2> QED
    BY <1>3, <1>7, <2>1, <2>3 DEF DefRange, Visited
<1> DEFINE P == Now
           Q == Here(M, bi, ii + 1)
<1>8. P.held = HeldIR /\ Q.held = HeldIR
  BY DEF Now, Here
<1>9. /\ \A b \in DOMAIN F.blocks : \A i \in DOMAIN F.blocks[b].instrs :
           Before(b, i, bi, ii) => P.at[<<mod, fi, b, i>>] = Q.at[<<mod, fi, b, i>>]
      /\ \A s \in ProgSites :
           s[1] = mod /\ s[2] = fi /\ Before(s[3], s[4], bi, ii) => SiteSound(Q, s)
  <2> DEFINE k == ii + 1
  <2>1. \A b \in DOMAIN F.blocks : \A i \in DOMAIN F.blocks[b].instrs :
          Before(b, i, bi, ii) => DefRange(M, bi, k, b, i) = DefRange(FuncVRMs, bi, ii, b, i)
    BY <1>7
  <2> HIDE DEF k, P, Q
  <2>2. bi \in Nat /\ ii \in Nat
    BY <1>1
  <2>3. /\ \A b \in DOMAIN F.blocks : \A i \in DOMAIN F.blocks[b].instrs :
             Before(b, i, bi, ii) =>
               Here(FuncVRMs, bi, ii).at[<<mod, fi, b, i>>] = Here(M, bi, k).at[<<mod, fi, b, i>>]
        /\ \A s \in ProgSites :
             s[1] = mod /\ s[2] = fi /\ Before(s[3], s[4], bi, ii) => SiteSound(Here(M, bi, k), s)
    BY <1>1, <1>2, <2>1, <2>2, SitesElsewhere
  <2>4. P = Here(FuncVRMs, bi, ii) /\ Q = Here(M, bi, k)
    BY DEF P, Q, Now, k
  <2> QED
    BY <2>3, <2>4
<1>10. I.w # 0 => Q.at[ThisSite] = R.s
  <2> SUFFICES ASSUME I.w # 0 PROVE DefRange(M, bi, ii + 1, bi, ii) = R.s
    BY <1>1, AtHere DEF ThisSite
  <2>1. Before(bi, ii, bi, ii + 1)
    BY <1>1 DEF Before
  <2> QED
    BY <1>1, <2>1 DEF DefRange, Visited
<1> HIDE DEF P, Q, R
<1>11. SiteSound(Q, ThisSite)
  <2>1. /\ ThisSite \in ProgSites /\ At(ThisSite) = I
        /\ ThisSite[1] = mod /\ ThisSite[2] = fi /\ ThisSite[3] = bi /\ ThisSite[4] = ii
    BY ThisSiteFacts DEF Visiting
  <2>2. ASSUME NEW v \in ReadsAll(ThisSite), v.kind = "instr"
        PROVE  Q.at[<<ThisSite[1], ThisSite[2], v.b, v.i>>]
                 \subseteq P.at[<<ThisSite[1], ThisSite[2], v.b, v.i>>]
    BY <1>1, <1>9, <2>1, <2>2, ReadsHere
  <2>3. /\ Written(Q, ThisSite) \subseteq Written(P, ThisSite)
        /\ Claimed(ThisSite) => Computed(Q, ThisSite) \subseteq Computed(P, ThisSite)
    BY <1>1, <1>8, <2>1, <2>2, Monotone
  <2>4. ASSUME Claimed(ThisSite), ~ReadsArgument(I)
        PROVE  Computed(Q, ThisSite) \subseteq Q.at[ThisSite]
    <3>1. CASE I.w = 0
      BY <2>1, <3>1 DEF Computed
    <3>2. CASE I.w # 0
      <4>1. Computed(P, ThisSite) \subseteq R.s
        BY <2>4, <3>2, ResultCovers DEF P, R
      <4> QED
        BY <1>10, <2>3, <2>4, <3>2, <4>1
    <3> QED
      BY <3>1, <3>2
  <2>5. \A q \in Written(Q, ThisSite) : q[1] # NoId => q[2] \in HeldIR[q[1]]
    BY <2>3, WrittenHeld DEF P
  <2>6. ASSUME I.op = "call", ~ReadsArgument(I), I.w # 0, I.retId # NoId
        PROVE  Computed(Q, ThisSite) \subseteq HeldIR[I.retId]
    <3>1. Claimed(ThisSite)
      BY <2>1, <2>6 DEF Claimed
    <3>2. Computed(P, ThisSite) \subseteq HeldIR[I.retId]
      BY <2>6, ReturnedHeld DEF P
    <3> QED
      BY <2>3, <3>1, <3>2
  <2> QED
    BY <1>8, <2>1, <2>4, <2>5, <2>6 DEF SiteSound
<1>12. SitesSound(M, bi, ii + 1)
  <2> SUFFICES ASSUME NEW s \in ProgSites, s[1] = mod, s[2] = fi,
                      Before(s[3], s[4], bi, ii + 1)
               PROVE  SiteSound(Q, s)
    BY DEF SitesSound, Q
  <2>1. /\ s = <<mod, fi, s[3], s[4]>> /\ s[3] \in Nat /\ s[4] \in Nat
    BY <1>1, HereSite, SiteHere
  <2>2. Before(s[3], s[4], bi, ii) \/ (s[3] = bi /\ s[4] = ii)
    BY <1>3, <2>1
  <2>3. s[3] = bi /\ s[4] = ii => s = ThisSite
    BY <2>1 DEF ThisSite
  <2> QED
    BY <1>9, <1>11, <2>2, <2>3
<1> QED
  BY <1>4, <1>5, <1>6, <1>12 DEF MapsSound

----------------------------------------------------------------------------
(* So does the merge of a predecessor *)

Merging ==
    /\ Sane /\ MapsType(FuncVRMs) /\ Regular
    /\ bi \in DOMAIN F.blocks /\ pi \in DOMAIN BB.preds /\ ii = 1
    /\ MapsSound(FuncVRMs, bi, pi, ii)

Pred == BB.preds[pi]
AskedIn == LET T == F.blocks[Pred].term IN IF T.op = "br" THEN T.cb ELSE Pred
AskedThere == Ask(FuncVRMs, AskedIn, Asked(F.blocks[Pred].term))
Refined == visitTerminator(AskedThere, Pred, F.blocks[Pred].term, bi, FuncVRMs[Pred])

\* A predecessor is an earlier block but over a back edge.
LEMMA PredFacts ==
    ASSUME Merging
    PROVE  /\ F \in Function /\ WellFormed(F) /\ Verified(F) /\ Listed(F)
           /\ bi \in Nat /\ pi \in Nat \ {0} /\ Pred \in DOMAIN F.blocks /\ Pred \in Nat
           /\ F.blocks[bi].preds = BB.preds
           /\ <<Pred, bi>> \notin F.back => Pred < bi
<1>1. F \in Function /\ WellFormed(F) /\ Verified(F) /\ Listed(F)
  BY TheFunction, RegularHere DEF Merging
<1>2. bi \in Nat /\ bi \in DOMAIN F.blocks /\ F.blocks[bi].preds = BB.preds
  BY <1>1, FunctionFacts DEF Merging, BB
<1>3. pi \in Nat \ {0}
  <2>1. BB.preds \in Seq(Nat)
    BY <1>1, <1>2, FunctionFacts
  <2>2. pi \in 1..Len(BB.preds) /\ Len(BB.preds) \in Nat
    BY <2>1, SeqFacts DEF Merging
  <2> QED
    BY <2>2
<1>4. Pred \in DOMAIN F.blocks /\ Pred \in Nat
  BY <1>1, <1>2, FunctionFacts DEF WellFormed, Merging, Pred
<1>5. <<Pred, bi>> \notin F.back => Pred < bi
  BY <1>1, <1>2 DEF Listed, Merging, Pred
<1> QED
  BY <1>1, <1>2, <1>3, <1>4, <1>5

\* What a terminator asks for is there at the end of the block it asks in.
LEMMA AskedFacts ==
    ASSUME Merging, <<Pred, bi>> \notin F.back
    PROVE  /\ AskedIn \in DOMAIN F.blocks /\ AskedIn \in Nat /\ AskedIn <= Pred
           /\ \A v \in Asked(F.blocks[Pred].term) :
                /\ v \in Value /\ IsOperand(F, v)
                /\ v.kind = "instr" => Dominates(F, v.b, AskedIn) /\ v.b \in Nat /\ v.b <= AskedIn
<1> DEFINE T == F.blocks[Pred].term
<1>1. /\ F \in Function /\ WellFormed(F) /\ Verified(F) /\ Listed(F)
      /\ Pred \in DOMAIN F.blocks /\ Pred \in Nat
  BY PredFacts
<1>2. T \in Terminator
  BY <1>1, FunctionFacts
<1>3. /\ AskedIn \in DOMAIN F.blocks
      /\ Dominates(F, AskedIn, Pred)
  <2>1. CASE T.op = "br"
    BY <1>1, <2>1 DEF WellFormed, Verified, AskedIn
  <2>2. CASE T.op # "br"
    BY <1>1, <2>2, DominatesSelf DEF AskedIn
  <2> QED
    BY <2>1, <2>2
<1>4. AskedIn \in Nat /\ AskedIn <= Pred
  <2>1. AskedIn \in Nat
    BY <1>1, <1>3, FunctionFacts
  <2> QED
    BY <1>1, <1>3, <2>1, DominatesEarlier
<1>5. ASSUME NEW v \in Asked(T)
      PROVE  v \in Value /\ IsOperand(F, v) /\ AvailableAfter(F, v, AskedIn)
  <2>1. CASE T.op = "br"
    <3>1. v \in {T.l, T.r} /\ AskedIn = T.cb
      BY <2>1 DEF Asked, AskedIn
    <3>2. T.l \in Value /\ T.r \in Value
      BY <1>2, <2>1, TerminatorFacts
    <3> QED
      BY <1>1, <2>1, <3>1, <3>2 DEF WellFormed, Verified
  <2>2. CASE T.op = "switch"
    <3>1. v = T.val /\ AskedIn = Pred
      BY <2>2 DEF Asked, AskedIn
    <3>2. T.val \in Value
      BY <1>2, <2>2, TerminatorFacts
    <3> QED
      BY <1>1, <2>2, <3>1, <3>2 DEF WellFormed, Verified
  <2>3. CASE T.op = "other"
    BY <2>3 DEF Asked
  <2> QED
    BY <1>2, <2>1, <2>2, <2>3, TerminatorFacts
<1>6. ASSUME NEW v \in Asked(T), v.kind = "instr"
      PROVE  Dominates(F, v.b, AskedIn) /\ v.b \in Nat /\ v.b <= AskedIn
  <2>1. v \in Value /\ Dominates(F, v.b, AskedIn)
    BY <1>5, <1>6 DEF AvailableAfter
  <2>2. v.b \in Nat
    BY <1>6, <2>1 DEF Value
  <2> QED
    BY <1>1, <2>1, <2>2, DominatesEarlier
<1> QED
  BY <1>3, <1>4, <1>5, <1>6

\* Asking for the operands of its terminator changes no map.
LEMMA AskedThereIdle ==
    ASSUME Merging, <<Pred, bi>> \notin F.back
    PROVE  /\ DOMAIN AskedThere = DOMAIN FuncVRMs
           /\ \A c \in DOMAIN FuncVRMs :
                /\ DOMAIN AskedThere[c] = DOMAIN FuncVRMs[c]
                /\ \A v \in DOMAIN FuncVRMs[c] : AskedThere[c][v] = FuncVRMs[c][v]
<1>1. /\ Sane /\ Regular /\ DOMAIN FuncVRMs = DOMAIN F.blocks
      /\ MapsCarry(FuncVRMs, bi, pi) /\ MapsComplete(FuncVRMs, bi, ii)
  BY DEF Merging, MapsType, MapsSound
<1>2. /\ AskedIn \in DOMAIN F.blocks /\ AskedIn \in Nat /\ AskedIn < bi /\ bi \in Nat /\ pi \in Nat
  BY PredFacts, AskedFacts
<1>3. ASSUME NEW v \in Asked(F.blocks[Pred].term), v.kind = "instr",
             v \notin DOMAIN FuncVRMs[AskedIn]
      PROVE  GlobalRange(v).s = {}
  <2>1. /\ v \in Value /\ IsOperand(F, v)
        /\ Dominates(F, v.b, AskedIn) /\ v.b \in Nat /\ v.b <= AskedIn
    BY <1>3, AskedFacts
  <2>2. Settled(AskedIn, bi, pi) /\ Before(v.b, v.i, bi, ii)
    BY <1>2, <2>1 DEF Settled, Before
  <2> QED
    BY <1>1, <1>2, <1>3, <2>1, <2>2, NothingFresh
<1> QED
  BY <1>1, <1>2, <1>3, AskIdle DEF AskedThere

\* An insertion changes no range that is there.
LEMMA InsertAbsentFacts ==
    ASSUME NEW V, NEW v, NEW r
    PROVE  LET W == InsertAbsent(V, v, r)
           IN /\ \A u \in DOMAIN V : u \in DOMAIN W /\ W[u] = V[u]
              /\ \A u \in DOMAIN W : u \in DOMAIN V \/ (u = v /\ v.kind # "const")
BY DEF InsertAbsent

\* So the terminator of a predecessor takes nothing from its map.
LEMMA RefinedFacts ==
    ASSUME Merging, <<Pred, bi>> \notin F.back
    PROVE  /\ \A v \in DOMAIN FuncVRMs[Pred] : v \in DOMAIN Refined /\ Refined[v] = FuncVRMs[Pred][v]
           /\ \A v \in DOMAIN Refined :
                \/ v \in DOMAIN FuncVRMs[Pred]
                \/ v \in Value /\ v.kind = "instr" /\ v.b \in Nat /\ v.b <= Pred
<1> DEFINE T == F.blocks[Pred].term
           V == FuncVRMs[Pred]
<1>1. \A v \in Asked(T) :
        v.kind # "const" => v \in Value /\ v.kind = "instr" /\ v.b \in Nat /\ v.b <= Pred
  <2>1. Pred \in Nat
    BY PredFacts
  <2> QED
    BY <2>1, AskedFacts DEF IsOperand
<1>2. /\ \A v \in DOMAIN V : v \in DOMAIN Refined /\ Refined[v] = V[v]
      /\ \A v \in DOMAIN Refined : v \in DOMAIN V \/ (v \in Asked(T) /\ v.kind # "const")
  <2>1. CASE T.op = "br"
    <3>1. PICK r1, r2 : Refined = InsertAbsent(InsertAbsent(V, T.l, r1), T.r, r2)
      BY <2>1 DEF Refined, visitTerminator, visitBranchInst
    <3>2. Asked(T) = {T.l, T.r}
      BY <2>1 DEF Asked
    <3> DEFINE W == InsertAbsent(V, T.l, r1)
    <3>3. /\ \A u \in DOMAIN V : u \in DOMAIN W /\ W[u] = V[u]
          /\ \A u \in DOMAIN W : u \in DOMAIN V \/ (u = T.l /\ T.l.kind # "const")
      BY InsertAbsentFacts
    <3>4. /\ \A u \in DOMAIN W : u \in DOMAIN Refined /\ Refined[u] = W[u]
          /\ \A u \in DOMAIN Refined : u \in DOMAIN W \/ (u = T.r /\ T.r.kind # "const")
      BY <3>1, InsertAbsentFacts
    <3> HIDE DEF W, V, T
    <3> QED
      BY <3>2, <3>3, <3>4
  <2>2. CASE T.op = "switch"
    <3>1. PICK r : Refined = InsertAbsent(V, T.val, r)
      BY <2>2 DEF Refined, visitTerminator, visitSwitchInst
    <3>2. Asked(T) = {T.val}
      BY <2>2 DEF Asked
    <3> QED
      BY <3>1, <3>2, InsertAbsentFacts
  <2>3. CASE T.op = "other"
    BY <2>3 DEF Refined, visitTerminator
  <2> QED
    <3>1. T \in Terminator
      BY PredFacts, FunctionFacts
    <3> QED
      BY <2>1, <2>2, <2>3, <3>1, TerminatorFacts
<1> QED
  BY <1>1, <1>2

\* The union of two maps covers both.
LEMMA UnionMapsCovers ==
    ASSUME NEW V, MapType(V), NEW W, MapType(W)
    PROVE  LET U == UnionMaps(V, W)
           IN /\ DOMAIN U = DOMAIN V \cup DOMAIN W
              /\ \A v \in DOMAIN V : V[v].s \subseteq U[v].s
              /\ \A v \in DOMAIN W : W[v].s \subseteq U[v].s
<1> DEFINE U == UnionMaps(V, W)
<1>1. DOMAIN U = DOMAIN V \cup DOMAIN W
  BY DEF UnionMaps
<1>2. ASSUME NEW v \in DOMAIN U
      PROVE  /\ v \in DOMAIN V => V[v].s \subseteq U[v].s
             /\ v \in DOMAIN W => W[v].s \subseteq U[v].s
  <2>1. CASE v \notin DOMAIN W
    BY <1>1, <2>1 DEF UnionMaps
  <2>2. CASE v \notin DOMAIN V
    BY <1>1, <2>2 DEF UnionMaps
  <2>3. CASE v \in DOMAIN V /\ v \in DOMAIN W
    <3>1. U[v] = safeUnion(V[v], W[v])
      BY <2>3 DEF UnionMaps
    <3>2. v.w \in Widths /\ V[v] \in RangeOf(v.w) /\ W[v] \in RangeOf(v.w)
      BY <2>3 DEF MapType
    <3>3. V[v] \in CRange /\ W[v] \in CRange /\ V[v].w = W[v].w
      BY <3>2, InCRange
    <3> QED
      BY <3>1, <3>3, UnionCovers
  <2> QED
    BY <2>1, <2>2, <2>3
<1> QED
  BY <1>1, <1>2

\* The maps after the merge of an edge that is no back edge.
Joined(M) ==
    /\ \A b \in DOMAIN F.blocks : b # bi =>
         /\ DOMAIN M[b] = DOMAIN FuncVRMs[b]
         /\ \A v \in DOMAIN M[b] : M[b][v] = FuncVRMs[b][v]
    /\ \A v \in DOMAIN M[bi] :
         \/ v \in DOMAIN FuncVRMs[bi] \cup DOMAIN FuncVRMs[Pred]
         \/ v \in Value /\ v.kind = "instr" /\ v.b \in Nat /\ v.b <= Pred
    /\ \A v \in DOMAIN FuncVRMs[Pred] :
         v \in DOMAIN M[bi] /\ FuncVRMs[Pred][v].s \subseteq M[bi][v].s

\* The merge of a predecessor joins its map into that of the block,
LEMMA MergeMaps ==
    ASSUME Merging, MergePredecessor, <<Pred, bi>> \notin F.back
    PROVE  Joined(FuncVRMs')
<1>1. FuncVRMs' = [AskedThere EXCEPT ![bi] = UnionMaps(@, Refined)]
  BY DEF MergePredecessor, Refined, AskedThere, AskedIn, Pred
<1>2. /\ DOMAIN AskedThere = DOMAIN FuncVRMs /\ DOMAIN FuncVRMs = DOMAIN F.blocks
      /\ \A c \in DOMAIN FuncVRMs :
           /\ DOMAIN AskedThere[c] = DOMAIN FuncVRMs[c]
           /\ \A v \in DOMAIN FuncVRMs[c] : AskedThere[c][v] = FuncVRMs[c][v]
  BY AskedThereIdle DEF Merging, MapsType
<1>3. bi \in DOMAIN F.blocks /\ Pred \in DOMAIN F.blocks /\ Sane /\ MapsType(FuncVRMs)
  BY PredFacts DEF Merging
<1>4. MapsType(AskedThere)
  <2>1. \A v \in Asked(F.blocks[Pred].term) : v \in Value /\ IsOperand(F, v)
    BY AskedFacts
  <2>2. AskedIn \in DOMAIN F.blocks
    BY AskedFacts
  <2> QED
    BY <1>3, <2>1, <2>2, AskType DEF AskedThere
<1>5. MapType(Refined)
  <2>1. MapType(FuncVRMs[Pred])
    BY <1>2, <1>3 DEF MapsType
  <2> QED
    BY <1>3, <1>4, <2>1, VisitTerminatorType DEF Refined
<1>6. MapType(AskedThere[bi])
  BY <1>3, <1>4 DEF MapsType
<1>7. /\ \A b \in DOMAIN F.blocks : b # bi => FuncVRMs'[b] = AskedThere[b]
      /\ FuncVRMs'[bi] = UnionMaps(AskedThere[bi], Refined)
  BY <1>1, <1>2, <1>3
<1>8. /\ DOMAIN FuncVRMs'[bi] = DOMAIN FuncVRMs[bi] \cup DOMAIN Refined
      /\ \A v \in DOMAIN Refined : Refined[v].s \subseteq FuncVRMs'[bi][v].s
  <2> DEFINE V == AskedThere[bi]
  <2>1. DOMAIN V = DOMAIN FuncVRMs[bi]
    BY <1>2, <1>3
  <2>2. MapType(V) /\ FuncVRMs'[bi] = UnionMaps(V, Refined)
    BY <1>6, <1>7
  <2> HIDE DEF V
  <2>3. /\ DOMAIN UnionMaps(V, Refined) = DOMAIN V \cup DOMAIN Refined
        /\ \A v \in DOMAIN Refined : Refined[v].s \subseteq UnionMaps(V, Refined)[v].s
    BY <1>5, <2>2, UnionMapsCovers
  <2> QED
    BY <2>1, <2>2, <2>3
<1> QED
  BY <1>2, <1>7, <1>8, RefinedFacts DEF Joined

\* which then covers what dominates the block.
LEMMA JoinMapsSound ==
    ASSUME Merging, <<Pred, bi>> \notin F.back, NEW M, Joined(M)
    PROVE  MapsSound(M, bi, pi + 1, ii)
<1>1. /\ Sane /\ Regular /\ ii = 1 /\ bi \in DOMAIN F.blocks /\ bi \in Nat /\ pi \in Nat
      /\ F \in Function /\ WellFormed(F) /\ Listed(F)
      /\ Pred \in DOMAIN F.blocks /\ Pred \in Nat /\ Pred < bi
      /\ MapsOwn(FuncVRMs, bi, ii) /\ MapsComplete(FuncVRMs, bi, ii)
      /\ MapsCarry(FuncVRMs, bi, pi) /\ SitesSound(FuncVRMs, bi, ii)
  BY PredFacts DEF Merging, MapsSound
<1>2. ASSUME NEW b \in DOMAIN F.blocks, NEW i \in DOMAIN F.blocks[b].instrs, Before(b, i, bi, ii)
      PROVE  b # bi
  <2>1. b \in Nat /\ i \in Nat \ {0}
    BY <1>1, SiteHere
  <2> QED
    BY <1>1, <1>2, <2>1 DEF Before
<1>3. MapsOwn(M, bi, ii)
  <2> SUFFICES ASSUME NEW b \in DOMAIN F.blocks, NEW v \in DOMAIN M[b]
               PROVE  v \in Value /\ v.kind = "instr" /\ v.b <= b /\ (v.b = b => Before(b, v.i, bi, ii))
    BY DEF MapsOwn
  <2>1. CASE v \in DOMAIN FuncVRMs[b]
    BY <1>1, <2>1 DEF MapsOwn
  <2>2. CASE b = bi /\ v \in DOMAIN FuncVRMs[Pred]
    <3>1. v \in Value /\ v.kind = "instr" /\ v.b <= Pred
      BY <1>1, <2>2 DEF MapsOwn
    <3>2. v.b \in Nat
      BY <3>1 DEF Value
    <3> QED
      BY <1>1, <2>2, <3>1, <3>2
  <2>3. CASE b = bi /\ v \in Value /\ v.kind = "instr" /\ v.b \in Nat /\ v.b <= Pred
    BY <1>1, <2>3
  <2> QED
    BY <2>1, <2>2, <2>3 DEF Joined
<1>4. MapsComplete(M, bi, ii)
  BY <1>1, <1>2 DEF MapsComplete, Joined
<1>5. MapsCarry(M, bi, pi + 1)
  <2> SUFFICES ASSUME NEW b \in DOMAIN F.blocks, NEW d \in DOMAIN F.blocks,
                      d # b, Dominates(F, d, b), b < bi \/ b = bi,
                      NEW i \in DOMAIN F.blocks[d].instrs, ValueAt(d, i) \in DOMAIN M[d]
               PROVE  /\ ValueAt(d, i) \in DOMAIN M[b]
                      /\ M[d][ValueAt(d, i)].s \subseteq M[b][ValueAt(d, i)].s
    BY DEF MapsCarry
  <2>1. d \in Nat /\ b \in Nat
    BY <1>1, FunctionFacts
  <2>2. d <= b
    BY <1>1, <2>1, DominatesEarlier
  <2>3. d # bi
    BY <1>1, <2>1, <2>2
  <2>4. ValueAt(d, i) \in DOMAIN FuncVRMs[d] /\ M[d][ValueAt(d, i)] = FuncVRMs[d][ValueAt(d, i)]
    BY <2>3 DEF Joined
  <2>5. CASE b < bi
    <3>1. b # bi
      BY <1>1, <2>1, <2>5
    <3>2. /\ ValueAt(d, i) \in DOMAIN FuncVRMs[b]
          /\ FuncVRMs[d][ValueAt(d, i)].s \subseteq FuncVRMs[b][ValueAt(d, i)].s
      BY <1>1, <2>4, <2>5 DEF MapsCarry
    <3> QED
      BY <2>4, <3>1, <3>2 DEF Joined
  <2>6. CASE b = bi
    <3>1. Dominates(F, d, Pred)
      BY <2>6, DominatesPreds, PredFacts DEF Pred, Merging
    <3>2. Settled(Pred, bi, pi)
      BY <1>1 DEF Settled
    <3>3. /\ ValueAt(d, i) \in DOMAIN FuncVRMs[Pred]
          /\ FuncVRMs[d][ValueAt(d, i)].s \subseteq FuncVRMs[Pred][ValueAt(d, i)].s
      BY <1>1, <2>4, <3>1, <3>2, Carried
    <3> QED
      BY <2>4, <2>6, <3>3 DEF Joined
  <2> QED
    BY <2>5, <2>6
<1>6. SitesSound(M, bi, ii)
  <2> DEFINE k == ii
  <2>1. \A b \in DOMAIN F.blocks : \A i \in DOMAIN F.blocks[b].instrs :
          Before(b, i, bi, ii) => DefRange(M, bi, k, b, i) = DefRange(FuncVRMs, bi, ii, b, i)
    BY <1>2 DEF DefRange, Joined
  <2> HIDE DEF k
  <2>2. bi \in Nat /\ ii \in Nat
    BY <1>1
  <2>3. /\ \A b \in DOMAIN F.blocks : \A i \in DOMAIN F.blocks[b].instrs :
             Before(b, i, bi, ii) =>
               Here(FuncVRMs, bi, ii).at[<<mod, fi, b, i>>] = Here(M, bi, k).at[<<mod, fi, b, i>>]
        /\ \A s \in ProgSites :
             s[1] = mod /\ s[2] = fi /\ Before(s[3], s[4], bi, ii) => SiteSound(Here(M, bi, k), s)
    <3>1. Sane /\ Regular /\ SitesSound(FuncVRMs, bi, ii)
      BY <1>1
    <3> QED
      BY <2>1, <2>2, <3>1, SitesElsewhere
  <2> QED
    BY <2>3 DEF SitesSound, k
<1> QED
  BY <1>3, <1>4, <1>5, <1>6 DEF MapsSound

\* So does the merge over a back edge, which is passed over.
LEMMA MergeMapsSound ==
    ASSUME Merging, MergePredecessor
    PROVE  MapsSound(FuncVRMs', bi, pi + 1, ii)
<1>1. CASE <<Pred, bi>> \notin F.back
  BY <1>1, MergeMaps, JoinMapsSound
<1>2. CASE <<Pred, bi>> \in F.back
  <2>1. FuncVRMs' = FuncVRMs
    BY <1>2 DEF MergePredecessor, Pred
  <2>2. Entered(bi, pi + 1) => Entered(bi, pi)
    <3> SUFFICES ASSUME NEW n \in DOMAIN F.blocks[bi].preds, n < pi + 1,
                        <<F.blocks[bi].preds[n], bi>> \notin F.back
                 PROVE  n < pi
      BY DEF Entered
    <3>1. F.blocks[bi].preds = BB.preds /\ pi \in Nat /\ bi \in DOMAIN F.blocks /\ F \in Function
      BY PredFacts DEF Merging
    <3>2. n # pi
      BY <1>2, <3>1 DEF Pred
    <3>3. n \in Nat
      <4>1. F.blocks[bi].preds \in Seq(Nat)
        BY <3>1, FunctionFacts
      <4> QED
        BY <4>1, SeqFacts
    <3> QED
      BY <3>1, <3>2, <3>3
  <2> QED
    BY <2>1, <2>2 DEF Merging, MapsSound, MapsCarry
<1> QED
  BY <1>1, <1>2

----------------------------------------------------------------------------
(* From block to block, and from function to function *)

\* Nothing has been visited when a function begins.
LEMMA BeginMapsSound ==
    ASSUME Sane, NEW M, \A b \in DOMAIN F.blocks : DOMAIN M[b] = {}
    PROVE  MapsSound(M, 1, 1, 1)
<1>1. ASSUME NEW b \in DOMAIN F.blocks, NEW i \in DOMAIN F.blocks[b].instrs
      PROVE  ~Before(b, i, 1, 1)
  <2>1. b \in Nat \ {0} /\ i \in Nat \ {0}
    BY SiteHere
  <2> QED
    BY <2>1 DEF Before
<1>2. SitesSound(M, 1, 1)
  BY <1>1, HereSite DEF SitesSound
<1> QED
  BY <1>1, <1>2 DEF MapsSound, MapsOwn, MapsComplete, MapsCarry

\* The pass has merged and visited all of block c.
BlockDone(M, c, p, j) ==
    /\ c \in DOMAIN F.blocks /\ c \in Nat /\ p \in Nat /\ j \in Nat
    /\ p > Len(F.blocks[c].preds) /\ j > Len(F.blocks[c].instrs)
    /\ MapsSound(M, c, p, j)

\* What is said of the end of a block is said of the beginning of the next.
LEMMA NextMapsSound ==
    ASSUME Sane, Regular, NEW M, NEW c, NEW p, NEW j, BlockDone(M, c, p, j)
    PROVE  MapsSound(M, c + 1, 1, 1)
<1>1. F \in Function /\ WellFormed(F) /\ Listed(F)
  BY TheFunction, RegularHere
<1>2. /\ c \in DOMAIN F.blocks /\ c \in Nat /\ p \in Nat /\ j \in Nat
      /\ p > Len(F.blocks[c].preds) /\ j > Len(F.blocks[c].instrs)
      /\ MapsOwn(M, c, j) /\ MapsComplete(M, c, j) /\ MapsCarry(M, c, p) /\ SitesSound(M, c, j)
  BY DEF BlockDone, MapsSound
<1>3. ASSUME NEW b \in DOMAIN F.blocks, NEW i \in DOMAIN F.blocks[b].instrs
      PROVE  /\ b \in Nat /\ i \in Nat \ {0}
             /\ Before(b, i, c + 1, 1) <=> Before(b, i, c, j)
  <2>1. b \in Nat \ {0} /\ i \in Nat \ {0}
    BY SiteHere
  <2>2. i <= Len(F.blocks[b].instrs) /\ Len(F.blocks[b].instrs) \in Nat
    <3>1. F.blocks[b].instrs \in Seq(Instr)
      BY <1>1, FunctionFacts
    <3> QED
      BY <3>1, SeqFacts
  <2> QED
    BY <1>2, <2>1, <2>2 DEF Before
<1>4. MapsOwn(M, c + 1, 1)
  <2> SUFFICES ASSUME NEW b \in DOMAIN F.blocks, NEW v \in DOMAIN M[b]
               PROVE  v \in Value /\ v.kind = "instr" /\ v.b <= b /\ (v.b = b => Before(b, v.i, c + 1, 1))
    BY DEF MapsOwn
  <2>1. v \in Value /\ v.kind = "instr" /\ v.b <= b /\ (v.b = b => Before(b, v.i, c, j))
    BY <1>2 DEF MapsOwn
  <2>2. b \in Nat
    BY <1>1, FunctionFacts
  <2> QED
    BY <1>2, <2>1, <2>2 DEF Before
<1>5. MapsComplete(M, c + 1, 1)
  BY <1>2, <1>3 DEF MapsComplete
<1>6. MapsCarry(M, c + 1, 1)
  <2> SUFFICES ASSUME NEW b \in DOMAIN F.blocks, NEW d \in DOMAIN F.blocks,
                      d # b, Dominates(F, d, b), b < c + 1 \/ (b = c + 1 /\ Entered(c + 1, 1)),
                      NEW i \in DOMAIN F.blocks[d].instrs, ValueAt(d, i) \in DOMAIN M[d]
               PROVE  /\ ValueAt(d, i) \in DOMAIN M[b]
                      /\ M[d][ValueAt(d, i)].s \subseteq M[b][ValueAt(d, i)].s
    BY DEF MapsCarry
  <2>1. b \in Nat
    BY <1>1, FunctionFacts
  <2>2. b # c + 1
    <3> SUFFICES ASSUME b = c + 1 PROVE FALSE
      OBVIOUS
    <3>1. Entered(b, 1)
      BY <1>2, <2>1
    <3>2. PICK n \in DOMAIN F.blocks[b].preds : n < 1
      BY <3>1 DEF Entered
    <3>3. F.blocks[b].preds \in Seq(Nat)
      BY <1>1, FunctionFacts
    <3> QED
      BY <3>2, <3>3, SeqFacts
  <2>3. Settled(b, c, p)
    BY <1>2, <2>1, <2>2 DEF Settled
  <2> QED
    BY <1>2, <2>3, Carried
<1>7. SitesSound(M, c + 1, 1)
  <2> DEFINE k == c + 1
  <2>1. \A b \in DOMAIN F.blocks : \A i \in DOMAIN F.blocks[b].instrs :
          Before(b, i, c, j) => DefRange(M, k, 1, b, i) = DefRange(M, c, j, b, i)
    BY <1>3 DEF DefRange
  <2> HIDE DEF k
  <2>2. c \in Nat /\ j \in Nat /\ SitesSound(M, c, j)
    BY <1>2
  <2>3. /\ \A b \in DOMAIN F.blocks : \A i \in DOMAIN F.blocks[b].instrs :
             Before(b, i, c, j) =>
               Here(M, c, j).at[<<mod, fi, b, i>>] = Here(M, k, 1).at[<<mod, fi, b, i>>]
        /\ \A s \in ProgSites :
             s[1] = mod /\ s[2] = fi /\ Before(s[3], s[4], c, j) => SiteSound(Here(M, k, 1), s)
    BY <2>1, <2>2, SitesElsewhere
  <2>4. \A s \in ProgSites : s[1] = mod /\ s[2] = fi =>
          s[3] \in DOMAIN F.blocks /\ s[4] \in DOMAIN F.blocks[s[3]].instrs
    BY HereSite
  <2> QED
    BY <1>3, <2>3, <2>4 DEF SitesSound, k
<1> QED
  BY <1>4, <1>5, <1>6, <1>7 DEF MapsSound

\* When its last block is done, so is the function.
LEMMA EndFnSound ==
    ASSUME Sane, bi \in Nat, bi > Len(F.blocks), MapsSound(FuncVRMs, bi, pi, ii)
    PROVE  FnSound(mod, fi)
<1> DEFINE at == AtFn(FuncVRMs, bi, ii)
<1>1. ASSUME NEW s \in ProgSites, s[1] = mod, s[2] = fi
      PROVE  SiteSound([at |-> at, held |-> HeldIR], s)
  <2>1. s[3] \in DOMAIN F.blocks
    BY <1>1, HereSite
  <2>2. s[3] \in 1..Len(F.blocks) /\ Len(F.blocks) \in Nat
    BY <2>1, TheFunction, FunctionFacts
  <2>3. Before(s[3], s[4], bi, ii)
    BY <2>2 DEF Before
  <2> QED
    BY <1>1, <2>3 DEF MapsSound, SitesSound, Here
<1> QED
  BY <1>1 DEF FnSound

----------------------------------------------------------------------------
(* What a step leaves as it is *)

\* What is covered stays so while the ranges do,
LEMMA SameFnSound ==
    ASSUME prog' = prog, IntRanges' = IntRanges
    PROVE  \A m, k : FnSound(m, k)' <=> FnSound(m, k)
<1>1. ProgSites' = ProgSites /\ \A P, s : SiteSound(P, s)' <=> SiteSound(P, s)
  BY SameSites, SameSoundness
<1>2. HeldIR' = HeldIR
  BY SameUses DEF HeldIR
<1> QED
  BY <1>1, <1>2 DEF FnSound

\* and so does what is said of the maps.
LEMMA SameMapsSound ==
    ASSUME prog' = prog, IntRanges' = IntRanges, mod' = mod, fi' = fi
    PROVE  \A M, c, p, j : MapsSound(M, c, p, j)' <=> MapsSound(M, c, p, j)
<1>1. ProgSites' = ProgSites /\ \A P, s : SiteSound(P, s)' <=> SiteSound(P, s)
  BY SameSites, SameSoundness
<1>2. HeldIR' = HeldIR
  BY SameUses DEF HeldIR
<1>3. F' = F
  BY DEF F, Functions
<1>4. \A v : GlobalRange(v)' = GlobalRange(v)
  BY <1>3 DEF GlobalRange, InstrAt
<1>5. \A b, i : ValueAt(b, i)' = ValueAt(b, i)
  BY <1>3 DEF ValueAt
<1>6. \A M, c, j, b, i : DefRange(M, c, j, b, i)' = DefRange(M, c, j, b, i)
  BY <1>5 DEF DefRange, Before
<1>7. \A M, c, j : AtFn(M, c, j)' = AtFn(M, c, j)
  BY <1>1, <1>6 DEF AtFn
<1>8. \A M, c, j : Here(M, c, j)' = Here(M, c, j)
  BY <1>2, <1>7 DEF Here
<1>9. \A M, c, j : SitesSound(M, c, j)' <=> SitesSound(M, c, j)
  BY <1>1, <1>8 DEF SitesSound, Before
<1>10. \A M, c, j : MapsOwn(M, c, j)' <=> MapsOwn(M, c, j)
  BY <1>3 DEF MapsOwn, Before
<1>11. \A M, c, j : MapsComplete(M, c, j)' <=> MapsComplete(M, c, j)
  BY <1>3, <1>4, <1>5 DEF MapsComplete, Before
<1>12. \A c, p : Entered(c, p)' <=> Entered(c, p)
  BY <1>3 DEF Entered
<1>13. \A M, c, p : MapsCarry(M, c, p)' <=> MapsCarry(M, c, p)
  BY <1>3, <1>5, <1>12 DEF MapsCarry
<1> QED
  BY <1>9, <1>10, <1>11, <1>13 DEF MapsSound

\* No step changes the program.
LEMMA SameProgram ==
    ASSUME [Next]_vars
    PROVE  prog' = prog
BY DEF Next, vars, doInitialization, Drive, Done, BeginFunction, MergePredecessor,
       VisitInstruction, NextBlock, NextFunction, SweepAgain, ReturnFromModule,
       doFinalization, passRest

----------------------------------------------------------------------------
(* Every step keeps the invariant behind the soundness *)

\* A module ends between two blocks.
LEMMA AtEndFacts ==
    ASSUME Inv, AtEnd
    PROVE  bi = 0 /\ mod \in ModuleNo
BY ProgramFacts DEF AtEnd, Inv, Position, InModulePass, DriverTypeOK, ModuleNo

\* After the last module the pass is at no block.
LEMMA OutsideFacts ==
    ASSUME Inv, Control, ~InModulePass
    PROVE  bi = 0 /\ fi = 1 /\ pi = 1 /\ ii = 1 /\ ~ret /\ ~Changed
BY DEF Inv, Position, Control

\* Every step keeps the control where it may be.
LEMMA ControlStep ==
    ASSUME Inv, Control, [Next]_vars
    PROVE  Control'
<1>1. bi \in Nat /\ fi \in Nat /\ ii \in Nat /\ pi \in Nat
  BY DEF Inv, Position
<1>2. CASE UNCHANGED vars
  BY <1>2 DEF vars, driverVars, passVars, position, Control, Merged, InBlock, InFunction,
     InModulePass, BB, F, Functions
<1>3. CASE doInitialization \/ doFinalization
  <2>1. UNCHANGED <<fi, bi, pi, ii, Changed, ret, phase>> /\ phase \in {"init", "final"}
    BY <1>3 DEF doInitialization, doFinalization, position, ForModule
  <2>2. ~InModulePass /\ ~InModulePass'
    BY <2>1 DEF InModulePass
  <2> QED
    BY <2>1, <2>2, OutsideFacts DEF Control
<1>4. CASE Drive
  <2>1. UNCHANGED <<fi, bi, pi, ii, Changed, ret>> /\ mod > NumModules
    BY <1>4 DEF Drive, passVars, position, BeginSweep, BeginFinal, Finish
  <2>2. ~InModulePass
    BY <2>1, IdsAssumption DEF InModulePass, Inv, DriverTypeOK
  <2> QED
    BY <2>1, <2>2, OutsideFacts DEF Control
<1>5. CASE BeginFunction
  <2>1. bi = 0 /\ bi' = 1 /\ UNCHANGED <<fi, pi, ii, phase, mod>> /\ InModulePass
    BY <1>5 DEF BeginFunction, passRest, driverVars
  <2> QED
    BY <2>1 DEF Control, InModulePass
<1>6. CASE MergePredecessor
  <2>1. /\ InBlock /\ pi <= Len(BB.preds)
        /\ UNCHANGED <<fi, bi, ii, phase, mod>> /\ InModulePass
    BY <1>6 DEF MergePredecessor, passRest, driverVars, InBlock, InFunction
  <2>2. bi > 0 /\ ~Merged
    <3>1. BB.preds \in Seq(Nat)
      <4>1. F \in Function
        BY <2>1, InFunctionFacts, TheFunction DEF InBlock
      <4> QED
        BY <1>1, <2>1, <4>1, FunctionFacts DEF BB, InBlock, InFunction
    <3>2. Len(BB.preds) \in Nat
      BY <3>1
    <3> QED
      BY <1>1, <2>1, <3>2 DEF Merged, InBlock, InFunction
  <2>3. ~(ii > 1)
    BY <2>2 DEF Control
  <2> QED
    BY <1>1, <2>1, <2>2, <2>3 DEF Control, InModulePass
<1>7. CASE VisitInstruction
  <2>1. Merged /\ UNCHANGED <<phase, mod, prog, fi, bi, pi>> /\ bi > 0 /\ InModulePass
    BY <1>7 DEF VisitInstruction, driverVars, Merged, InBlock, InFunction
  <2>2. Merged' /\ InModulePass'
    BY <2>1 DEF Merged, InBlock, InFunction, InModulePass, BB, F, Functions
  <2> QED
    BY <1>1, <2>1, <2>2 DEF Control
<1>8. CASE NextBlock \/ NextFunction
  <2>1. /\ pi' = 1 /\ ii' = 1 /\ UNCHANGED <<phase, mod>> /\ InModulePass
    BY <1>8 DEF NextBlock, NextFunction, passRest, driverVars, Merged, InBlock, InFunction
  <2> QED
    BY <2>1 DEF Control, InModulePass
<1>9. CASE SweepAgain
  <2>1. /\ UNCHANGED <<phase, mod, bi, pi, ii>> /\ InModulePass /\ bi = 0
    BY <1>9, AtEndFacts DEF SweepAgain, AtEnd, driverVars
  <2> QED
    BY <2>1 DEF Control, InModulePass
<1>10. CASE ReturnFromModule
  <2>1. /\ UNCHANGED <<bi, pi, ii, Changed>> /\ bi = 0
        /\ fi' = 1 /\ ~ret' /\ ~Changed
    BY <1>10, AtEndFacts DEF ReturnFromModule
  <2> QED
    BY <2>1 DEF Control
<1> QED
  BY <1>2, <1>3, <1>4, <1>5, <1>6, <1>7, <1>8, <1>9, <1>10 DEF Next, Done

\* The updates of the initializers of a module.
Leaf(n) == prog.init[mod][n]
InitUpdates ==
    [n \in DOMAIN prog.init[mod] |->
       [id |-> Leaf(n).id,
        r |-> IF Collected(Leaf(n)) THEN Singleton(Leaf(n).w, Leaf(n).c) ELSE EmptyRange(Leaf(n).w)]]

\* The updates of an initialization are those of its leaves.
LEMMA InitUpdatesFacts ==
    ASSUME prog \in Programs, mod \in ModuleNo
    PROVE  /\ Len(InitUpdates) \in Nat /\ 1..Len(InitUpdates) = DOMAIN prog.init[mod]
           /\ \A n \in 1..Len(InitUpdates) :
                /\ IsUpdate(InitUpdates[n]) /\ <<InitUpdates[n].id, InitUpdates[n].r.w>> \in Uses
                /\ Collected(Leaf(n)) =>
                     InitUpdates[n] = [id |-> Leaf(n).id, r |-> Singleton(Leaf(n).w, Leaf(n).c)]
<1> DEFINE leaves == prog.init[mod]
<1>1. leaves \in Seq(InitLeaf)
  BY ProgramFacts
<1> HIDE DEF leaves
<1>2. Len(leaves) \in Nat /\ DOMAIN leaves = 1..Len(leaves)
      /\ \A n \in 1..Len(leaves) : leaves[n] \in InitLeaf
  BY <1>1, SeqFacts
<1>3. Len(InitUpdates) = Len(leaves)
  BY <1>2, LenOfNumbered DEF InitUpdates, leaves
<1>4. ASSUME NEW n \in 1..Len(leaves)
      PROVE  /\ IsUpdate(InitUpdates[n]) /\ <<InitUpdates[n].id, InitUpdates[n].r.w>> \in Uses
             /\ Collected(Leaf(n)) =>
                  InitUpdates[n] = [id |-> Leaf(n).id, r |-> Singleton(Leaf(n).w, Leaf(n).c)]
  <2> DEFINE l == leaves[n]
  <2>1. l.id \in Id /\ l.w \in Widths /\ l.c \in Nat /\ Leaf(n) = l
    BY <1>2 DEF InitLeaf, Leaf, leaves
  <2>2. InitUpdates[n] = [id |-> l.id, r |-> IF Collected(l) THEN Singleton(l.w, l.c) ELSE EmptyRange(l.w)]
    BY <1>2, <2>1 DEF InitUpdates, leaves
  <2>3. <<l.id, l.w>> \in Uses
    <3>1. l \in Leaves
      BY <1>2 DEF Leaves, leaves
    <3> HIDE DEF l
    <3> QED
      BY <3>1 DEF Uses
  <2>4. /\ Singleton(l.w, l.c) \in CRange /\ Singleton(l.w, l.c).w = l.w
        /\ EmptyRange(l.w) \in CRange /\ EmptyRange(l.w).w = l.w
    BY <2>1, SimpleRanges, InCRange
  <2> HIDE DEF l
  <2> QED
    BY <2>1, <2>2, <2>3, <2>4 DEF IsUpdate
<1> QED
  BY <1>2, <1>3, <1>4 DEF leaves

\* After it IntRanges knows those that are collected.
LEMMA InitStep ==
    ASSUME Inv, WidthsIn(IntRanges, Uses), doInitialization
    PROVE  /\ WidthsIn(IntRanges', Uses)
           /\ \A n \in DOMAIN prog.init[mod] : Collected(Leaf(n)) =>
                Knows(IntRanges', [id |-> Leaf(n).id, r |-> Singleton(Leaf(n).w, Leaf(n).c)])
<1>1. IntRanges' = UnionAll(IntRanges, InitUpdates)
  BY DEF doInitialization, InitUpdates, Leaf
<1>2. prog \in Programs /\ mod \in ModuleNo /\ IRType(IntRanges)
  BY ForModuleType DEF Inv, Maps, doInitialization
<1>3. /\ WidthsIn(IntRanges', Uses)
      /\ \A n \in 1..Len(InitUpdates) : Knows(IntRanges', InitUpdates[n])
  BY <1>1, <1>2, InitUpdatesFacts, UnionAllHolds
<1> QED
  BY <1>2, <1>3, InitUpdatesFacts

\* Every step keeps the widths of the ranges,
LEMMA WidthsStep ==
    ASSUME Inv, WidthsIn(IntRanges, Uses), [Next]_vars
    PROVE  WidthsIn(IntRanges, Uses)'
<1>1. Uses' = Uses
  BY SameProgram, SameUses
<1>2. CASE IntRanges' = IntRanges
  BY <1>1, <1>2 DEF WidthsIn
<1>3. CASE doInitialization
  BY <1>1, <1>3, InitStep DEF WidthsIn
<1>4. CASE VisitInstruction
  <2>1. IntRanges' = UnionAll(IntRanges, Updates(FuncVRMs, I))
    BY <1>4 DEF VisitInstruction
  <2>2. AtInstr /\ IRType(IntRanges)
    BY <1>4, VisitFacts DEF Inv, Maps
  <2>3. WidthsIn(IntRanges', Uses)
    <3> DEFINE ups == Updates(FuncVRMs, I)
    <3>1. /\ Len(ups) \in Nat /\ \A m \in 1..Len(ups) : IsUpdate(ups[m])
          /\ \A m \in 1..Len(ups) : ups[m].r.s # {} => <<ups[m].id, ups[m].r.w>> \in Uses
      BY <2>2, UpdatesType, UpdatesUse
    <3> HIDE DEF ups
    <3> QED
      BY <2>1, <2>2, <3>1, UnionAllHolds DEF ups
  <2> QED
    BY <1>1, <2>3 DEF WidthsIn
<1>5. CASE SweepAgain
  <2>1. DOMAIN IntRanges' = DOMAIN IntRanges /\ \A x \in DOMAIN IntRanges : IntRanges'[x].w = IntRanges[x].w
    BY <1>5 DEF SweepAgain, Widen, FullRange
  <2> QED
    BY <1>1, <2>1 DEF WidthsIn
<1>6. CASE UNCHANGED vars \/ Done
  BY <1>2, <1>6 DEF vars, passVars, Done
<1>7. CASE doFinalization \/ MergePredecessor \/ BeginFunction \/ NextBlock \/ NextFunction
           \/ ReturnFromModule \/ Drive
  BY <1>2, <1>7 DEF doFinalization, MergePredecessor, BeginFunction, NextBlock, NextFunction,
     ReturnFromModule, Drive, passVars
<1> QED
  BY <1>3, <1>4, <1>5, <1>6, <1>7 DEF Next

\* what is known of the initializers,
LEMMA InitializedStep ==
    ASSUME Inv, WidthsIn(IntRanges, Uses), Initialized, [Next]_vars
    PROVE  Initialized'
<1>1. prog' = prog /\ Grown(IntRanges, IntRanges')
  BY SameProgram, NextInv
<1> SUFFICES ASSUME NEW m \in ModuleNo, phase' # "init" \/ m < mod',
                    NEW n \in DOMAIN prog.init[m], Collected(prog.init[m][n])
             PROVE  Knows(IntRanges', [id |-> prog.init[m][n].id,
                                       r |-> Singleton(prog.init[m][n].w, prog.init[m][n].c)])
  BY <1>1 DEF Initialized
<1>2. CASE phase # "init" \/ m < mod
  <2>1. Knows(IntRanges, [id |-> prog.init[m][n].id,
                          r |-> Singleton(prog.init[m][n].w, prog.init[m][n].c)])
    BY <1>2 DEF Initialized
  <2> QED
    BY <1>1, <2>1, GrownHolds
<1>3. CASE ~(phase # "init" \/ m < mod)
  <2>1. mod \in Nat /\ m \in Nat /\ m <= NumModules /\ NumModules \in Nat
    BY IdsAssumption DEF Inv, DriverTypeOK, ModuleNo
  <2>2. ~(mod > NumModules)
    BY <1>3, <2>1
  <2>3. doInitialization
    <3>1. CASE UNCHANGED driverVars
      BY <1>3, <3>1 DEF driverVars
    <3>2. CASE Drive
      BY <2>2, <3>2 DEF Drive, BeginSweep, BeginFinal, Finish
    <3>3. ~ReturnFromModule /\ ~doFinalization
      BY <1>3 DEF ReturnFromModule, AtEnd, InModulePass, doFinalization, ForModule
    <3>4. UNCHANGED vars \/ Done => UNCHANGED driverVars
      BY DEF vars, Done
    <3>5. BeginFunction \/ MergePredecessor \/ VisitInstruction \/ NextBlock \/ NextFunction
            \/ SweepAgain => UNCHANGED driverVars
      BY DEF BeginFunction, MergePredecessor, VisitInstruction, NextBlock, NextFunction,
         SweepAgain, passRest
    <3> QED
      BY <3>1, <3>2, <3>3, <3>4, <3>5 DEF Next
  <2>4. mod' = mod + 1 /\ phase' = phase
    BY <2>3 DEF doInitialization, ForModule
  <2>5. m = mod
    BY <1>3, <2>1, <2>4
  <2> QED
    BY <2>3, <2>5, InitStep DEF Leaf
<1> QED
  BY <1>2, <1>3

\* and the marks.
LEMMA MarkedStep ==
    ASSUME Inv, Marked, [Next]_vars
    PROVE  Marked'
<1>1. prog' = prog /\ ProgSites' = ProgSites /\ \A s : At(s)' = At(s)
  BY SameProgram, SameSites
<1>2. CASE doFinalization
  <2> DEFINE marked == {s \in Sites(mod) :
                          /\ At(s).op \in {"load", "call"}
                          /\ At(s).id \in DOMAIN IntRanges \ {NoId}
                          /\ IntRanges[At(s).id].s # Ring(IntRanges[At(s).id].w)}
  <2>1. /\ Meta' = [s \in DOMAIN Meta \cup marked |->
                      IF s \in DOMAIN Meta THEN Meta[s] ELSE IntRanges[At(s).id]]
        /\ UNCHANGED <<IntRanges, phase>> /\ phase = "final" /\ mod \in ModuleNo
    BY <1>2, ForModuleType DEF doFinalization, ForModule, Inv
  <2>2. \A s \in marked : /\ s \in ProgSites /\ At(s).op \in {"load", "call"}
                          /\ At(s).id \in DOMAIN IntRanges \ {NoId}
    BY <2>1 DEF ProgSites
  <2> HIDE DEF marked
  <2> QED
    BY <1>1, <2>1, <2>2 DEF Marked
<1>3. CASE ~doFinalization /\ phase \in {"final", "done"}
  <2>1. UNCHANGED vars \/ Drive \/ Done
    <3>1. ~InModulePass
      BY <1>3 DEF InModulePass
    <3> QED
      BY <1>3, <3>1 DEF Next, doInitialization, ForModule, BeginFunction, MergePredecessor,
         VisitInstruction, Merged, NextBlock, NextFunction, InBlock, InFunction, SweepAgain,
         ReturnFromModule, AtEnd
  <2>2. UNCHANGED <<IntRanges, Meta>> /\ phase' \in {"final", "done"}
    BY <1>3, <2>1 DEF vars, driverVars, Drive, Done, passVars, BeginSweep, BeginFinal, Finish
  <2> QED
    BY <1>1, <1>3, <2>2 DEF Marked
<1>4. CASE ~doFinalization /\ phase \notin {"final", "done"}
  <2>1. Meta' = Meta
    BY <1>4 DEF Next, vars, passVars, Done, Drive, doInitialization, BeginFunction,
       MergePredecessor, VisitInstruction, NextBlock, NextFunction, SweepAgain,
       ReturnFromModule, passRest
  <2> QED
    BY <1>4, <2>1 DEF Marked
<1> QED
  BY <1>2, <1>3, <1>4

\* The facts of a step inside of a function.
LEMMA PassSoundIn ==
    ASSUME Inv, Control, PassSound, InFunction, Regular, Clean
    PROVE  /\ Sane /\ MapsType(FuncVRMs) /\ MapsSound(FuncVRMs, bi, pi, ii)
           /\ \A m, k \in Nat : IsFn(m, k) /\ Earlier(m, k) => FnSound(m, k)
BY InFunctionFacts DEF PassSound, InFunction

\* The modules and their functions are numbered.
LEMMA IsFnFacts ==
    ASSUME prog \in Programs, NEW m, NEW k, IsFn(m, k)
    PROVE  m \in Nat \ {0} /\ m <= NumModules /\ k \in Nat \ {0} /\ k <= Len(prog.code[m])
<1>1. m \in Nat \ {0} /\ m <= NumModules /\ m \in ModuleNo
  BY IdsAssumption DEF IsFn, ModuleNo
<1>2. prog.code[m] \in Seq(Function)
  BY <1>1, RangeAssumption
<1>3. k \in 1..Len(prog.code[m]) /\ Len(prog.code[m]) \in Nat
  BY <1>2, SeqFacts DEF IsFn
<1> QED
  BY <1>1, <1>3

\* A step that stays in its function, and leaves what is known as it is.
LEMMA StayStep ==
    ASSUME PassSound, prog' = prog,
           UNCHANGED <<phase, mod, changed, fi, IntRanges>>, (Clean' => Clean), bi' > 0,
           Regular, Clean => MapsSound(FuncVRMs', bi', pi', ii')
    PROVE  PassSound'
<1> SUFFICES ASSUME Regular', Clean'
             PROVE  /\ \A m, k \in Nat : IsFn(m, k)' /\ Earlier(m, k)' => FnSound(m, k)'
                    /\ MapsSound(FuncVRMs, bi, pi, ii)'
  BY DEF PassSound
<1>1. MapsSound(FuncVRMs', bi', pi', ii')
  OBVIOUS
<1>2. MapsSound(FuncVRMs, bi, pi, ii)'
  BY <1>1, SameMapsSound
<1>3. \A m, k : (IsFn(m, k)' <=> IsFn(m, k)) /\ (Earlier(m, k)' <=> Earlier(m, k))
  BY DEF IsFn, Earlier
<1> QED
  BY <1>2, <1>3, SameFnSound DEF PassSound

\* The visit of an instruction that changes nothing.
LEMMA VisitClean ==
    ASSUME Inv, VisitInstruction, Clean'
    PROVE  Clean /\ IntRanges' = IntRanges
             /\ UnionAll(IntRanges, Updates(FuncVRMs, I)) = IntRanges
<1> DEFINE after == UnionAll(IntRanges, Updates(FuncVRMs, I))
           grown == {x \in DOMAIN after : x \notin DOMAIN IntRanges \/ after[x] # IntRanges[x]}
<1>1. /\ IntRanges' = after /\ Changed' = (Changed \/ grown # {})
      /\ UNCHANGED <<phase, changed, ret>>
  BY DEF VisitInstruction, driverVars
<1>2. ~Changed /\ grown = {}
  BY <1>1 DEF Clean
<1>3. Clean
  BY <1>1, <1>2 DEF Clean
<1>4. after = IntRanges
  <2>1. after = [x \in DOMAIN after |-> after[x]] /\ IntRanges = [x \in DOMAIN IntRanges |-> IntRanges[x]]
    BY <1>1, VisitInstructionInv DEF Inv, Maps, IRType
  <2>2. DOMAIN IntRanges \subseteq DOMAIN after
    BY <1>1, VisitInstructionInv DEF Grown
  <2>3. DOMAIN after = DOMAIN IntRanges /\ \A x \in DOMAIN after : after[x] = IntRanges[x]
    BY <1>2, <2>2
  <2> HIDE DEF after
  <2> QED
    BY <2>1, <2>3
<1> QED
  BY <1>1, <1>3, <1>4

\* A step to where no block is being visited; Q says which functions are past.
LEMMA LeaveStep ==
    ASSUME PassSound, prog' = prog, IntRanges' = IntRanges, bi' = 0,
           Regular => \A m, k \in Nat : IsFn(m, k) /\ Earlier(m, k)' => FnSound(m, k)
    PROVE  PassSound'
<1>1. Regular' <=> Regular
  BY SameRegular
<1>2. \A m, k : IsFn(m, k)' <=> IsFn(m, k)
  BY DEF IsFn
<1> QED
  BY <1>1, <1>2, SameFnSound DEF PassSound

\* A visit that changes a range ends the clean sweep, and one that changes none covers
\* its instruction.
LEMMA VisitPassSound ==
    ASSUME Inv, Control, WidthsIn(IntRanges, Uses), PassSound, VisitInstruction
    PROVE  PassSound'
<1>1. prog' = prog /\ UNCHANGED <<phase, mod, changed, fi, bi, pi>> /\ ii' = ii + 1
  BY DEF VisitInstruction, driverVars
<1> SUFFICES ASSUME Regular, Clean' PROVE PassSound'
  BY <1>1, SameRegular DEF PassSound
<1>2. /\ Clean /\ IntRanges' = IntRanges
      /\ UnionAll(IntRanges, Updates(FuncVRMs, I)) = IntRanges
  BY VisitClean
<1>3. Merged /\ InFunction
  BY DEF VisitInstruction, Merged, InBlock
<1>4. Visiting
  <2>1. AtInstr /\ MapsSound(FuncVRMs, bi, pi, ii)
    BY <1>2, <1>3, VisitFacts, PassSoundIn
  <2>2. pi \in Nat /\ pi > Len(BB.preds)
    BY <1>3 DEF Merged, Inv, Position
  <2> QED
    BY <2>1, <2>2 DEF Visiting
<1>5. MapsSound(FuncVRMs', bi, pi, ii + 1)
  BY <1>2, <1>4, VisitMaps, VisitMapsSound
<1>6. bi' > 0 /\ MapsSound(FuncVRMs', bi', pi', ii')
  BY <1>1, <1>3, <1>5 DEF InFunction
<1> QED
  BY <1>1, <1>2, <1>6, StayStep

\* A merge keeps what is said of the maps.
LEMMA MergePassSound ==
    ASSUME Inv, Control, PassSound, MergePredecessor
    PROVE  PassSound'
<1>1. /\ prog' = prog /\ UNCHANGED <<phase, mod, changed, fi, bi, ii, IntRanges>> /\ pi' = pi + 1
      /\ (Clean' <=> Clean) /\ InFunction /\ bi <= Len(F.blocks) /\ pi <= Len(BB.preds)
  BY DEF MergePredecessor, passRest, driverVars, Clean, InBlock
<1> SUFFICES ASSUME Regular, Clean PROVE PassSound'
  BY <1>1, SameRegular DEF PassSound
<1>2. Sane /\ MapsType(FuncVRMs) /\ MapsSound(FuncVRMs, bi, pi, ii)
  BY <1>1, PassSoundIn
<1>3. Merging
  <2>1. F \in Function
    BY <1>2, TheFunction
  <2>2. bi \in DOMAIN F.blocks
    BY <1>1, <2>1, FunctionFacts DEF Inv, Position, InFunction
  <2>3. BB.preds \in Seq(Nat)
    BY <2>1, <2>2, FunctionFacts DEF BB
  <2>4. pi \in DOMAIN BB.preds
    BY <1>1, <2>3, SeqFacts DEF Inv, Position
  <2>5. ~Merged
    BY <1>1, <2>3, SeqFacts DEF Merged, Inv, Position
  <2>6. ii = 1
    <3>1. ~(ii > 1)
      BY <1>1, <2>5 DEF Control, InFunction
    <3> QED
      BY <3>1 DEF Inv, Position
  <2> QED
    BY <1>2, <2>2, <2>4, <2>6 DEF Merging
<1>4. MapsSound(FuncVRMs', bi', pi', ii')
  BY <1>1, <1>3, MergeMapsSound
<1> QED
  BY <1>1, <1>4, StayStep DEF InFunction

\* So does the way from block to block; a function is covered at its end.
LEMMA WalkPassSound ==
    ASSUME Inv, Control, PassSound, BeginFunction \/ NextBlock \/ NextFunction
    PROVE  PassSound'
<1>1. /\ prog' = prog /\ UNCHANGED <<phase, mod, changed, IntRanges>>
      /\ (Clean' <=> Clean) /\ InModulePass /\ fi <= Len(Functions)
  BY DEF BeginFunction, NextBlock, NextFunction, passRest, driverVars, Clean, Merged, InBlock,
     InFunction
<1> SUFFICES ASSUME Regular, Clean PROVE PassSound'
  BY <1>1, SameRegular DEF PassSound
<1>2. CASE BeginFunction
  <2>1. /\ bi = 0 /\ bi' = 1 /\ UNCHANGED <<fi, pi, ii>>
        /\ FuncVRMs' = [b \in DOMAIN F.blocks |-> Empty]
    BY <1>2 DEF BeginFunction
  <2>2. Sane
    <3>1. mod \in ModuleNo
      BY <1>1 DEF InModulePass, Inv, DriverTypeOK, ModuleNo
    <3>2. Functions \in Seq(Function)
      BY <3>1, ProgramFacts DEF Inv
    <3>3. Len(Functions) \in Nat
      BY <3>2
    <3> QED
      BY <1>1, <3>1, <3>3 DEF Sane, Inv, Position, Maps
  <2>3. \A b \in DOMAIN F.blocks : DOMAIN FuncVRMs'[b] = {}
    BY <2>1 DEF Empty
  <2>4. MapsSound(FuncVRMs', 1, 1, 1)
    BY <2>2, <2>3, BeginMapsSound
  <2>5. MapsSound(FuncVRMs', bi', pi', ii') /\ bi' > 0
    BY <2>1, <2>4 DEF Control
  <2> QED
    BY <1>1, <2>1, <2>5, StayStep
<1>3. CASE NextBlock
  <2>1. /\ bi' = bi + 1 /\ pi' = 1 /\ ii' = 1 /\ UNCHANGED <<fi, FuncVRMs>>
        /\ InFunction /\ bi <= Len(F.blocks) /\ pi > Len(BB.preds) /\ ii > Len(BB.instrs)
    BY <1>3 DEF NextBlock, Merged, InBlock
  <2>2. Sane /\ MapsSound(FuncVRMs, bi, pi, ii)
    BY <2>1, PassSoundIn
  <2>3. BlockDone(FuncVRMs, bi, pi, ii)
    <3>1. bi \in DOMAIN F.blocks
      BY <2>1, <2>2, TheFunction, FunctionFacts DEF Inv, Position, InFunction
    <3> QED
      BY <2>1, <2>2, <3>1 DEF BlockDone, Inv, Position, BB
  <2>4. MapsSound(FuncVRMs, bi + 1, 1, 1)
    BY <2>2, <2>3, NextMapsSound
  <2>5. MapsSound(FuncVRMs', bi', pi', ii')
    BY <2>1, <2>4
  <2>6. bi' > 0
    BY <2>1 DEF Inv, Position
  <2> QED
    BY <1>1, <2>1, <2>5, <2>6, StayStep
<1>4. CASE NextFunction
  <2>1. fi' = fi + 1 /\ bi' = 0 /\ InFunction /\ bi > Len(F.blocks)
    BY <1>4 DEF NextFunction
  <2>2. /\ Sane /\ MapsSound(FuncVRMs, bi, pi, ii)
        /\ \A m, k \in Nat : IsFn(m, k) /\ Earlier(m, k) => FnSound(m, k)
    BY <2>1, PassSoundIn
  <2>3. FnSound(mod, fi)
    BY <2>1, <2>2, EndFnSound DEF Inv, Position
  <2>4. ASSUME NEW m \in Nat, NEW k \in Nat, IsFn(m, k), Earlier(m, k)'
        PROVE  FnSound(m, k)
    <3>1. Earlier(m, k) \/ (m = mod /\ k = fi)
      BY <1>1, <2>1, <2>4 DEF Earlier, Inv, Position
    <3> QED
      BY <2>2, <2>3, <2>4, <3>1
  <2> QED
    BY <1>1, <2>1, <2>4, LeaveStep
<1> QED
  BY <1>2, <1>3, <1>4

\* All the functions of a module are covered when it is left without a change.
LEMMA ReturnPassSound ==
    ASSUME Inv, Control, PassSound, ReturnFromModule
    PROVE  PassSound'
<1>1. /\ prog' = prog /\ UNCHANGED <<IntRanges, Changed, bi>> /\ ~Changed /\ AtEnd /\ bi = 0
      /\ fi > Len(Functions) /\ fi' = 1
      /\ mod' = mod + 1 /\ changed' = (IF ret THEN changed + 1 ELSE changed) /\ phase' = phase
  BY AtEndFacts DEF ReturnFromModule, AtEnd, EndModulePass
<1> SUFFICES ASSUME Regular, Clean' PROVE PassSound'
  BY <1>1, SameRegular DEF PassSound
<1>2. Clean
  <2>1. changed \in Nat /\ changed' = 0 /\ phase = "pass"
    BY <1>1 DEF Clean, Inv, DriverTypeOK
  <2>2. ~ret
    BY <1>1, <2>1
  <2> QED
    BY <1>1, <2>1, <2>2 DEF Clean
<1>3. ASSUME NEW m \in Nat, NEW k \in Nat, IsFn(m, k), Earlier(m, k)'
      PROVE  FnSound(m, k)
  <2>1. mod \in Nat
    BY AtEndFacts, <1>1 DEF ModuleNo
  <2>2. k # 0 /\ k <= Len(prog.code[m])
    BY <1>3, IsFnFacts DEF Inv
  <2>3. m < mod \/ m = mod
    BY <1>1, <1>3, <2>1, <2>2 DEF Earlier
  <2>4. m = mod => k < fi
    <3> SUFFICES ASSUME m = mod PROVE k < fi
      OBVIOUS
    <3>1. Functions = prog.code[m]
      BY DEF Functions
    <3>2. Functions \in Seq(Function)
      BY ProgramFacts, AtEndFacts, <1>1 DEF Inv
    <3>3. Len(prog.code[m]) \in Nat /\ Len(prog.code[m]) < fi
      BY <1>1, <3>1, <3>2
    <3> QED
      BY <2>2, <3>3 DEF Inv, Position
  <2> QED
    BY <1>2, <1>3, <2>3, <2>4 DEF PassSound, Earlier
<1> QED
  BY <1>1, <1>3, LeaveStep

\* A sweep begins anew after one with a change.
LEMMA DrivePassSound ==
    ASSUME Inv, Control, PassSound, Drive
    PROVE  PassSound'
<1>1. /\ prog' = prog /\ UNCHANGED <<IntRanges, fi, bi>> /\ mod > NumModules
      /\ BeginSweep \/ BeginFinal \/ Finish
  BY DEF Drive, passVars, position, BeginSweep, BeginFinal, Finish
<1>2. bi = 0 /\ fi = 1
  <2>1. ~InModulePass
    BY <1>1, IdsAssumption DEF InModulePass, Inv, DriverTypeOK
  <2> QED
    BY <2>1, OutsideFacts
<1>3. CASE BeginSweep
  <2>1. mod' = 1 /\ fi' = 1
    BY <1>1, <1>2, <1>3 DEF BeginSweep
  <2>2. ASSUME NEW m \in Nat, NEW k \in Nat, IsFn(m, k), Earlier(m, k)'
        PROVE  FALSE
    <3>1. m \in Nat \ {0} /\ k \in Nat \ {0}
      BY <2>2, IsFnFacts DEF Inv
    <3> QED
      BY <2>1, <2>2, <3>1 DEF Earlier
  <2> QED
    BY <1>1, <1>2, <2>2, LeaveStep
<1>4. CASE BeginFinal \/ Finish
  <2>1. phase' # "pass"
    BY <1>4 DEF BeginFinal, Finish
  <2> QED
    BY <2>1 DEF PassSound, Clean
<1> QED
  BY <1>1, <1>3, <1>4

\* Every step keeps what a clean sweep has seen.
LEMMA PassSoundStep ==
    ASSUME Inv, Control, WidthsIn(IntRanges, Uses), PassSound, [Next]_vars
    PROVE  PassSound'
<1>1. CASE UNCHANGED vars \/ Done
  <2>1. /\ prog' = prog /\ UNCHANGED <<phase, mod, changed, fi, bi, pi, ii, IntRanges, FuncVRMs>>
        /\ (Clean' <=> Clean)
    BY <1>1 DEF vars, Done, driverVars, passVars, position, Clean
  <2>2. (Regular' <=> Regular) /\ \A m, k : FnSound(m, k)' <=> FnSound(m, k)
    BY <2>1, SameRegular, SameFnSound
  <2>3. \A m, k : (IsFn(m, k)' <=> IsFn(m, k)) /\ (Earlier(m, k)' <=> Earlier(m, k))
    BY <2>1 DEF IsFn, Earlier
  <2>4. MapsSound(FuncVRMs, bi, pi, ii)' <=> MapsSound(FuncVRMs, bi, pi, ii)
    <3>1. MapsSound(FuncVRMs, bi, pi, ii)' <=> MapsSound(FuncVRMs', bi', pi', ii')
      BY <2>1, SameMapsSound
    <3> QED
      BY <2>1, <3>1
  <2> QED
    BY <2>1, <2>2, <2>3, <2>4 DEF PassSound
<1>2. CASE doInitialization \/ doFinalization
  <2>1. phase' # "pass"
    BY <1>2 DEF doInitialization, doFinalization, ForModule
  <2> QED
    BY <2>1 DEF PassSound, Clean
<1>3. CASE SweepAgain
  BY <1>3 DEF SweepAgain, PassSound, Clean
<1> QED
  BY <1>1, <1>2, <1>3, DrivePassSound, ReturnPassSound, WalkPassSound, MergePassSound,
     VisitPassSound DEF Next

\* The sweeps end with a clean one, which has seen every function.
LEMMA FinalSoundStep ==
    ASSUME Inv, Control, PassSound, FinalSound, [Next]_vars
    PROVE  FinalSound'
<1>1. prog' = prog
  BY SameProgram
<1>2. \A m, k : IsFn(m, k)' <=> IsFn(m, k)
  BY <1>1 DEF IsFn
<1> SUFFICES ASSUME Regular, phase' \in {"final", "done"}, NEW m \in Nat, NEW k \in Nat, IsFn(m, k)
             PROVE  FnSound(m, k)'
  BY <1>1, <1>2, SameRegular DEF FinalSound
<1>3. BeginFinal \/ phase \in {"final", "done"}
  BY DEF Next, vars, driverVars, Done, Drive, BeginSweep, Finish, doInitialization,
     doFinalization, ForModule, BeginFunction, MergePredecessor, VisitInstruction, NextBlock,
     NextFunction, SweepAgain, ReturnFromModule, EndModulePass, passRest
<1>4. IntRanges' = IntRanges
  <2>1. ~InModulePass
    BY <1>3, IdsAssumption DEF InModulePass, BeginFinal, Inv, DriverTypeOK
  <2>2. ~doInitialization
    BY <1>3 DEF doInitialization, ForModule, BeginFinal
  <2> QED
    BY <2>1, <2>2 DEF Next, vars, passVars, Done, Drive, doFinalization, BeginFunction,
       MergePredecessor, VisitInstruction, Merged, InBlock, InFunction, NextBlock, NextFunction,
       SweepAgain, ReturnFromModule, AtEnd
<1>5. FnSound(m, k)
  <2>1. CASE phase \in {"final", "done"}
    BY <2>1 DEF FinalSound
  <2>2. CASE BeginFinal
    <3>1. /\ phase = "pass" /\ changed = 0 /\ mod > NumModules /\ mod \in Nat /\ NumModules \in Nat
      BY <2>2, IdsAssumption DEF BeginFinal, Inv, DriverTypeOK
    <3>2. Clean
      <4>1. ~InModulePass
        BY <3>1 DEF InModulePass
      <4> QED
        BY <3>1, <4>1, OutsideFacts DEF Clean
    <3>3. Earlier(m, k)
      <4>1. m <= NumModules
        BY IsFnFacts DEF Inv
      <4> QED
        BY <3>1, <4>1 DEF Earlier
    <3> QED
      BY <3>2, <3>3 DEF PassSound
  <2> QED
    BY <1>3, <2>1, <2>2
<1> QED
  BY <1>1, <1>4, <1>5, SameFnSound

\* The invariant holds before the first step.
LEMMA InitSoundInv == Init => SoundInv
<1> SUFFICES ASSUME Init PROVE SoundInv
  OBVIOUS
<1>1. /\ phase = "init" /\ mod = 1 /\ bi = 0 /\ pi = 1 /\ ii = 1 /\ fi = 1
      /\ ret = FALSE /\ Changed = FALSE /\ DOMAIN Meta = {} /\ DOMAIN IntRanges = {}
  BY DEF Init, DriverInit, Empty
<1>2. Control /\ PassSound /\ FinalSound /\ Marked /\ WidthsIn(IntRanges, Uses)
  BY <1>1 DEF Control, PassSound, Clean, FinalSound, Marked, WidthsIn
<1>3. Initialized
  <2>1. \A m \in ModuleNo : ~(phase # "init" \/ m < mod)
    BY <1>1, IdsAssumption DEF ModuleNo
  <2> QED
    BY <2>1 DEF Initialized
<1> QED
  BY <1>2, <1>3 DEF SoundInv

\* In the last sweep over all the modules nothing changes: so each function
\* has been seen with the ranges that are left.
THEOREM SoundInvariant == Spec => []SoundInv
<1>1. Inv /\ SoundInv /\ [Next]_vars => SoundInv'
  BY ControlStep, WidthsStep, InitializedStep, MarkedStep, PassSoundStep, FinalSoundStep
     DEF SoundInv
<1> QED
  BY <1>1, InitSoundInv, Invariant, PTL DEF Spec

----------------------------------------------------------------------------
(* What is reached stays in the ranges *)

\* The recursive function in Reached is what its equation says.
LEMMA ReachedRecursion ==
    ASSUME NEW sites
    PROVE  \E f : /\ f = [n \in 0..Steps |->
                            IF n = 0 THEN Initial ELSE Extended(f[n - 1], sites)]
                  /\ Reached(sites) = f[Steps]
<1> DEFINE Eq(f, m) == f = [n \in 0..m |->
                              IF n = 0 THEN Initial ELSE Extended(f[n - 1], sites)]
           S == {m \in Nat : \E f : Eq(f, m)}
<1>1. 0 \in S
  <2> DEFINE f0 == [n \in 0..0 |-> Initial]
  <2>1. Eq(f0, 0)
    OBVIOUS
  <2> QED
    BY <2>1
<1>2. ASSUME NEW m \in Nat, m \in S
      PROVE  m + 1 \in S
  <2>1. PICK f : Eq(f, m)
    BY <1>2
  <2> DEFINE g == [n \in 0..(m + 1) |-> IF n = m + 1 THEN Extended(f[m], sites) ELSE f[n]]
             h == [n \in 0..(m + 1) |-> IF n = 0 THEN Initial ELSE Extended(g[n - 1], sites)]
  <2>2. ASSUME NEW n \in 0..(m + 1)
        PROVE  g[n] = h[n]
    <3>1. CASE n = 0
      BY <2>1, <3>1
    <3>2. CASE n \in 1..m
      <4>1. n - 1 \in 0..m /\ n - 1 \in 0..(m + 1) /\ n \in 0..m /\ n - 1 # m + 1 /\ n # m + 1
        BY <3>2
      <4>2. g[n] = f[n] /\ g[n - 1] = f[n - 1]
        BY <4>1
      <4>3. f[n] = Extended(f[n - 1], sites)
        BY <2>1, <3>2, <4>1
      <4> QED
        BY <3>2, <4>2, <4>3
    <3>3. CASE n = m + 1
      <4>1. n - 1 = m /\ m \in 0..(m + 1) /\ m # m + 1 /\ n # 0
        BY <3>3
      <4>2. g[n] = Extended(f[m], sites) /\ g[m] = f[m]
        BY <3>3, <4>1
      <4> QED
        BY <4>1, <4>2
    <3> QED
      BY <3>1, <3>2, <3>3
  <2>3. g = h
    <3>1. DOMAIN g = 0..(m + 1) /\ DOMAIN h = 0..(m + 1)
      OBVIOUS
    <3>2. \A n \in 0..(m + 1) : g[n] = h[n]
      BY <2>2
    <3> QED
      BY <3>2
  <2>4. Eq(g, m + 1)
    BY <2>3
  <2> HIDE DEF Eq, g, h
  <2> QED
    BY <2>4
<1>3. Steps \in S
  <2> HIDE DEF S
  <2> QED
    BY <1>1, <1>2, InductionOverSets, MeaningAssumption
<1> QED
  BY <1>3 DEF Reached

\* What the analysis is left with, with some choice of what each function's
\* instructions yield.
Yields(m, k) ==
    CHOOSE at : \A s \in ProgSites :
        s[1] = m /\ s[2] = k => SiteSound([at |-> at, held |-> HeldIR], s)

Left == [at |-> [s \in ProgSites |-> Yields(s[1], s[2])[s]], held |-> HeldIR]

Ended == Inv /\ SoundInv /\ Regular /\ phase = "done"

\* What an instruction reads of another is made at a site.
LEMMA ReadIsSite ==
    ASSUME prog \in Programs, NEW s \in ProgSites, NEW v \in ReadsAll(s), v.kind = "instr"
    PROVE  <<s[1], s[2], v.b, v.i>> \in ProgSites
<1>1. v \in Value /\ v.w > 0
  BY ReadsAllType, ValueFacts, RingFacts
<1>2. IsOperand(FunctionOf(s), v)
  BY <1>1, ReadsAllType
<1>3. v.b \in DOMAIN FunctionOf(s).blocks /\ v.i \in DOMAIN FunctionOf(s).blocks[v.b].instrs
  BY <1>1, <1>2, OperandParts
<1> QED
  BY <1>3, SiteParts, IsSite DEF FunctionOf

\* When the analysis has ended each site is covered.
LEMMA LeftSound ==
    ASSUME Ended, NEW s \in ProgSites
    PROVE  SiteSound(Left, s)
<1> DEFINE P == [at |-> Yields(s[1], s[2]), held |-> HeldIR]
<1>1. prog \in Programs
  BY DEF Ended, Inv
<1>2. IsFn(s[1], s[2])
  BY SiteParts DEF IsFn
<1>3. FnSound(s[1], s[2])
  BY <1>1, <1>2, IsFnFacts DEF Ended, SoundInv, FinalSound
<1>4. SiteSound(P, s)
  BY <1>3 DEF FnSound, Yields
<1>5. ASSUME NEW v \in ReadsAll(s), v.kind = "instr"
      PROVE  <<s[1], s[2], v.b, v.i>> \in ProgSites
  BY <1>1, <1>5, ReadIsSite
<1>6. ASSUME NEW z \in ProgSites, z[1] = s[1], z[2] = s[2]
      PROVE  P.at[z] = Left.at[z]
  BY <1>6 DEF Left
<1>7. P.held = Left.held
  BY DEF Left
<1> HIDE DEF P
<1>8. ASSUME NEW v \in ReadsAll(s), v.kind = "instr"
      PROVE  P.at[<<s[1], s[2], v.b, v.i>>] = Left.at[<<s[1], s[2], v.b, v.i>>]
  <2>1. LET z == <<s[1], s[2], v.b, v.i>> IN z[1] = s[1] /\ z[2] = s[2]
    OBVIOUS
  <2> QED
    BY <1>5, <1>6, <1>8, <2>1
<1>9. P.at[s] = Left.at[s]
  BY <1>6
<1> QED
  BY <1>1, <1>4, <1>7, <1>8, <1>9, SoundElsewhere

\* P is within what the analysis is left with.
Within(P) ==
    /\ \A s \in ProgSites : P.at[s] \subseteq Left.at[s]
    /\ \A x \in ProgIds \ {NoId} : P.held[x] \subseteq HeldIR[x]

\* Values within what is left lead only to such values.
LEMMA WithinSite ==
    ASSUME Ended, NEW P, Within(P), NEW s \in ProgSites
    PROVE  /\ \A q \in Written(P, s) : q[1] # NoId => q[2] \in HeldIR[q[1]]
           /\ Claimed(s) => Computed(P, s) \subseteq Computed(Left, s)
<1>1. prog \in Programs
  BY DEF Ended, Inv
<1>2. ASSUME NEW v \in ReadsAll(s), v.kind = "instr"
      PROVE  P.at[<<s[1], s[2], v.b, v.i>>] \subseteq Left.at[<<s[1], s[2], v.b, v.i>>]
  BY <1>1, <1>2, ReadIsSite DEF Within
<1>3. Left.held = HeldIR
  BY DEF Left
<1>4. /\ Written(P, s) \subseteq Written(Left, s)
      /\ Claimed(s) => Computed(P, s) \subseteq Computed(Left, s)
  BY <1>1, <1>2, <1>3, Monotone DEF Within
<1>5. \A q \in Written(Left, s) : q[1] # NoId => q[2] \in HeldIR[q[1]]
  BY <1>3, LeftSound DEF SiteSound
<1> QED
  BY <1>4, <1>5

\* The initializers are within what is left,
LEMMA InitialWithin ==
    ASSUME Ended
    PROVE  Within(Initial)
<1>1. \A s \in ProgSites : Initial.at[s] = {}
  BY DEF Initial
<1>2. ASSUME NEW x \in ProgIds \ {NoId}
      PROVE  Initial.held[x] \subseteq HeldIR[x]
  <2>1. Initial.held[x] = {l.c % 2^l.w : l \in {k \in Leaves : k.id = x /\ Collected(k)}}
    BY DEF Initial
  <2>2. ASSUME NEW l \in Leaves, l.id = x, Collected(l)
        PROVE  l.c % 2^l.w \in HeldIR[x]
    <3>1. PICK m \in ModuleNo : l \in {prog.init[m][n] : n \in DOMAIN prog.init[m]}
      BY DEF Leaves
    <3>2. PICK n \in DOMAIN prog.init[m] : l = prog.init[m][n]
      BY <3>1
    <3>3. Knows(IntRanges, [id |-> x, r |-> Singleton(l.w, l.c)])
      BY <2>2, <3>2 DEF Ended, SoundInv, Initialized
    <3>4. <<x, l.w>> \in Uses
      BY <2>2 DEF Uses
    <3>5. Singleton(l.w, l.c).w = l.w /\ l.c % 2^l.w \in Singleton(l.w, l.c).s
      BY DEF Singleton
    <3> QED
      BY <3>3, <3>4, <3>5, KnownHeld DEF Ended, SoundInv, Regular
  <2> QED
    BY <2>1, <2>2
<1> QED
  BY <1>1, <1>2 DEF Within

\* The sites whose results are followed.
Followed == {s \in ProgSites : Claimed(s) /\ ~ReadsArgument(At(s))}

\* another round stays there,
LEMMA ExtendedWithin ==
    ASSUME Ended, NEW P, Within(P)
    PROVE  Within(Extended(P, Followed))
<1> DEFINE E == Extended(P, Followed)
           W == UNION {Written(P, s) : s \in ProgSites}
<1>1. ASSUME NEW s \in ProgSites
      PROVE  E.at[s] \subseteq Left.at[s]
  <2>1. E.at[s] = P.at[s] \cup IF s \in Followed THEN Computed(P, s) ELSE {}
    BY DEF Extended
  <2>2. s \in Followed => Computed(P, s) \subseteq Left.at[s]
    BY WithinSite, LeftSound DEF Followed, SiteSound
  <2> QED
    BY <2>1, <2>2 DEF Within
<1>2. ASSUME NEW x \in ProgIds \ {NoId}
      PROVE  E.held[x] \subseteq HeldIR[x]
  <2>1. E.held[x] = P.held[x] \cup {p[2] : p \in {q \in W : q[1] = x}}
    BY DEF Extended
  <2>2. ASSUME NEW q \in W, q[1] = x
        PROVE  q[2] \in HeldIR[x]
    <3>1. PICK s \in ProgSites : q \in Written(P, s)
      OBVIOUS
    <3> QED
      BY <2>2, <3>1, WithinSite
  <2> HIDE DEF W, E
  <2> QED
    BY <2>1, <2>2 DEF Within
<1> QED
  BY <1>1, <1>2 DEF Within

\* and so do all of them.
LEMMA ReachedWithin ==
    ASSUME Ended
    PROVE  Within(Produced)
<1>1. PICK f : /\ f = [n \in 0..Steps |->
                         IF n = 0 THEN Initial ELSE Extended(f[n - 1], Followed)]
               /\ Reached(Followed) = f[Steps]
  BY ReachedRecursion
<1> DEFINE S == {n \in Nat : n <= Steps => Within(f[n])}
<1>2. 0 \in S
  <2>1. f[0] = Initial
    BY <1>1, MeaningAssumption
  <2> QED
    BY <2>1, InitialWithin
<1>3. ASSUME NEW n \in Nat, n \in S
      PROVE  n + 1 \in S
  <2> SUFFICES ASSUME n + 1 <= Steps PROVE Within(f[n + 1])
    OBVIOUS
  <2>1. Within(f[n])
    BY <1>3, MeaningAssumption
  <2>2. f[n + 1] = Extended(f[n], Followed)
    <3>1. n + 1 \in 0..Steps /\ n + 1 # 0 /\ (n + 1) - 1 = n
      BY MeaningAssumption
    <3> QED
      BY <1>1, <3>1
  <2> QED
    BY <2>1, <2>2, ExtendedWithin
<1>4. Steps \in S
  <2> HIDE DEF S
  <2> QED
    BY <1>2, <1>3, InductionOverSets, MeaningAssumption
<1> QED
  BY <1>1, <1>4, MeaningAssumption DEF Produced, Followed

\* When the sweeps have ended (doModulePass returns false for every module),
\* the range of an identifier holds all that chains of stores, loads, calls,
\* returns, initializers and arithmetic over all the modules may put there.
THEOREM SoundRanges == Spec => []RangesAreSound
<1>1. Inv /\ SoundInv => RangesAreSound
  <2> SUFFICES ASSUME Ended PROVE InRanges(Produced)
    BY DEF RangesAreSound, Ended
  <2>1. \A x \in ProgIds \ {NoId} : Produced.held[x] \subseteq HeldIR[x]
    BY ReachedWithin DEF Within
  <2>2. \A x \in ProgIds : HeldIR[x] = IF x \in DOMAIN IntRanges THEN IntRanges[x].s ELSE {}
    BY DEF HeldIR
  <2> QED
    BY <2>1, <2>2 DEF InRanges
<1> QED
  BY <1>1, Invariant, SoundInvariant, PTL

\* What doFinalization writes on a load or call holds of every value it may
\* yield: the range of an identifier covers what is loaded from it, passed for
\* it or returned under it, in whichever module that is done.
THEOREM SoundMetadata == Spec => []MetadataIsSound
<1>1. Inv /\ SoundInv => MetadataIsSound
  <2> SUFFICES ASSUME Ended, NEW s \in DOMAIN Meta, At(s).id \notin SourceIds
               PROVE  Computed(Produced, s) \subseteq Meta[s].s
    BY DEF MetadataIsSound, Ended
  <2> DEFINE J == At(s)
  <2>1. /\ s \in ProgSites /\ J.op \in {"load", "call"}
        /\ J.id \in DOMAIN IntRanges /\ J.id # NoId /\ Meta[s] = IntRanges[J.id]
    BY DEF Ended, SoundInv, Marked
  <2>2. J \in Instr
    BY <2>1, SiteFacts DEF Ended, Inv
  <2> HIDE DEF J
  <2>3. CASE J.w = 0
    BY <2>3 DEF Computed, J
  <2>4. CASE J.w # 0
    <3>1. <<J.id, J.w>> \in Uses
      BY <2>1, <2>2, <2>4, Positive, ReadIds DEF J
    <3>2. J.id \in ProgIds /\ HeldIR[J.id] = Meta[s].s
      BY <2>1, <3>1, IsProgId DEF HeldIR
    <3>3. OfId(Produced, J.id, J.w) \subseteq Meta[s].s
      BY <2>1, <3>2, ReachedWithin DEF OfId, Within, J
    <3>4. CASE J.op = "load" \/ ReadsArgument(J)
      BY <2>1, <2>4, <3>3, <3>4 DEF Computed, J
    <3>5. CASE J.op = "call" /\ ~ReadsArgument(J)
      <4>1. J.id = J.retId
        BY <2>1, <3>5 DEF Ended, Regular, Identified, J
      <4>2. Computed(Left, s) \subseteq HeldIR[J.retId]
        <5>1. Left.held = HeldIR
          BY DEF Left
        <5> QED
          BY <2>1, <2>4, <3>5, <4>1, <5>1, LeftSound DEF SiteSound, J
      <4>3. Computed(Produced, s) \subseteq Computed(Left, s)
        <5>1. Claimed(s)
          BY <3>5 DEF Claimed, J
        <5> QED
          BY <2>1, <5>1, ReachedWithin, WithinSite
      <4> QED
        BY <3>2, <4>1, <4>2, <4>3
    <3> QED
      BY <2>1, <3>4, <3>5
  <2> QED
    BY <2>3, <2>4
<1> QED
  BY <1>1, Invariant, SoundInvariant, PTL
=============================================================================
