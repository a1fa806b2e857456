--------------------------- MODULE IntRewriteProofs ---------------------------
(***************************************************************************)
(* Proofs about IntRewrite, for functions of any number of blocks.           *)
(***************************************************************************)
EXTENDS IntRewrite, FiniteSetTheorems, WellFoundedInduction, TLAPS

----------------------------------------------------------------------------
(* Iteration *)

\* Induction, for a set of numbers: its complement would have an initial
\* interval around it that is minimal.
LEMMA InductionOverSets ==
    ASSUME NEW S, 0 \in S, \A n \in Nat : n \in S => n + 1 \in S
    PROVE  Nat \subseteq S
<1> SUFFICES ASSUME NEW n0 \in Nat, n0 \notin S PROVE FALSE
  OBVIOUS
<1> DEFINE U == 0..n0
           B == {m \in U : m \notin S}
           T == {0..m : m \in B}
<1>1. T \subseteq FiniteSubsetsOf(U)
  <2> SUFFICES ASSUME NEW m \in B PROVE 0..m \in FiniteSubsetsOf(U)
    OBVIOUS
  <2>1. IsFiniteSet(0..m)
    BY FS_Interval
  <2> QED
    BY <2>1 DEF FiniteSubsetsOf
<1>2. 0..n0 \in T
  OBVIOUS
<1>3. \E x \in T : \A y \in T : ~(<<y, x>> \in StrictSubsetOrdering(U))
  <2> HIDE DEF T, U
  <2>1. T # {}
    BY <1>2
  <2> QED
    BY <1>1, <2>1, FS_StrictSubsetOrderingWellFounded, WFMin
<1>4. PICK m \in B : \A y \in T : ~(<<y, 0..m>> \in StrictSubsetOrdering(U))
  BY <1>3
<1>5. m - 1 \in B
  OBVIOUS
<1>6. 0..(m - 1) \in T
  BY <1>5
<1>7. <<0..(m - 1), 0..m>> \in StrictSubsetOrdering(U)
  <2>1. m \in 0..m /\ m \notin 0..(m - 1)
    OBVIOUS
  <2>2. 0..(m - 1) \subseteq 0..m /\ 0..m \subseteq U
    OBVIOUS
  <2> QED
    BY <2>1, <2>2 DEF StrictSubsetOrdering
<1> QED
  BY <1>4, <1>6, <1>7

\* f begins with a and goes on with F, in U.
Iterates(U, F, a, f) ==
    f \in [Nat -> U] /\ f[0] = a /\ \A n \in Nat : f[n + 1] = F[f[n]]

\* What is defined by going on from a with F is there for every number of steps.
LEMMA Iteration ==
    ASSUME NEW U, NEW F \in [U -> U], NEW a \in U
    PROVE  \E f : Iterates(U, F, a, f)
<1> DEFINE Eq(f, m) == /\ f \in [0..m -> U] /\ f[0] = a
                       /\ \A n \in 0..m : n # m => f[n + 1] = F[f[n]]
           S == {m \in Nat : \E f : Eq(f, m)}
<1>1. 0 \in S
  <2> DEFINE f0 == [n \in 0..0 |-> a]
  <2>1. Eq(f0, 0)
    OBVIOUS
  <2> QED
    BY <2>1
<1>2. ASSUME NEW m \in Nat, m \in S
      PROVE  m + 1 \in S
  <2>1. PICK f : Eq(f, m)
    BY <1>2
  <2> DEFINE g == [n \in 0..(m + 1) |-> IF n = m + 1 THEN F[f[m]] ELSE f[n]]
  <2>2. m \in 0..m /\ f[m] \in U /\ F[f[m]] \in U
    BY <2>1
  <2>3. g \in [0..(m + 1) -> U]
    BY <2>1, <2>2
  <2>4. g[0] = a
    BY <2>1
  <2>5. ASSUME NEW n \in 0..(m + 1), n # m + 1
        PROVE  g[n + 1] = F[g[n]]
    <3>1. CASE n = m
      BY <3>1
    <3>2. CASE n # m
      <4>1. n \in 0..m /\ n + 1 \in 0..(m + 1) /\ n + 1 # m + 1
        BY <2>5, <3>2
      <4>2. f[n + 1] = F[f[n]]
        BY <2>1, <3>2, <4>1
      <4> QED
        BY <2>5, <4>1, <4>2
    <3> QED
      BY <3>1, <3>2
  <2>6. Eq(g, m + 1)
    BY <2>3, <2>4, <2>5
  <2> QED
    BY <2>6
<1>3. Nat \subseteq S
  <2> HIDE DEF S
  <2> QED
    BY <1>1, <1>2, InductionOverSets
<1>4. ASSUME NEW m \in Nat, NEW f, NEW g, Eq(f, m), Eq(g, m + 1)
      PROVE  \A n \in 0..m : f[n] = g[n]
  <2> DEFINE T == {n \in Nat : n <= m => f[n] = g[n]}
  <2>1. 0 \in T
    BY <1>4
  <2>2. ASSUME NEW n \in Nat, n \in T
        PROVE  n + 1 \in T
    <3> SUFFICES ASSUME n + 1 <= m PROVE f[n + 1] = g[n + 1]
      OBVIOUS
    <3>1. n \in 0..m /\ n # m /\ n \in 0..(m + 1) /\ n # m + 1
      OBVIOUS
    <3>2. f[n + 1] = F[f[n]] /\ g[n + 1] = F[g[n]]
      BY <1>4, <3>1
    <3> QED
      BY <2>2, <3>1, <3>2
  <2>3. Nat \subseteq T
    <3> HIDE DEF T
    <3> QED
      BY <2>1, <2>2, InductionOverSets
  <2> QED
    BY <2>3
<1> DEFINE h == [m \in Nat |-> CHOOSE f : Eq(f, m)]
           r == [m \in Nat |-> h[m][m]]
<1>5. \A m \in Nat : Eq(h[m], m)
  <2> SUFFICES ASSUME NEW m \in Nat PROVE Eq(h[m], m)
    OBVIOUS
  <2>1. \E f : Eq(f, m)
    BY <1>3
  <2>2. h[m] = CHOOSE f : Eq(f, m)
    OBVIOUS
  <2> HIDE DEF Eq, h
  <2> QED
    BY <2>1, <2>2
<1> HIDE DEF h
<1>6. r \in [Nat -> U] /\ r[0] = a
  <2>1. ASSUME NEW m \in Nat PROVE h[m][m] \in U
    <3>1. h[m] \in [0..m -> U] /\ m \in 0..m
      BY <1>5
    <3> QED
      BY <3>1
  <2>2. h[0][0] = a
    BY <1>5
  <2> QED
    BY <2>1, <2>2
<1>7. ASSUME NEW n \in Nat
      PROVE  r[n + 1] = F[r[n]]
  <2>1. Eq(h[n], n) /\ Eq(h[n + 1], n + 1)
    BY <1>5
  <2>2. n \in 0..n /\ n \in 0..(n + 1) /\ n # n + 1
    OBVIOUS
  <2>3. h[n][n] = h[n + 1][n]
    <3>1. PICK f, g : f = h[n] /\ g = h[n + 1]
      OBVIOUS
    <3>2. Eq(f, n) /\ Eq(g, n + 1)
      BY <2>1, <3>1
    <3> HIDE DEF Eq
    <3>3. \A k \in 0..n : f[k] = g[k]
      BY <1>4, <3>2
    <3> QED
      BY <2>2, <3>1, <3>3
  <2>4. ASSUME NEW g, Eq(g, n + 1)
        PROVE  g[n + 1] = F[g[n]]
    <3>1. \A k \in 0..(n + 1) : k # n + 1 => g[k + 1] = F[g[k]]
      BY <2>4
    <3> HIDE DEF Eq
    <3> QED
      BY <2>2, <3>1
  <2>5. h[n + 1][n + 1] = F[h[n + 1][n]]
    BY <2>1, <2>4
  <2> QED
    BY <2>3, <2>5
<1> HIDE DEF r
<1> QED
  BY <1>6, <1>7 DEF Iterates

\* A set that is added to until nothing new comes is closed after as many steps
\* as there are candidates.
LEMMA Saturation ==
    ASSUME NEW U, IsFiniteSet(U), NEW F \in [SUBSET U -> SUBSET U],
           \A S \in SUBSET U : S \subseteq F[S],
           NEW f \in [Nat -> SUBSET U], \A n \in Nat : f[n + 1] = F[f[n]]
    PROVE  /\ f[0] \subseteq f[Cardinality(U)]
           /\ F[f[Cardinality(U)]] = f[Cardinality(U)]
<1> DEFINE T == {n \in Nat : /\ f[0] \subseteq f[n]
                             /\ F[f[n]] = f[n] \/ Cardinality(f[n]) >= n}
<1>1. ASSUME NEW X \in SUBSET U
      PROVE  /\ IsFiniteSet(X) /\ Cardinality(X) \in Nat
             /\ Cardinality(X) <= Cardinality(U)
             /\ Cardinality(X) = Cardinality(U) => X = U
  <2>1. /\ IsFiniteSet(X) /\ Cardinality(X) <= Cardinality(U)
        /\ Cardinality(X) = Cardinality(U) => X = U
    BY FS_Subset
  <2> QED
    BY <2>1, FS_CardinalityType
<1>2. Cardinality(U) \in Nat
  BY FS_CardinalityType
<1>3. 0 \in T
  BY <1>1
<1>4. ASSUME NEW n \in Nat, n \in T
      PROVE  n + 1 \in T
  <2>1. /\ f[n] \in SUBSET U /\ f[n + 1] \in SUBSET U /\ f[n + 1] = F[f[n]]
        /\ f[n] \subseteq f[n + 1]
    OBVIOUS
  <2>2. f[0] \subseteq f[n + 1]
    BY <1>4, <2>1
  <2>3. CASE F[f[n]] = f[n]
    BY <2>1, <2>2, <2>3
  <2>4. CASE F[f[n]] # f[n] /\ Cardinality(f[n]) >= n
    <3>1. IsFiniteSet(f[n + 1]) /\ f[n] \in SUBSET f[n + 1] /\ f[n] # f[n + 1]
      BY <1>1, <2>1, <2>4
    <3>2. Cardinality(f[n]) < Cardinality(f[n + 1])
      <4>1. PICK X, Y : X = f[n] /\ Y = f[n + 1]
        OBVIOUS
      <4>2. Cardinality(X) <= Cardinality(Y) /\ (Cardinality(Y) = Cardinality(X) => Y = X)
        BY <3>1, <4>1, FS_Subset
      <4> QED
        BY <1>1, <2>1, <3>1, <4>1, <4>2
    <3>3. Cardinality(f[n + 1]) >= n + 1
      BY <1>1, <2>1, <2>4, <3>2
    <3> QED
      BY <2>2, <3>3
  <2> QED
    BY <1>4, <2>3, <2>4
<1>5. Nat \subseteq T
  <2> HIDE DEF T
  <2> QED
    BY <1>3, <1>4, InductionOverSets
<1>6. Cardinality(U) \in T
  BY <1>2, <1>5
<1>7. CASE Cardinality(f[Cardinality(U)]) >= Cardinality(U)
  <2>1. f[Cardinality(U)] = U
    BY <1>1, <1>2, <1>7
  <2>2. U \in SUBSET U /\ F[U] \in SUBSET U /\ U \subseteq F[U]
    OBVIOUS
  <2> QED
    BY <1>6, <2>1, <2>2
<1> QED
  BY <1>6, <1>7

\* So is what a recursive definition over the numbers comes to.
Increasing(U, F) ==
    F \in [SUBSET U -> SUBSET U] /\ \A S \in SUBSET U : S \subseteq F[S]

Recursion(U, F, a, r) ==
    r[0] = a /\ \A n \in Nat : r[n] \in SUBSET U => r[n + 1] = F[r[n]]

Saturated(U, F, a, S) == S \in SUBSET U /\ a \subseteq S /\ F[S] = S

LEMMA SaturatedRecursion ==
    ASSUME NEW U, IsFiniteSet(U), NEW F, Increasing(U, F),
           NEW a, a \in SUBSET U, NEW r, Recursion(U, F, a, r)
    PROVE  Saturated(U, F, a, r[Cardinality(U)])
<1> USE DEF Increasing, Recursion
<1> DEFINE T == {n \in Nat : r[n] \in SUBSET U}
           f == [n \in Nat |-> r[n]]
<1>1. 0 \in T
  OBVIOUS
<1>2. ASSUME NEW n \in Nat, n \in T PROVE n + 1 \in T
  BY <1>2
<1>3. Nat \subseteq T
  <2> HIDE DEF T
  <2> QED
    BY <1>1, <1>2, InductionOverSets
<1>4. f \in [Nat -> SUBSET U] /\ f[0] = a /\ \A n \in Nat : f[n + 1] = F[f[n]]
  BY <1>3
<1>5. Cardinality(U) \in Nat
  BY FS_CardinalityType
<1>6. f[Cardinality(U)] = r[Cardinality(U)]
  BY <1>5
<1> HIDE DEF f
<1>7. /\ f[0] \subseteq f[Cardinality(U)]
      /\ F[f[Cardinality(U)]] = f[Cardinality(U)]
  BY <1>4, Saturation
<1> QED
  BY <1>4, <1>5, <1>6, <1>7 DEF Saturated

----------------------------------------------------------------------------
(* Control flow *)

\* A function has a graph.
GraphOK == \A b \in Block : Succs(b) \in Seq(Block)

LEMMA BlocksAreFinite == IsFiniteSet(Block) /\ Cardinality(Block) = NumBlocks /\ Entry \in Block
  BY FS_Interval, IntRewriteAssumption DEF Block, Entry

\* Where one can be without having come by d, one can go on without d.
LEMMA AvoidingGoesOn ==
    ASSUME GraphOK, NEW d
    PROVE  /\ Entry # d => Entry \in Avoiding(d)
           /\ \A b \in Avoiding(d) : \A j \in DOMAIN Succs(b) :
                 Succs(b)[j] = d \/ Succs(b)[j] \in Avoiding(d)
<1>1. Entry # d => Entry \in Avoiding(d)
  BY BlocksAreFinite DEF Avoiding, ClosedBut
<1>2. ASSUME NEW b \in Avoiding(d), NEW j \in DOMAIN Succs(b), Succs(b)[j] # d
      PROVE  Succs(b)[j] \in Avoiding(d)
  <2>1. b \in Block /\ Succs(b)[j] \in Block
    BY <1>2 DEF Avoiding, GraphOK
  <2>2. ASSUME NEW S \in SUBSET Block, ClosedBut(d, S) PROVE Succs(b)[j] \in S
    <3>1. b \in S
      BY <2>2 DEF Avoiding
    <3> QED
      BY <1>2, <2>2, <3>1 DEF ClosedBut
  <2> QED
    BY <2>1, <2>2 DEF Avoiding
<1> QED
  BY <1>1, <1>2

\* What dominates a successor of a block dominates the block or is one of the two.
LEMMA DominatorsAbove ==
    ASSUME GraphOK, NEW b \in Block, NEW j \in DOMAIN Succs(b), NEW d,
           Dominates(d, Succs(b)[j]), d # Succs(b)[j]
    PROVE  Dominates(d, b)
  BY AvoidingGoesOn DEF Dominates

LEMMA NothingAboveEntry ==
    ASSUME GraphOK, NEW d, Dominates(d, Entry)
    PROVE  d = Entry
  BY AvoidingGoesOn DEF Dominates

\* The pass and an execution leave the graph alone, and what is computed on it.
LEMMA SameGraph ==
    ASSUME Graph' = Graph
    PROVE  /\ \A d, b : Dominates(d, b)' <=> Dominates(d, b)
           /\ \A b : isLoopExiting(b)' <=> isLoopExiting(b)
           /\ \A b : Preds(b)' = Preds(b)
<1>1. ASSUME NEW d, NEW b PROVE Dominates(d, b)' <=> Dominates(d, b)
  BY DEF Dominates, Avoiding, ClosedBut, Succs
<1>2. ASSUME NEW b PROVE isLoopExiting(b)' <=> isLoopExiting(b)
  BY DEF isLoopExiting, LoopOf, Dominates, Avoiding, ClosedBut, Preds, Succs
<1>3. ASSUME NEW b PROVE Preds(b)' = Preds(b)
  BY DEF Preds, Succs
<1> QED
  BY <1>1, <1>2, <1>3

----------------------------------------------------------------------------
(* What the pass makes of the function *)

\* The names of results, those the pass gives included.
Key == Name \cup {OverflowOf(x) : x \in Name} \cup {SatOf(x, b) : x \in Name, b \in Block}

Inserted ==
    {I \in [name: Key, op: {"overflow", "sat"}, ops: SUBSET Key, of: Name] :
        I.name \in IF I.op = "overflow" THEN {OverflowOf(I.of)} ELSE {SatOf(I.of, b) : b \in Block}}

Row == Instr \cup Inserted

\* The function as it stands.
Shape == prog \in [Block -> [code: Seq(Row), term: Term]]

Original(I) == I.op \notin {"overflow", "sat"}
IsOverflow(I, x) == I.op = "overflow" /\ I.of = x
IsSat(I, x) == I.op = "sat" /\ I.of = x

LEMMA NamesDiffer ==
    /\ \A x : OverflowOf(x) \notin Name
    /\ \A x, b : SatOf(x, b) \notin Name
    /\ \A x, y, b : SatOf(x, b) # OverflowOf(y)
    /\ \A x, y : OverflowOf(x) = OverflowOf(y) => x = y
<1>1. ASSUME NEW x, OverflowOf(x) \in Name PROVE FALSE
  BY <1>1 DEF Name, OverflowOf
<1>2. ASSUME NEW x, NEW b, SatOf(x, b) \in Name PROVE FALSE
  BY <1>2 DEF Name, SatOf
<1>3. ASSUME NEW x, NEW b, NEW y, SatOf(x, b) = OverflowOf(y) PROVE FALSE
  BY <1>3 DEF OverflowOf, SatOf
<1>4. ASSUME NEW x, NEW y, OverflowOf(x) = OverflowOf(y) PROVE x = y
  BY <1>4 DEF OverflowOf
<1> QED
  BY <1>1, <1>2, <1>3, <1>4

LEMMA RowFacts ==
    ASSUME NEW I \in Row
    PROVE  /\ I.name \in Key
           /\ Original(I) => /\ I.op \in {"add", "plain", "effect", "shift", "div", "phi"}
                             /\ I.name \in Name
                             /\ I.op = "phi" => I.ops \in [Block -> SUBSET Name]
                             /\ I.op # "phi" => I.ops \in SUBSET Name
           /\ ~Original(I) => I.of \in Name /\ I.name \notin Name
           /\ \A x : I.name = OverflowOf(x) <=> IsOverflow(I, x)
<1>1. CASE I \in [name: Name, op: {"add", "plain", "effect", "shift", "div"}, ops: SUBSET Name,
                  nsw: BOOLEAN, ptr: BOOLEAN]
  <2>1. /\ I.name \in Name /\ I.ops \in SUBSET Name
        /\ I.op \in {"add", "plain", "effect", "shift", "div"}
    BY <1>1
  <2> QED
    BY <2>1, NamesDiffer DEF Key, Original, IsOverflow
<1>2. CASE I \in [name: Name, op: {"phi"}, ops: [Block -> SUBSET Name],
                  nsw: BOOLEAN, ptr: BOOLEAN]
  <2>1. I.name \in Name /\ I.ops \in [Block -> SUBSET Name] /\ I.op = "phi"
    BY <1>2
  <2> QED
    BY <2>1, NamesDiffer DEF Key, Original, IsOverflow
<1>3. CASE I \in Inserted
  <2>1. /\ I.name \in Key /\ I.op \in {"overflow", "sat"} /\ I.of \in Name
        /\ I.op = "overflow" => I.name = OverflowOf(I.of)
        /\ I.op = "sat" => \E b \in Block : I.name = SatOf(I.of, b)
    BY <1>3 DEF Inserted
  <2> QED
    BY <2>1, NamesDiffer DEF Original, IsOverflow
<1> QED
  BY <1>1, <1>2, <1>3 DEF Row, Instr

\* z is y behind x.
Joined(T, x, y, z) ==
    /\ z \in Seq(T) /\ Len(z) = Len(x) + Len(y)
    /\ \A k \in 1..Len(x) : z[k] = x[k]
    /\ \A k \in 1..Len(y) : z[Len(x) + k] = y[k]

LEMMA Join ==
    ASSUME NEW T, NEW x \in Seq(T), NEW y \in Seq(T), NEW z, z = x \o y
    PROVE  Joined(T, x, y, z)
  BY DEF Joined

\* z is what s has from a to b.
IsPart(T, s, a, b, z) ==
    /\ z \in Seq(T) /\ Len(z) = b - a + 1
    /\ \A k \in 1..(b - a + 1) : z[k] = s[a + k - 1]

LEMMA Part ==
    ASSUME NEW T, NEW s \in Seq(T), NEW a \in 1..(Len(s) + 1), NEW b \in (a - 1)..Len(s),
           NEW z, z = SubSeq(s, a, b)
    PROVE  IsPart(T, s, a, b, z)
  BY DEF IsPart

\* r is s with cut elements at j replaced by m.
Spliced(T, s, j, cut, m, r) ==
    /\ r \in Seq(T) /\ Len(r) = Len(s) + Len(m) - cut
    /\ \A k \in 1..(j - 1) : r[k] = s[k]
    /\ \A k \in 1..Len(m) : r[j - 1 + k] = m[k]
    /\ \A k \in (j + cut)..Len(s) : r[k + Len(m) - cut] = s[k]

LEMMA SpliceParts ==
    ASSUME NEW T, NEW s, NEW m, NEW cut \in 0..1, NEW j \in Int,
           Len(s) \in Nat, Len(m) \in Nat, j \in 1..(Len(s) + 1 - cut),
           NEW front, NEW back, NEW fm, NEW r,
           IsPart(T, s, 1, j - 1, front), IsPart(T, s, j + cut, Len(s), back),
           Joined(T, front, m, fm), Joined(T, fm, back, r)
    PROVE  Spliced(T, s, j, cut, m, r)
<1>1. Len(s) \in Nat /\ j \in Int /\ cut \in Int /\ Len(m) \in Nat
  OBVIOUS
<1>2. /\ front \in Seq(T) /\ Len(front) = j - 1
      /\ \A k \in 1..(j - 1) : front[k] = s[k]
  BY <1>1 DEF IsPart
<1>3. /\ back \in Seq(T) /\ Len(back) = Len(s) - (j + cut) + 1
      /\ \A k \in 1..Len(back) : back[k] = s[j + cut + k - 1]
  BY <1>1 DEF IsPart
<1>4. /\ fm \in Seq(T) /\ Len(fm) = j - 1 + Len(m)
      /\ \A k \in 1..(j - 1) : fm[k] = s[k]
      /\ \A k \in 1..Len(m) : fm[j - 1 + k] = m[k]
  BY <1>2 DEF Joined
<1>5. /\ r \in Seq(T) /\ Len(r) = Len(fm) + Len(back)
      /\ \A k \in 1..Len(fm) : r[k] = fm[k]
      /\ \A k \in 1..Len(back) : r[Len(fm) + k] = back[k]
  BY DEF Joined
<1>6. Len(r) = Len(s) + Len(m) - cut
  BY <1>1, <1>3, <1>4, <1>5
<1>7. ASSUME NEW k \in 1..(j - 1) PROVE r[k] = s[k]
  <2>1. k \in 1..Len(fm)
    BY <1>1, <1>4
  <2> QED
    BY <1>4, <1>5, <2>1
<1>8. ASSUME NEW k \in 1..Len(m) PROVE r[j - 1 + k] = m[k]
  <2>1. j - 1 + k \in 1..Len(fm)
    BY <1>1, <1>4
  <2> QED
    BY <1>4, <1>5, <2>1
<1>9. ASSUME NEW k \in (j + cut)..Len(s) PROVE r[k + Len(m) - cut] = s[k]
  <2>1. PICK q \in Int : q = k - (j + cut) + 1
    BY <1>1
  <2>2. q \in 1..Len(back) /\ Len(fm) + q = k + Len(m) - cut /\ j + cut + q - 1 = k
    BY <1>1, <1>3, <1>4, <2>1
  <2>3. r[Len(fm) + q] = back[q] /\ back[q] = s[j + cut + q - 1]
    BY <1>3, <1>5, <2>2
  <2> QED
    BY <2>2, <2>3
<1> QED
  BY <1>5, <1>6, <1>7, <1>8, <1>9 DEF Spliced

LEMMA Splice ==
    ASSUME NEW T, NEW s \in Seq(T), NEW m \in Seq(T), NEW cut \in 0..1,
           NEW j \in 1..(Len(s) + 1 - cut),
           NEW r, r = SubSeq(s, 1, j - 1) \o m \o SubSeq(s, j + cut, Len(s))
    PROVE  Spliced(T, s, j, cut, m, r)
<1>1. PICK front, back, fm : /\ front = SubSeq(s, 1, j - 1)
                             /\ back = SubSeq(s, j + cut, Len(s))
                             /\ fm = front \o m /\ r = fm \o back
  OBVIOUS
<1>2. Len(s) \in Nat /\ j \in Int /\ cut \in Int /\ Len(m) \in Nat
  OBVIOUS
<1>3. IsPart(T, s, 1, j - 1, front)
  <2>1. 1 \in 1..(Len(s) + 1) /\ j - 1 \in (1 - 1)..Len(s)
    BY <1>2
  <2> QED
    BY <1>1, <2>1, Part
<1>4. IsPart(T, s, j + cut, Len(s), back)
  <2>1. j + cut \in 1..(Len(s) + 1) /\ Len(s) \in ((j + cut) - 1)..Len(s)
    BY <1>2
  <2> QED
    BY <1>1, <2>1, Part
<1>5. Joined(T, front, m, fm)
  BY <1>1, <1>3, Join DEF IsPart
<1>6. Joined(T, fm, back, r)
  <2>1. fm \in Seq(T) /\ back \in Seq(T)
    BY <1>4, <1>5 DEF IsPart, Joined
  <2> QED
    BY <1>1, <2>1, Join
<1> QED
  BY <1>2, <1>3, <1>4, <1>5, <1>6, SpliceParts

Positions == bb \in Nat \ {0} /\ i \in Nat \ {0}

\* The row at (b, j) is at (b, Moved(n, b, j)) when n rows have been put before
\* the current one.
Moved(n, b, j) == IF b = bb /\ j >= i THEN j + n ELSE j

CodeAfter(b) == prog'[b].code

Alike(I, J) == /\ I.name = J.name /\ I.op = J.op /\ I.ops = J.ops
               /\ ~Original(I) => I.of = J.of

\* What is there stays, in its order ...
RowsStay(n) ==
    \A b \in Block : \A j \in DOMAIN Code(b) :
        /\ Moved(n, b, j) \in DOMAIN CodeAfter(b)
        /\ Alike(Code(b)[j], CodeAfter(b)[Moved(n, b, j)])

\* ... and what is new is an overflow of the current operation, or a trap of it:
\* where it stands, behind its overflow, or in a block below where it is observed.
Fresh(n, b, k) ==
    LET I == CodeAfter(b)[k]
    IN /\ I.of = Current.name
       /\ \/ /\ I.op = "overflow" /\ Current.op = "add" /\ I.ops = Current.ops
             /\ b = bb /\ k = i
          \/ /\ I.op = "sat" /\ Current.op \in {"div", "shift"} /\ I.ops = Current.ops
             /\ b = bb /\ k = i /\ n = 1
          \/ /\ I.op = "sat" /\ I.ops = {OverflowOf(Current.name)}
             /\ i \in DOMAIN CodeAfter(bb) /\ IsOverflow(CodeAfter(bb)[i], Current.name)
             /\ \/ b = bb /\ k = i + 1 /\ n = 2
                \/ b # bb /\ Dominates(bb, b) /\ k = Len(Code(b)) + 1

RowsAreNew(n) ==
    \A b \in Block : \A k \in DOMAIN CodeAfter(b) :
        (\E j \in DOMAIN Code(b) : k = Moved(n, b, j)) \/ Fresh(n, b, k)

\* Each block where the result is observed has a trap, or the trap follows the
\* overflow.
Trapped(n) ==
    Current.op = "add" =>
        \/ n = 2 /\ i + 1 \in DOMAIN CodeAfter(bb) /\ IsSat(CodeAfter(bb)[i + 1], Current.name)
        \/ \A b \in ObPoints(Current.name) :
              /\ b # bb
              /\ Len(Code(b)) + 1 \in DOMAIN CodeAfter(b)
              /\ IsSat(CodeAfter(b)[Len(Code(b)) + 1], Current.name)

Insertion(n) ==
    /\ n \in {1, 2}
    /\ Shape'
    /\ \A b \in Block : prog'[b].term = prog[b].term
    /\ RowsStay(n) /\ RowsAreNew(n) /\ Trapped(n)
    /\ bb' = bb /\ i' = i + n + 1

LEMMA ObPointsAreBlocks == \A v : ObPoints(v) \subseteq Block
  BY DEF ObPoints, Users, Places

\* What Visiting says of the instruction.
LEMMA CurrentFacts ==
    ASSUME Shape, Positions, Visiting
    PROVE  /\ bb \in Block /\ i \in 1..Len(Code(bb)) /\ Code(bb) \in Seq(Row)
           /\ Current \in Row /\ Current = Code(bb)[i]
<1>1. bb \in Block
  BY IntRewriteAssumption DEF Positions, Visiting, Block
<1>2. Code(bb) \in Seq(Row)
  BY <1>1 DEF Shape, Code
<1>3. i \in 1..Len(Code(bb))
  BY <1>2 DEF Positions, Visiting
<1> QED
  BY <1>1, <1>2, <1>3 DEF Current

\* insertDivCheck, insertShiftCheck and insertArrayCheck.
LEMMA insertCheckInserts ==
    ASSUME Shape, Positions, insertCheck
    PROVE  Insertion(1)
<1> DEFINE s == Code(bb)
           trap == Sat(Current, bb, Current.ops)
           r == InsertAt(s, i, trap)
<1>1. /\ bb \in Block /\ i \in 1..Len(s) /\ s \in Seq(Row) /\ Current \in Row /\ Current = s[i]
      /\ Current.op \in {"div", "shift"}
  BY CurrentFacts DEF insertCheck
<1>2. Current.name \in Name /\ Current.ops \in SUBSET Name
  BY <1>1, RowFacts DEF Original
<1>3. /\ trap \in Row /\ trap.op = "sat" /\ trap.of = Current.name /\ trap.ops = Current.ops
  BY <1>1, <1>2 DEF Sat, Row, Inserted, Key
<1>4. /\ r \in Seq(Row) /\ Len(r) = Len(s) + 1
      /\ \A k \in 1..(i - 1) : r[k] = s[k]
      /\ r[i] = trap
      /\ \A k \in i..Len(s) : r[k + 1] = s[k]
  <2>1. PICK S, e, m, q : S = s /\ e = trap /\ m = <<e>> /\ q = r
    OBVIOUS
  <2> HIDE DEF trap, s, r
  <2>2. m \in Seq(Row) /\ Len(m) = 1 /\ m[1] = trap
    BY <1>3, <2>1
  <2>3. q = SubSeq(S, 1, i - 1) \o m \o SubSeq(S, i + 0, Len(S))
    BY <1>1, <2>1 DEF InsertAt, r
  <2>4. S \in Seq(Row) /\ 0 \in 0..1 /\ i \in 1..(Len(S) + 1 - 0)
    BY <1>1, <2>1
  <2>5. Spliced(Row, S, i, 0, m, q)
    BY <2>2, <2>3, <2>4, Splice
  <2>6. /\ q \in Seq(Row) /\ Len(q) = Len(S) + Len(m) - 0
        /\ \A k \in 1..(i - 1) : q[k] = S[k]
        /\ \A k \in 1..Len(m) : q[i - 1 + k] = m[k]
        /\ \A k \in (i + 0)..Len(S) : q[k + Len(m) - 0] = S[k]
    BY <2>5 DEF Spliced
  <2>7. i \in Int /\ Len(S) \in Nat /\ Len(q) = Len(S) + 1
    BY <1>1, <2>2, <2>4, <2>6
  <2>8. q[i] = trap
    BY <2>2, <2>6, <2>7
  <2>9. ASSUME NEW k \in i..Len(S) PROVE q[k + 1] = S[k]
    <3>1. k \in (i + 0)..Len(S) /\ k + Len(m) - 0 = k + 1
      BY <2>2, <2>7
    <3> QED
      BY <2>6, <3>1
  <2> QED
    BY <2>1, <2>6, <2>7, <2>8, <2>9
<1>5. /\ \A b \in Block : prog'[b].term = prog[b].term
      /\ CodeAfter(bb) = r
      /\ \A b \in Block \ {bb} : CodeAfter(b) = Code(b)
      /\ bb' = bb /\ i' = i + 1 + 1
  BY <1>1 DEF insertCheck, NextInstruction, Code, CodeAfter, Shape
<1>6. Shape'
  <2>1. prog' = [prog EXCEPT ![bb].code = r]
    BY DEF insertCheck, Code
  <2> HIDE DEF r
  <2> QED
    BY <1>1, <1>4, <2>1 DEF Shape
<1> HIDE DEF r, trap
<1>7. RowsStay(1)
  BY <1>1, <1>4, <1>5 DEF RowsStay, Moved, Alike
<1>8. RowsAreNew(1)
  <2> SUFFICES ASSUME NEW b \in Block, NEW k \in DOMAIN CodeAfter(b)
               PROVE  (\E j \in DOMAIN Code(b) : k = Moved(1, b, j)) \/ Fresh(1, b, k)
    BY DEF RowsAreNew
  <2>1. CASE b # bb
    BY <1>5, <2>1 DEF Moved
  <2>2. CASE b = bb /\ k = i
    BY <1>1, <1>3, <1>4, <1>5, <2>2 DEF Fresh
  <2>3. CASE b = bb /\ k < i
    <3>1. k \in DOMAIN Code(b) /\ k = Moved(1, b, k)
      BY <1>1, <1>4, <1>5, <2>3 DEF Moved
    <3> QED
      BY <3>1
  <2>4. CASE b = bb /\ k > i
    <3>1. k - 1 \in DOMAIN Code(b) /\ k = Moved(1, b, k - 1)
      BY <1>1, <1>4, <1>5, <2>4 DEF Moved
    <3> QED
      BY <3>1
  <2>5. b = bb => k \in Nat
    BY <1>4, <1>5
  <2> QED
    BY <1>1, <2>1, <2>2, <2>3, <2>4, <2>5
<1>9. Trapped(1)
  BY <1>1 DEF Trapped
<1> QED
  BY <1>5, <1>6, <1>7, <1>8, <1>9 DEF Insertion

\* insertOverflowCheck.
LEMMA insertOverflowCheckInserts ==
    ASSUME Shape, Positions, insertOverflowCheck
    PROVE  \E n \in {1, 2} : Insertion(n)
<1> DEFINE s == Code(bb)
           x == Current.name
           overflow == [name |-> OverflowOf(x), op |-> "overflow", ops |-> Current.ops, of |-> x]
           sat(b) == Sat(Current, b, {OverflowOf(x)})
           eager == Current.nsw /\ ~WrapOpt
           obs == ObPoints(x)
           here == eager \/ FallsBack(obs, bb)
           kept == [Current EXCEPT !.nsw = eager]
           m == IF here THEN <<overflow, sat(bb), kept>> ELSE <<overflow, kept>>
           n == IF here THEN 2 ELSE 1
           r == SubSeq(s, 1, i - 1) \o m \o SubSeq(s, i + 1, Len(s))
<1>1. /\ bb \in Block /\ i \in 1..Len(s) /\ s \in Seq(Row) /\ Current \in Row /\ Current = s[i]
      /\ Current.op = "add"
  BY CurrentFacts DEF insertOverflowCheck
<1>2. x \in Name /\ Current.ops \in SUBSET Name /\ Current \in Instr
  <2>1. x \in Name /\ Current.ops \in SUBSET Name
    BY <1>1, RowFacts DEF Original
  <2>2. Current \notin Inserted
    BY <1>1 DEF Inserted
  <2> QED
    BY <1>1, <2>1, <2>2 DEF Row
<1>3. /\ overflow \in Row /\ IsOverflow(overflow, x) /\ overflow.ops = Current.ops
  BY <1>2 DEF Row, Inserted, Key, IsOverflow
<1>4. \A b \in Block : sat(b) \in Row /\ IsSat(sat(b), x) /\ sat(b).ops = {OverflowOf(x)}
  BY <1>2 DEF Sat, Row, Inserted, Key, IsSat
<1>5. kept \in Row /\ Alike(Current, kept)
  <2>1. Current \in [name: Name, op: {"add", "plain", "effect", "shift", "div"}, ops: SUBSET Name,
                     nsw: BOOLEAN, ptr: BOOLEAN]
    BY <1>1, <1>2 DEF Instr
  <2>2. eager \in BOOLEAN
    OBVIOUS
  <2> HIDE DEF eager
  <2>3. kept \in Instr /\ kept.name = x /\ kept.op = "add" /\ kept.ops = Current.ops
    BY <1>1, <2>1, <2>2 DEF Instr
  <2> QED
    BY <1>1, <2>3 DEF Row, Alike, Original
<1>6. prog' = [b \in Block |->
                 IF b = bb THEN [prog[b] EXCEPT !.code = r]
                 ELSE IF ~here /\ b \in obs
                 THEN [prog[b] EXCEPT !.code = Append(@, sat(b))]
                 ELSE prog[b]]
  BY DEF insertOverflowCheck
<1>7. bb' = bb /\ i' = i + n + 1
  BY DEF insertOverflowCheck, NextInstruction
<1>8. ~here => \A b \in obs : b # bb /\ Dominates(bb, b)
  BY DEF FallsBack
<1> HIDE DEF overflow, sat, eager, obs, here, kept
<1>9. m \in Seq(Row) /\ Len(m) = n + 1
      /\ m[1] = overflow /\ m[n + 1] = kept /\ (here => m[2] = sat(bb))
  BY <1>1, <1>3, <1>4, <1>5
<1>10. /\ r \in Seq(Row) /\ Len(r) = Len(s) + n
       /\ \A k \in 1..(i - 1) : r[k] = s[k]
       /\ r[i] = overflow /\ r[i + n] = kept
       /\ here => r[i + 1] = sat(bb)
       /\ \A k \in (i + 1)..Len(s) : r[k + n] = s[k]
  <2>1. PICK S, M, q, l : S = s /\ M = m /\ q = r /\ l = n
    OBVIOUS
  <2>2. n \in {1, 2} /\ (here => n = 2)
    OBVIOUS
  <2> HIDE DEF s, m, r, n
  <2>3. S \in Seq(Row) /\ M \in Seq(Row) /\ 1 \in 0..1 /\ i \in 1..(Len(S) + 1 - 1)
    BY <1>1, <1>9, <2>1
  <2>4. q = SubSeq(S, 1, i - 1) \o M \o SubSeq(S, i + 1, Len(S))
    BY <2>1 DEF r
  <2>5. Spliced(Row, S, i, 1, M, q)
    BY <2>3, <2>4, Splice
  <2>6. /\ q \in Seq(Row) /\ Len(q) = Len(S) + Len(M) - 1
        /\ \A k \in 1..(i - 1) : q[k] = S[k]
        /\ \A k \in 1..Len(M) : q[i - 1 + k] = M[k]
        /\ \A k \in (i + 1)..Len(S) : q[k + Len(M) - 1] = S[k]
    BY <2>5 DEF Spliced
  <2>7. i \in Int /\ Len(S) \in Nat /\ l \in {1, 2} /\ Len(M) = l + 1 /\ Len(q) = Len(S) + l
    BY <1>9, <2>1, <2>2, <2>3, <2>6
  <2>8. q[i] = overflow
    <3>1. 1 \in 1..Len(M) /\ i - 1 + 1 = i
      BY <2>7
    <3> QED
      BY <1>9, <2>1, <2>6, <3>1
  <2>9. q[i + l] = kept
    <3>1. l + 1 \in 1..Len(M) /\ i - 1 + (l + 1) = i + l
      BY <2>7
    <3> QED
      BY <1>9, <2>1, <2>6, <3>1
  <2>10. here => q[i + 1] = sat(bb)
    <3> SUFFICES ASSUME here PROVE q[i + 1] = sat(bb)
      OBVIOUS
    <3>1. 2 \in 1..Len(M) /\ i - 1 + 2 = i + 1
      BY <2>1, <2>2, <2>7
    <3> QED
      BY <1>9, <2>1, <2>6, <3>1
  <2>11. ASSUME NEW k \in (i + 1)..Len(S) PROVE q[k + l] = S[k]
    <3>1. k + Len(M) - 1 = k + l
      BY <2>7
    <3> QED
      BY <2>6, <3>1
  <2> QED
    BY <2>1, <2>6, <2>7, <2>8, <2>9, <2>10, <2>11
<1>11. n \in {1, 2} /\ (here <=> n = 2)
  OBVIOUS
<1>12. \A b \in Block : Code(b) \in Seq(Row)
  BY DEF Shape, Code
<1>13. Shape'
  <2> HIDE DEF r
  <2>1. ASSUME NEW b \in Block PROVE prog'[b] \in [code: Seq(Row), term: Term]
    <3>1. prog[b] \in [code: Seq(Row), term: Term]
      BY DEF Shape
    <3>2. CASE b = bb
      BY <1>6, <1>10, <3>1, <3>2
    <3>3. CASE b # bb /\ ~here /\ b \in obs
      <4>1. Append(prog[b].code, sat(b)) \in Seq(Row)
        BY <1>4, <3>1
      <4> QED
        BY <1>6, <3>1, <3>3, <4>1
    <3>4. CASE b # bb /\ ~(~here /\ b \in obs)
      BY <1>6, <3>1, <3>4
    <3> QED
      BY <3>2, <3>3, <3>4
  <2> QED
    BY <1>6, <2>1 DEF Shape
<1>14. \A b \in Block : prog'[b].term = prog[b].term
  BY <1>6 DEF Shape
<1>15. /\ CodeAfter(bb) = r
       /\ \A b \in Block \ {bb} :
            IF ~here /\ b \in obs
            THEN /\ Len(CodeAfter(b)) = Len(Code(b)) + 1
                 /\ CodeAfter(b)[Len(Code(b)) + 1] = sat(b)
                 /\ \A k \in 1..Len(Code(b)) : CodeAfter(b)[k] = Code(b)[k]
            ELSE CodeAfter(b) = Code(b)
  <2> HIDE DEF r
  <2>1. CodeAfter(bb) = r
    BY <1>1, <1>6 DEF Code, CodeAfter, Shape
  <2>2. ASSUME NEW b \in Block \ {bb}, ~here /\ b \in obs
        PROVE  /\ Len(CodeAfter(b)) = Len(Code(b)) + 1
               /\ CodeAfter(b)[Len(Code(b)) + 1] = sat(b)
               /\ \A k \in 1..Len(Code(b)) : CodeAfter(b)[k] = Code(b)[k]
    <3>1. CodeAfter(b) = Append(Code(b), sat(b))
      BY <1>6, <2>2 DEF Code, CodeAfter, Shape
    <3> QED
      BY <1>4, <1>12, <3>1
  <2>3. ASSUME NEW b \in Block \ {bb}, ~(~here /\ b \in obs)
        PROVE  CodeAfter(b) = Code(b)
    BY <1>6, <2>3 DEF Code, CodeAfter
  <2> QED
    BY <2>1, <2>2, <2>3
<1>16. \A b \in Block : /\ Len(Code(b)) \in Nat /\ DOMAIN Code(b) = 1..Len(Code(b))
                        /\ Len(CodeAfter(b)) \in Nat /\ DOMAIN CodeAfter(b) = 1..Len(CodeAfter(b))
  <2>1. \A b \in Block : CodeAfter(b) \in Seq(Row)
    BY <1>13 DEF Shape, CodeAfter
  <2> QED
    BY <1>12, <2>1
<1> HIDE DEF m, r, n, s
<1>17. RowsStay(n)
  <2> SUFFICES ASSUME NEW b \in Block, NEW j \in DOMAIN Code(b)
               PROVE  /\ Moved(n, b, j) \in DOMAIN CodeAfter(b)
                      /\ Alike(Code(b)[j], CodeAfter(b)[Moved(n, b, j)])
    BY DEF RowsStay
  <2>1. j \in 1..Len(Code(b))
    BY <1>16
  <2>2. CASE b # bb
    <3>1. j \in DOMAIN CodeAfter(b) /\ CodeAfter(b)[j] = Code(b)[j]
      BY <1>15, <1>16, <2>1, <2>2
    <3> QED
      BY <2>2, <3>1 DEF Moved, Alike
  <2>3. CASE b = bb /\ j < i
    BY <1>1, <1>10, <1>11, <1>15, <1>16, <2>1, <2>3 DEF Moved, Alike, s
  <2>4. CASE b = bb /\ j = i
    BY <1>1, <1>5, <1>10, <1>11, <1>15, <1>16, <2>1, <2>4 DEF Moved, s
  <2>5. CASE b = bb /\ j > i
    <3>1. j \in (i + 1)..Len(s) /\ Moved(n, b, j) = j + n
      BY <1>1, <2>1, <2>5 DEF Moved, s
    <3>2. j + n \in DOMAIN CodeAfter(b)
      BY <1>1, <1>10, <1>11, <1>15, <1>16, <2>5, <3>1
    <3>3. CodeAfter(b)[j + n] = Code(b)[j]
      BY <1>10, <1>15, <2>5, <3>1 DEF s
    <3> QED
      BY <3>1, <3>2, <3>3 DEF Alike
  <2> QED
    BY <1>1, <2>1, <2>2, <2>3, <2>4, <2>5
<1>18. i \in DOMAIN CodeAfter(bb) /\ IsOverflow(CodeAfter(bb)[i], x)
  BY <1>1, <1>3, <1>10, <1>11, <1>15, <1>16
<1>19. RowsAreNew(n)
  <2> SUFFICES ASSUME NEW b \in Block, NEW k \in DOMAIN CodeAfter(b)
               PROVE  (\E j \in DOMAIN Code(b) : k = Moved(n, b, j)) \/ Fresh(n, b, k)
    BY DEF RowsAreNew
  <2>1. k \in 1..Len(CodeAfter(b))
    BY <1>16
  <2>2. CASE b # bb /\ k <= Len(Code(b))
    <3>1. k \in DOMAIN Code(b) /\ k = Moved(n, b, k)
      BY <1>16, <2>1, <2>2 DEF Moved
    <3> QED
      BY <3>1
  <2>3. CASE b # bb /\ k > Len(Code(b))
    <3>1. ~here /\ b \in obs /\ k = Len(Code(b)) + 1
      BY <1>15, <1>16, <2>1, <2>3
    <3>2. CodeAfter(b)[k] = sat(b) /\ Dominates(bb, b)
      BY <1>8, <1>15, <2>3, <3>1
    <3> QED
      BY <1>4, <1>18, <2>3, <3>1, <3>2 DEF Fresh, IsSat
  <2>4. CASE b = bb /\ k < i
    <3>1. k \in DOMAIN Code(b) /\ k = Moved(n, b, k)
      BY <1>1, <1>16, <2>1, <2>4 DEF Moved, s
    <3> QED
      BY <3>1
  <2>5. CASE b = bb /\ k = i
    BY <1>1, <1>3, <1>10, <1>15, <2>5 DEF Fresh, IsOverflow
  <2>6. CASE b = bb /\ k = i + 1 /\ n = 2
    BY <1>1, <1>4, <1>10, <1>11, <1>15, <1>18, <2>6 DEF Fresh, IsSat
  <2>7. CASE b = bb /\ k >= i + n
    <3>1. k - n \in DOMAIN Code(b) /\ k = Moved(n, b, k - n)
      BY <1>1, <1>10, <1>11, <1>15, <1>16, <2>1, <2>7 DEF Moved, s
    <3> QED
      BY <3>1
  <2> QED
    BY <1>1, <1>11, <1>16, <2>1, <2>2, <2>3, <2>4, <2>5, <2>6, <2>7
<1>20. Trapped(n)
  <2>1. CASE here
    <3>1. i + 1 \in DOMAIN CodeAfter(bb) /\ IsSat(CodeAfter(bb)[i + 1], x)
      BY <1>1, <1>4, <1>10, <1>11, <1>15, <1>16, <2>1
    <3> QED
      BY <1>11, <2>1, <3>1 DEF Trapped
  <2>2. CASE ~here
    <3>1. ASSUME NEW b \in obs
          PROVE  /\ b # bb
                 /\ Len(Code(b)) + 1 \in DOMAIN CodeAfter(b)
                 /\ IsSat(CodeAfter(b)[Len(Code(b)) + 1], x)
      <4>1. b \in Block \ {bb}
        BY <1>8, <2>2, <3>1, ObPointsAreBlocks DEF obs
      <4> QED
        BY <1>4, <1>15, <1>16, <2>2, <3>1, <4>1
    <3> QED
      BY <3>1 DEF Trapped, obs
  <2> QED
    BY <2>1, <2>2
<1>21. Insertion(n)
  BY <1>7, <1>11, <1>13, <1>14, <1>17, <1>19, <1>20 DEF Insertion
<1> QED
  BY <1>11, <1>21

----------------------------------------------------------------------------
(* The pass *)

\* The operands of an instruction are defined before it on every path, those of
\* a phi on the paths through the block they are for.
Scoped ==
    \A b \in Block : \A j \in DOMAIN Code(b) :
        IF Code(b)[j].op = "phi"
        THEN \A p \in Preds(b) : Code(b)[j].ops[p] \subseteq Defined(p) \cup Above(p)
        ELSE Code(b)[j].ops \subseteq Before(b, j) \cup Above(b)

EntryIsFirst ==
    /\ Preds(Entry) = {}
    /\ \A j \in DOMAIN Code(Entry) : Code(Entry)[j].op # "phi"

Named ==
    \A b, c \in Block : \A j \in DOMAIN Code(b), k \in DOMAIN Code(c) :
        /\ Original(Code(b)[j]) /\ Original(Code(c)[k])
        /\ Code(b)[j].name = Code(c)[k].name
        => b = c /\ j = k

\* Only operations that have been visited have an overflow.
Visited(b, j) == b < bb \/ (b = bb /\ j < i)

OverflowsAreVisited ==
    \A b \in Block : \A j \in DOMAIN Code(b) :
        Code(b)[j].op = "overflow" =>
            \E c \in Block : \E k \in DOMAIN Code(c) :
                Original(Code(c)[k]) /\ Code(c)[k].name = Code(b)[j].of /\ Visited(c, k)

\* An operation is trapped where it stands ...
TrappedHere(x) ==
    \A b \in Block : \A j \in DOMAIN Code(b) :
        IsOverflow(Code(b)[j], x) => j + 1 \in DOMAIN Code(b) /\ IsSat(Code(b)[j + 1], x)

NoOverflow(b, x) == \A j \in DOMAIN Code(b) : ~IsOverflow(Code(b)[j], x)

ShownBy(b) == prog[b].term.op = "ret" \/ isLoopExiting(b)

\* ... or it is in every block, another than its own, where one of the values
\* C, to which everything that depends on it belongs, is observed.
TrappedAway(x, C) ==
    /\ x \in C
    /\ \A b \in Block : \A j \in DOMAIN Code(b) :
         /\ Original(Code(b)[j])
         /\ Reads(Code(b)[j]) \cap C # {}
         => IF Code(b)[j].op \in Unspeculatable
            THEN NoOverflow(b, x) /\ \E k \in DOMAIN Code(b) : k > j /\ IsSat(Code(b)[k], x)
            ELSE Code(b)[j].name \in C
    /\ \A b \in Block :
         ShownBy(b) /\ prog[b].term.ops \cap C # {} =>
            NoOverflow(b, x) /\ \E k \in DOMAIN Code(b) : IsSat(Code(b)[k], x)

PassInv ==
    /\ Shape /\ Positions
    /\ Scoped /\ EntryIsFirst /\ Named /\ OverflowsAreVisited

----------------------------------------------------------------------------
(* An execution *)

\* It begins when the pass has ended.
Running ==
    /\ IF at = 0 THEN came = 0 /\ computed = {} /\ seen = {} /\ caught = {}
       ELSE bb > NumBlocks /\ at \in Block /\ pos \in 1..(Len(Code(at)) + 1)
    /\ computed \subseteq Key

\* What is above has been computed, and was when the last block was left.
Reached ==
    at # 0 =>
        /\ Before(at, pos) \cup Above(at) \subseteq computed
        /\ IF came = 0 THEN at = Entry
           ELSE came \in Preds(at) /\ Defined(came) \cup Above(came) \subseteq computed

\* A trap of x will be passed before its overflow is computed anew, or has been.
Pending(x) ==
    /\ at # 0
    /\ \E k \in DOMAIN Code(at) :
          /\ k >= pos /\ IsSat(Code(at)[k], x)
          /\ \A j \in pos..k : ~IsOverflow(Code(at)[j], x)

Safe(x) == x \in caught \/ Pending(x)

\* So it is of an operation that is trapped where it stands once it has
\* overflowed, and of another once its result is observed or something else
\* than C depends on it.
Kept(x) ==
    \/ TrappedHere(x) /\ (OverflowOf(x) \in computed => Safe(x))
    \/ \E C \in SUBSET Key :
          /\ TrappedAway(x, C)
          /\ x \in seen => Safe(x)
          /\ \A v \in computed \cap Name : x \in live[v] => v \in C \/ Safe(x)

\* The traps of this block that are behind have been passed.
TrapsPassed ==
    at # 0 =>
        \A k \in DOMAIN Code(at) :
            \A x \in Name :
                k < pos /\ IsSat(Code(at)[k], x) /\ NoOverflow(at, x) => x \in caught

Inv ==
    /\ PassInv
    /\ Running /\ Reached /\ TrapsPassed
    /\ \A x \in Name : Kept(x)

----------------------------------------------------------------------------
(* What the pass inserts keeps *)

LEMMA CodeIsSeq ==
    ASSUME Shape
    PROVE  \A b \in Block : /\ Code(b) \in Seq(Row) /\ Len(Code(b)) \in Nat
                            /\ DOMAIN Code(b) = 1..Len(Code(b))
                            /\ \A j \in DOMAIN Code(b) : Code(b)[j] \in Row
                            /\ prog[b].term \in Term
<1> SUFFICES ASSUME NEW b \in Block
             PROVE  Code(b) \in Seq(Row) /\ prog[b].term \in Term
  OBVIOUS
<1> QED
  BY DEF Shape, Code

LEMMA HasGraph == ASSUME Shape PROVE GraphOK
  BY CodeIsSeq DEF GraphOK, Succs, Graph, Term

\* Where everything is after an insertion.
LEMMA AfterInsertion ==
    ASSUME Shape, Positions, Visiting, NEW n, Insertion(n)
    PROVE  /\ \A b \in Block : /\ Code(b)' = CodeAfter(b)
                               /\ CodeAfter(b) \in Seq(Row) /\ Len(CodeAfter(b)) \in Nat
                               /\ DOMAIN CodeAfter(b) = 1..Len(CodeAfter(b))
                               /\ \A j \in DOMAIN CodeAfter(b) : CodeAfter(b)[j] \in Row
           /\ Graph' = Graph
           /\ bb \in Block /\ i \in DOMAIN Code(bb) /\ i \in Nat \ {0} /\ n \in {1, 2}
<1>1. Graph' = Graph
  BY DEF Insertion, Graph
<1>2. ASSUME NEW b \in Block
      PROVE  Code(b)' = CodeAfter(b) /\ CodeAfter(b) \in Seq(Row)
  BY DEF Insertion, Shape, Code, CodeAfter
<1>3. bb \in Block /\ i \in DOMAIN Code(bb) /\ i \in Nat \ {0} /\ n \in {1, 2}
  BY CurrentFacts, CodeIsSeq DEF Insertion, Positions
<1> QED
  BY <1>1, <1>2, <1>3

LEMMA ScopesGrow ==
    ASSUME Shape, Positions, Visiting, NEW n, Insertion(n)
    PROVE  /\ \A b \in Block : Defined(b) \subseteq Defined(b)' /\ Above(b) \subseteq Above(b)'
           /\ \A b \in Block : \A j \in DOMAIN Code(b) : \A k :
                 k = Moved(n, b, j) => Before(b, j) \subseteq Before(b, k)'
<1>1. ASSUME NEW b \in Block PROVE Defined(b) \subseteq Defined(b)'
  <2> SUFFICES ASSUME NEW j \in DOMAIN Code(b) PROVE Code(b)[j].name \in Defined(b)'
    BY DEF Defined
  <2>1. PICK k : k = Moved(n, b, j)
    OBVIOUS
  <2>2. k \in DOMAIN CodeAfter(b) /\ CodeAfter(b)[k].name = Code(b)[j].name
    BY <2>1 DEF Insertion, RowsStay, Alike
  <2> QED
    BY <2>2, AfterInsertion DEF Defined
<1>2. ASSUME NEW b \in Block PROVE Above(b) \subseteq Above(b)'
  BY <1>1, AfterInsertion, SameGraph DEF Above
<1>3. ASSUME NEW b \in Block, NEW j \in DOMAIN Code(b), NEW k, k = Moved(n, b, j)
      PROVE  Before(b, j) \subseteq Before(b, k)'
  <2> SUFFICES ASSUME NEW h \in 1..(j - 1) PROVE Code(b)[h].name \in Before(b, k)'
    BY DEF Before
  <2>1. PICK g : g = Moved(n, b, h)
    OBVIOUS
  <2>2. h \in DOMAIN Code(b) /\ h < j /\ h \in Nat \ {0} /\ j \in Nat \ {0}
    BY CodeIsSeq
  <2>3. g \in DOMAIN CodeAfter(b) /\ CodeAfter(b)[g].name = Code(b)[h].name
    BY <2>1, <2>2 DEF Insertion, RowsStay, Alike
  <2>4. g \in 1..(k - 1)
    BY <1>3, <2>1, <2>2, AfterInsertion DEF Moved
  <2> QED
    BY <2>3, <2>4, AfterInsertion DEF Before
<1> QED
  BY <1>1, <1>2, <1>3

LEMMA ScopedKept ==
    ASSUME Shape, Positions, Visiting, NEW n, Insertion(n), Scoped, EntryIsFirst
    PROVE  Scoped' /\ EntryIsFirst'
<1> DEFINE x == Current.name
<1>1. \A b \in Block : Code(b)' = CodeAfter(b)
  BY AfterInsertion
<1>2. \A b : Preds(b)' = Preds(b)
  BY AfterInsertion, SameGraph
<1>3. Scoped'
  <2> SUFFICES ASSUME NEW b \in Block, NEW k \in DOMAIN CodeAfter(b)
               PROVE  IF CodeAfter(b)[k].op = "phi"
                      THEN \A p \in Preds(b) :
                              CodeAfter(b)[k].ops[p] \subseteq Defined(p)' \cup Above(p)'
                      ELSE CodeAfter(b)[k].ops \subseteq Before(b, k)' \cup Above(b)'
    BY <1>1, <1>2 DEF Scoped
  <2>1. CASE \E j \in DOMAIN Code(b) : k = Moved(n, b, j)
    <3>1. PICK j \in DOMAIN Code(b) : k = Moved(n, b, j)
      BY <2>1
    <3>2. CodeAfter(b)[k].op = Code(b)[j].op /\ CodeAfter(b)[k].ops = Code(b)[j].ops
      BY <3>1 DEF Insertion, RowsStay, Alike
    <3>3. Preds(b) \subseteq Block
      BY DEF Preds
    <3>4. /\ \A p \in Block : Defined(p) \subseteq Defined(p)' /\ Above(p) \subseteq Above(p)'
          /\ Before(b, j) \subseteq Before(b, k)'
      BY <3>1, ScopesGrow
    <3> QED
      BY <3>2, <3>3, <3>4 DEF Scoped
  <2>2. CASE Fresh(n, b, k)
    <3>1. bb \in Block /\ i \in DOMAIN Code(bb) /\ Current = Code(bb)[i] /\ n \in {1, 2}
      BY AfterInsertion DEF Current
    <3>2. CodeAfter(b)[k].op # "phi"
      BY <2>2 DEF Fresh
    <3>3. CASE b = bb /\ k = i /\ Current.op \in {"add", "div", "shift"}
               /\ CodeAfter(b)[k].ops = Current.ops
      <4>1. Current.ops \subseteq Before(bb, i) \cup Above(bb)
        BY <3>1, <3>3 DEF Scoped
      <4>2. ASSUME NEW j \in 1..(k - 1) PROVE CodeAfter(b)[j].name = Code(b)[j].name
        <5>1. j \in DOMAIN Code(b) /\ Moved(n, b, j) = j
          BY <3>1, <3>3, AfterInsertion, CodeIsSeq DEF Moved
        <5> QED
          BY <5>1 DEF Insertion, RowsStay, Alike
      <4>3. Before(b, k) \subseteq Before(b, k)'
        BY <1>1, <4>2 DEF Before
      <4> QED
        BY <3>2, <3>3, <4>1, <4>3, ScopesGrow
    <3>4. CASE /\ CodeAfter(b)[k].ops = {OverflowOf(x)}
               /\ i \in DOMAIN CodeAfter(bb) /\ IsOverflow(CodeAfter(bb)[i], x)
               /\ (b = bb /\ k = i + 1) \/ (b # bb /\ Dominates(bb, b))
      <4>1. CodeAfter(bb)[i].name = OverflowOf(x)
        BY <3>1, <3>4, AfterInsertion, RowFacts
      <4>2. CASE b = bb /\ k = i + 1
        <5>1. i \in 1..(k - 1)
          BY <4>2, AfterInsertion
        <5>2. CodeAfter(b)[i].name \in {CodeAfter(b)[g].name : g \in 1..(k - 1)}
          BY <5>1
        <5> QED
          BY <1>1, <3>2, <3>4, <4>1, <4>2, <5>2 DEF Before
      <4>3. CASE b # bb /\ Dominates(bb, b)
        <5>1. PICK c \in Block : c = bb
          BY <3>1
        <5>2. OverflowOf(x) \in {CodeAfter(c)[g].name : g \in DOMAIN CodeAfter(c)}
          BY <3>4, <4>1, <5>1
        <5>3. OverflowOf(x) \in Defined(c)'
          BY <1>1, <5>2 DEF Defined
        <5>4. Dominates(c, b)'
          BY <4>3, <5>1, AfterInsertion, SameGraph
        <5>5. OverflowOf(x) \in Above(b)'
          BY <4>3, <5>1, <5>3, <5>4 DEF Above
        <5> QED
          BY <3>2, <3>4, <5>5
      <4> QED
        BY <3>4, <4>2, <4>3
    <3> QED
      BY <2>2, <3>3, <3>4 DEF Fresh
  <2> QED
    BY <2>1, <2>2 DEF Insertion, RowsAreNew
<1>4. EntryIsFirst'
  <2>1. ASSUME NEW k \in DOMAIN CodeAfter(Entry) PROVE CodeAfter(Entry)[k].op # "phi"
    <3>1. CASE \E j \in DOMAIN Code(Entry) : k = Moved(n, Entry, j)
      BY <3>1, BlocksAreFinite DEF Insertion, RowsStay, Alike, EntryIsFirst
    <3>2. CASE Fresh(n, Entry, k)
      BY <3>2 DEF Fresh
    <3> QED
      BY <2>1, <3>1, <3>2, BlocksAreFinite DEF Insertion, RowsAreNew
  <2> QED
    BY <1>1, <1>2, <2>1, BlocksAreFinite DEF EntryIsFirst
<1> QED
  BY <1>3, <1>4

\* An instruction of the function stands where one has stood.
LEMMA Descends ==
    ASSUME Shape, Positions, Visiting, NEW n, Insertion(n),
           NEW b \in Block, NEW k \in DOMAIN CodeAfter(b)
    PROVE  /\ Original(CodeAfter(b)[k]) =>
                \E j \in DOMAIN Code(b) : k = Moved(n, b, j) /\ Alike(Code(b)[j], CodeAfter(b)[k])
           /\ Fresh(n, b, k) \/ \E j \in DOMAIN Code(b) :
                k = Moved(n, b, j) /\ Alike(Code(b)[j], CodeAfter(b)[k])
<1>1. Fresh(n, b, k) => ~Original(CodeAfter(b)[k])
  BY DEF Fresh, Original
<1> QED
  BY <1>1 DEF Insertion, RowsAreNew, RowsStay

\* The order of the instructions is kept.
LEMMA MovedInOrder ==
    ASSUME NEW n \in {1, 2}, NEW b, NEW j \in Nat, NEW k \in Nat, Positions
    PROVE  /\ Moved(n, b, j) \in Nat
           /\ j < k => Moved(n, b, j) < Moved(n, b, k)
           /\ Moved(n, b, j) = Moved(n, b, k) => j = k
  BY DEF Moved, Positions

LEMMA NamedKept ==
    ASSUME Shape, Positions, Visiting, NEW n, Insertion(n), Named
    PROVE  Named'
<1> SUFFICES ASSUME NEW b \in Block, NEW c \in Block,
                    NEW j \in DOMAIN CodeAfter(b), NEW k \in DOMAIN CodeAfter(c),
                    Original(CodeAfter(b)[j]), Original(CodeAfter(c)[k]),
                    CodeAfter(b)[j].name = CodeAfter(c)[k].name
             PROVE  b = c /\ j = k
  BY AfterInsertion DEF Named
<1>1. PICK j0 \in DOMAIN Code(b) : j = Moved(n, b, j0) /\ Alike(Code(b)[j0], CodeAfter(b)[j])
  BY Descends
<1>2. PICK k0 \in DOMAIN Code(c) : k = Moved(n, c, k0) /\ Alike(Code(c)[k0], CodeAfter(c)[k])
  BY Descends
<1>3. b = c /\ j0 = k0
  BY <1>1, <1>2 DEF Named, Alike, Original
<1> QED
  BY <1>1, <1>2, <1>3

\* What has been visited has been visited, and the current instruction then has.
LEMMA VisitedStays ==
    ASSUME Shape, Positions, Visiting, NEW n, Insertion(n),
           NEW b \in Block, NEW j \in DOMAIN Code(b), Visited(b, j) \/ (b = bb /\ j = i)
    PROVE  \E k \in DOMAIN CodeAfter(b) : Alike(Code(b)[j], CodeAfter(b)[k]) /\ Visited(b, k)'
<1>1. PICK k : k = Moved(n, b, j)
  OBVIOUS
<1>2. k \in DOMAIN CodeAfter(b) /\ Alike(Code(b)[j], CodeAfter(b)[k])
  BY <1>1 DEF Insertion, RowsStay
<1>3. bb' = bb /\ i' = i + n + 1 /\ n \in {1, 2} /\ i \in Nat
  BY DEF Insertion, Positions
<1>4. Visited(b, k)'
  BY <1>1, <1>3, CodeIsSeq DEF Visited, Moved
<1> QED
  BY <1>2, <1>4

LEMMA OverflowsAreVisitedKept ==
    ASSUME Shape, Positions, Visiting, NEW n, Insertion(n), OverflowsAreVisited
    PROVE  OverflowsAreVisited'
<1> SUFFICES ASSUME NEW b \in Block, NEW j \in DOMAIN CodeAfter(b),
                    CodeAfter(b)[j].op = "overflow"
             PROVE  \E c \in Block : \E k \in DOMAIN CodeAfter(c) :
                       /\ Original(CodeAfter(c)[k]) /\ CodeAfter(c)[k].name = CodeAfter(b)[j].of
                       /\ Visited(c, k)'
  BY AfterInsertion DEF OverflowsAreVisited
<1>1. CASE Fresh(n, b, j)
  <2>1. /\ bb \in Block /\ i \in DOMAIN Code(bb) /\ Current = Code(bb)[i]
        /\ CodeAfter(b)[j].of = Current.name /\ Original(Current)
    BY <1>1, AfterInsertion DEF Fresh, Original, Current
  <2>2. PICK c \in Block, h \in DOMAIN Code(bb) : c = bb /\ h = i
    BY <2>1
  <2>3. PICK k \in DOMAIN CodeAfter(c) : Alike(Code(c)[h], CodeAfter(c)[k]) /\ Visited(c, k)'
    BY <2>1, <2>2, VisitedStays
  <2> QED
    BY <2>1, <2>2, <2>3 DEF Alike, Original
<1>2. CASE \E h \in DOMAIN Code(b) : j = Moved(n, b, h) /\ Alike(Code(b)[h], CodeAfter(b)[j])
  <2>1. PICK h \in DOMAIN Code(b) : Alike(Code(b)[h], CodeAfter(b)[j])
    BY <1>2
  <2>2. Code(b)[h].op = "overflow" /\ Code(b)[h].of = CodeAfter(b)[j].of
    BY <2>1 DEF Alike, Original
  <2>3. PICK c \in Block : \E g \in DOMAIN Code(c) :
           Original(Code(c)[g]) /\ Code(c)[g].name = Code(b)[h].of /\ Visited(c, g)
    BY <2>2 DEF OverflowsAreVisited
  <2>4. PICK g \in DOMAIN Code(c) :
           Original(Code(c)[g]) /\ Code(c)[g].name = Code(b)[h].of /\ Visited(c, g)
    BY <2>3
  <2>5. PICK k \in DOMAIN CodeAfter(c) : Alike(Code(c)[g], CodeAfter(c)[k]) /\ Visited(c, k)'
    BY <2>4, VisitedStays
  <2> QED
    BY <2>2, <2>4, <2>5 DEF Alike, Original
<1> QED
  BY <1>1, <1>2, Descends

\* An operation that is being visited has no overflow yet.
LEMMA NoOverflowYet ==
    ASSUME Shape, Positions, Visiting, Named, OverflowsAreVisited, Original(Current)
    PROVE  \A b \in Block : NoOverflow(b, Current.name)
<1> SUFFICES ASSUME NEW b \in Block, NEW j \in DOMAIN Code(b),
                    IsOverflow(Code(b)[j], Current.name)
             PROVE  FALSE
  BY DEF NoOverflow
<1>0. PICK c \in Block : \E k \in DOMAIN Code(c) :
         Original(Code(c)[k]) /\ Code(c)[k].name = Current.name /\ Visited(c, k)
  BY DEF OverflowsAreVisited, IsOverflow
<1>1. PICK k \in DOMAIN Code(c) :
         Original(Code(c)[k]) /\ Code(c)[k].name = Current.name /\ Visited(c, k)
  BY <1>0
<1>2. bb \in Block /\ i \in DOMAIN Code(bb) /\ Current = Code(bb)[i] /\ i \in Nat /\ bb \in Nat
  BY CurrentFacts, CodeIsSeq DEF Positions
<1>3. c = bb /\ k = i
  BY <1>1, <1>2 DEF Named
<1> QED
  BY <1>1, <1>2, <1>3 DEF Visited

\* The traps of other operations stay what they are.
LEMMA OthersStayTrapped ==
    ASSUME Shape, Positions, Visiting, NEW n, Insertion(n), NEW x, x # Current.name
    PROVE  /\ \A b \in Block : NoOverflow(b, x) => NoOverflow(b, x)'
           /\ TrappedHere(x) /\ Original(Current) => TrappedHere(x)'
           /\ \A C : TrappedAway(x, C) => TrappedAway(x, C)'
<1>0. \A b \in Block : Code(b)' = CodeAfter(b)
  BY AfterInsertion
<1>1. ASSUME NEW b \in Block, NEW k \in DOMAIN CodeAfter(b), IsOverflow(CodeAfter(b)[k], x)
      PROVE  \E j \in DOMAIN Code(b) : k = Moved(n, b, j) /\ IsOverflow(Code(b)[j], x)
  <2>1. ~Fresh(n, b, k)
    BY <1>1 DEF Fresh, IsOverflow
  <2> QED
    BY <1>1, <2>1, Descends DEF Alike, Original, IsOverflow
<1>2. ASSUME NEW b \in Block, NoOverflow(b, x)
      PROVE  NoOverflow(b, x)'
  BY <1>0, <1>1, <1>2 DEF NoOverflow
<1>3. ASSUME NEW b \in Block, NEW j \in DOMAIN Code(b), IsSat(Code(b)[j], x)
      PROVE  /\ Moved(n, b, j) \in DOMAIN CodeAfter(b)
             /\ IsSat(CodeAfter(b)[Moved(n, b, j)], x)
  BY <1>3 DEF Insertion, RowsStay, Alike, Original, IsSat
<1>4. ASSUME TrappedHere(x), Original(Current)
      PROVE  TrappedHere(x)'
  <2> SUFFICES ASSUME NEW b \in Block, NEW k \in DOMAIN CodeAfter(b),
                      IsOverflow(CodeAfter(b)[k], x)
               PROVE  k + 1 \in DOMAIN CodeAfter(b) /\ IsSat(CodeAfter(b)[k + 1], x)
    BY <1>0 DEF TrappedHere
  <2>1. PICK j \in DOMAIN Code(b) : k = Moved(n, b, j) /\ IsOverflow(Code(b)[j], x)
    BY <1>1
  <2>2. j + 1 \in DOMAIN Code(b) /\ IsSat(Code(b)[j + 1], x)
    BY <1>4, <2>1 DEF TrappedHere
  <2>3. ~(b = bb /\ j + 1 = i)
    BY <1>4, <2>2 DEF IsSat, Original, Current
  <2>4. Moved(n, b, j + 1) = k + 1
    BY <2>1, <2>3, CodeIsSeq, AfterInsertion DEF Moved
  <2> QED
    BY <1>3, <2>2, <2>4
<1>5. ASSUME NEW C, TrappedAway(x, C)
      PROVE  TrappedAway(x, C)'
  <2>1. ASSUME NEW b \in Block, NEW k \in DOMAIN CodeAfter(b),
               Original(CodeAfter(b)[k]), Reads(CodeAfter(b)[k]) \cap C # {}
        PROVE  IF CodeAfter(b)[k].op \in Unspeculatable
               THEN /\ NoOverflow(b, x)'
                    /\ \E g \in DOMAIN CodeAfter(b) : g > k /\ IsSat(CodeAfter(b)[g], x)
               ELSE CodeAfter(b)[k].name \in C
    <3>1. PICK j \in DOMAIN Code(b) : k = Moved(n, b, j) /\ Alike(Code(b)[j], CodeAfter(b)[k])
      BY <2>1, Descends
    <3>2. /\ Original(Code(b)[j]) /\ Reads(Code(b)[j]) \cap C # {}
          /\ Code(b)[j].op = CodeAfter(b)[k].op /\ Code(b)[j].name = CodeAfter(b)[k].name
      BY <2>1, <3>1 DEF Alike, Original, Reads
    <3>3. CASE CodeAfter(b)[k].op \in Unspeculatable
      <4>1. PICK g \in DOMAIN Code(b) : g > j /\ IsSat(Code(b)[g], x)
        BY <1>5, <3>2, <3>3 DEF TrappedAway
      <4>2. NoOverflow(b, x)
        BY <1>5, <3>2, <3>3 DEF TrappedAway
      <4>3. Moved(n, b, g) > k
        BY <3>1, <4>1, CodeIsSeq, AfterInsertion, MovedInOrder
      <4> QED
        BY <1>2, <1>3, <3>3, <4>1, <4>2, <4>3
    <3>4. CASE CodeAfter(b)[k].op \notin Unspeculatable
      BY <1>5, <3>2, <3>4 DEF TrappedAway
    <3> QED
      BY <3>3, <3>4
  <2>2. ASSUME NEW b \in Block PROVE ShownBy(b)' <=> ShownBy(b)
    <3>1. prog'[b].term = prog[b].term /\ (isLoopExiting(b)' <=> isLoopExiting(b))
      BY AfterInsertion, SameGraph DEF Insertion
    <3> QED
      BY <3>1 DEF ShownBy
  <2>3. ASSUME NEW b \in Block, ShownBy(b)', prog'[b].term.ops \cap C # {}
        PROVE  NoOverflow(b, x)' /\ \E g \in DOMAIN CodeAfter(b) : IsSat(CodeAfter(b)[g], x)
    <3>1. ShownBy(b) /\ prog[b].term.ops \cap C # {}
      BY <2>2, <2>3 DEF Insertion
    <3>2. PICK g \in DOMAIN Code(b) : IsSat(Code(b)[g], x)
      BY <1>5, <3>1 DEF TrappedAway
    <3> QED
      BY <1>2, <1>3, <1>5, <3>1, <3>2 DEF TrappedAway
  <2>4. x \in C
    BY <1>5 DEF TrappedAway
  <2> QED
    BY <1>0, <2>1, <2>3, <2>4 DEF TrappedAway
<1> QED
  BY <1>2, <1>4, <1>5

----------------------------------------------------------------------------
(* What depends on a value *)

LEMMA NamesAreFinite ==
    ASSUME Shape
    PROVE  IsFiniteSet(Names)
<1>1. ASSUME NEW b \in Block PROVE IsFiniteSet(Defined(b))
  <2> DEFINE f == [j \in 1..Len(Code(b)) |-> Code(b)[j].name]
  <2>1. IsFiniteSet(1..Len(Code(b)))
    BY FS_Interval, CodeIsSeq
  <2>2. f \in Surjection(1..Len(Code(b)), Defined(b))
    BY CodeIsSeq DEF Surjection, Defined
  <2> QED
    BY <2>1, <2>2, FS_Surjection
<1> DEFINE all == {Defined(b) : b \in Block}
<1>2. IsFiniteSet(all)
  <2> DEFINE f == [b \in Block |-> Defined(b)]
  <2>1. f \in Surjection(Block, all)
    BY DEF Surjection
  <2> QED
    BY <2>1, BlocksAreFinite, FS_Surjection
<1>3. \A T \in all : IsFiniteSet(T)
  BY <1>1
<1> HIDE DEF all
<1>4. IsFiniteSet(UNION all)
  BY <1>2, <1>3, FS_UNION
<1> QED
  BY <1>4 DEF all, Names

\* The worklist of insertOverflowCheck ends with a set that whatever reads a value of
\* it belongs to, unless it is observed.
LEMMA DependentsAreClosed ==
    ASSUME Shape, NEW v \in Names
    PROVE  /\ v \in Dependents(v) /\ Dependents(v) \subseteq Names
           /\ \A p \in Places :
                 /\ ~AtTerm(p) /\ ~isObservable(p)
                 /\ Operands(p) \cap Dependents(v) # {}
                 => Code(p[1])[p[2]].name \in Dependents(v)
<1> DEFINE Grow(S) == S \cup {Code(p[1])[p[2]].name :
                                p \in {q \in UNION {Users(x) : x \in S} :
                                         ~AtTerm(q) /\ ~isObservable(q)}}
           F == [S \in SUBSET Names |-> Grow(S)]
           Eq(r) == r = [n \in Nat |-> IF n = 0 THEN {v} ELSE Grow(r[n - 1])]
           a == {v}
<1>1. ASSUME NEW p \in Places, ~AtTerm(p)
      PROVE  Code(p[1])[p[2]].name \in Names
  <2>1. PICK b \in Block, j \in Nat : p = <<b, j>> /\ j \in 1..(Len(Code(b)) + 1)
    BY CodeIsSeq DEF Places
  <2>2. j \in DOMAIN Code(b)
    BY <1>1, <2>1, CodeIsSeq DEF AtTerm
  <2> QED
    BY <2>1, <2>2 DEF Names, Defined
<1>2. \A S \in SUBSET Names : Grow(S) \in SUBSET Names /\ S \subseteq Grow(S)
  BY <1>1 DEF Users
<1>3. /\ F \in [SUBSET Names -> SUBSET Names] /\ a \in SUBSET Names
      /\ \A S \in SUBSET Names : F[S] = Grow(S)
  BY <1>2
<1>4. \E r : Eq(r)
  <2>1. PICK f \in [Nat -> SUBSET Names] : f[0] = a /\ \A n \in Nat : f[n + 1] = F[f[n]]
    <3>1. PICK V, G, c : V = SUBSET Names /\ G = F /\ c = a
      OBVIOUS
    <3>2. G \in [V -> V] /\ c \in V
      BY <1>3, <3>1
    <3> HIDE DEF F, a
    <3>3. \E f : Iterates(V, G, c, f)
      BY <3>2, Iteration
    <3> QED
      BY <3>1, <3>3 DEF Iterates
  <2>2. ASSUME NEW n \in Nat
        PROVE  f[n] = IF n = 0 THEN {v} ELSE Grow(f[n - 1])
    <3>1. CASE n = 0
      BY <2>1, <3>1
    <3>2. CASE n # 0
      <4>1. n - 1 \in Nat /\ (n - 1) + 1 = n
        BY <3>2
      <4>2. f[n] = F[f[n - 1]] /\ f[n - 1] \in SUBSET Names
        BY <2>1, <4>1
      <4> HIDE DEF F, Grow
      <4> QED
        BY <1>3, <3>2, <4>2
    <3> QED
      BY <3>1, <3>2
  <2> HIDE DEF F, a, Grow
  <2>3. f = [n \in Nat |-> IF n = 0 THEN {v} ELSE Grow(f[n - 1])]
    BY <2>2
  <2> QED
    BY <2>3
<1>5. PICK r : Eq(r) /\ Dependents(v) = r[Cardinality(Names)]
  BY <1>4 DEF Dependents
<1>6. r[0] = a /\ \A n \in Nat : r[n] \in SUBSET Names => r[n + 1] = F[r[n]]
  <2>1. r[0] = a
    BY <1>5
  <2>2. ASSUME NEW n \in Nat PROVE r[n + 1] = Grow(r[n])
    <3>1. n + 1 \in Nat /\ n + 1 # 0 /\ (n + 1) - 1 = n
      OBVIOUS
    <3> HIDE DEF Grow
    <3> QED
      BY <1>5, <3>1
  <2> QED
    BY <1>3, <2>1, <2>2
<1> HIDE DEF F, a, Eq, Grow
<1>7. Saturated(Names, F, a, Dependents(v))
  <2>1. PICK U, G, c : U = Names /\ G = F /\ c = a
    OBVIOUS
  <2>2. IsFiniteSet(U) /\ Increasing(U, G) /\ c \in SUBSET U /\ Recursion(U, G, c, r)
    BY <1>2, <1>3, <1>6, <2>1, NamesAreFinite DEF Increasing, Recursion
  <2>3. Saturated(U, G, c, r[Cardinality(U)])
    BY <2>2, SaturatedRecursion
  <2> QED
    BY <1>5, <2>1, <2>3
<1>8. /\ Dependents(v) \subseteq Names /\ v \in Dependents(v)
      /\ Grow(Dependents(v)) = Dependents(v)
  BY <1>3, <1>7 DEF Saturated, a
<1> DEFINE D == Dependents(v)
<1> HIDE DEF D
<1>9. ASSUME NEW p \in Places, ~AtTerm(p), ~isObservable(p), NEW x \in D, x \in Operands(p)
      PROVE  Code(p[1])[p[2]].name \in D
  <2>1. p \in Users(x)
    BY <1>9 DEF Users
  <2>2. p \in {q \in UNION {Users(y) : y \in D} : ~AtTerm(q) /\ ~isObservable(q)}
    BY <1>9, <2>1
  <2>3. Code(p[1])[p[2]].name \in Grow(D)
    BY <2>2 DEF Grow
  <2> QED
    BY <1>8, <2>3 DEF D
<1> QED
  BY <1>8, <1>9 DEF D

\* A trap that is not put where the operation stands is in every block where the
\* result is observed, whatever it goes through.
LEMMA CurrentIsTrapped ==
    ASSUME Shape, Positions, Visiting, NEW n, Insertion(n), Named, OverflowsAreVisited,
           Original(Current), NEW x, x = Current.name
    PROVE  TrappedHere(x)' \/ \E C \in SUBSET Key : TrappedAway(x, C)'
<1>1. \A b \in Block : Code(b)' = CodeAfter(b)
  BY AfterInsertion
<1>2. ASSUME NEW b \in Block, NEW k \in DOMAIN CodeAfter(b), IsOverflow(CodeAfter(b)[k], x)
      PROVE  b = bb /\ k = i /\ Current.op = "add"
  <2>1. ~\E j \in DOMAIN Code(b) : Alike(Code(b)[j], CodeAfter(b)[k])
    <3>1. NoOverflow(b, x)
      BY NoOverflowYet
    <3> QED
      BY <1>2, <3>1 DEF NoOverflow, Alike, Original, IsOverflow
  <2>2. Fresh(n, b, k)
    BY <2>1, Descends
  <2> QED
    BY <1>2, <2>2 DEF Fresh, IsOverflow
<1>3. CASE Current.op # "add"
  BY <1>1, <1>2, <1>3 DEF TrappedHere
<1>4. CASE i + 1 \in DOMAIN CodeAfter(bb) /\ IsSat(CodeAfter(bb)[i + 1], x)
  BY <1>1, <1>2, <1>4 DEF TrappedHere
<1>5. CASE \A b \in ObPoints(x) : /\ b # bb
                                  /\ Len(Code(b)) + 1 \in DOMAIN CodeAfter(b)
                                  /\ IsSat(CodeAfter(b)[Len(Code(b)) + 1], x)
  <2>0. PICK C : C = Dependents(x)
    OBVIOUS
  <2>1. x \in Names
    BY AfterInsertion DEF Names, Defined, Current
  <2>2. /\ x \in C /\ C \subseteq Names
        /\ \A p \in Places : ~AtTerm(p) /\ ~isObservable(p) /\ Operands(p) \cap C # {}
                               => Code(p[1])[p[2]].name \in C
    BY <2>0, <2>1, DependentsAreClosed
  <2>3. Names \subseteq Key
    BY CodeIsSeq, RowFacts DEF Names, Defined
  <2>4. ASSUME NEW p \in Places, isObservable(p), Operands(p) \cap C # {}
        PROVE  p[1] \in ObPoints(x)
    <3>1. PICK y \in C : y \in Operands(p)
      BY <2>4
    <3>2. p \in Users(y)
      BY <3>1 DEF Users
    <3> QED
      BY <2>0, <2>4, <3>2 DEF ObPoints
  <2>5. \A b \in Block : b # bb => NoOverflow(b, x)'
    BY <1>1, <1>2 DEF NoOverflow
  <2>6. ASSUME NEW b \in Block, NEW k \in DOMAIN CodeAfter(b),
               Original(CodeAfter(b)[k]), Reads(CodeAfter(b)[k]) \cap C # {}
        PROVE  IF CodeAfter(b)[k].op \in Unspeculatable
               THEN /\ NoOverflow(b, x)'
                    /\ \E g \in DOMAIN CodeAfter(b) : g > k /\ IsSat(CodeAfter(b)[g], x)
               ELSE CodeAfter(b)[k].name \in C
    <3>1. PICK j \in DOMAIN Code(b) : k = Moved(n, b, j) /\ Alike(Code(b)[j], CodeAfter(b)[k])
      BY <2>6, Descends
    <3>2. /\ Original(Code(b)[j]) /\ Reads(Code(b)[j]) \cap C # {}
          /\ Code(b)[j].op = CodeAfter(b)[k].op /\ Code(b)[j].name = CodeAfter(b)[k].name
      BY <2>6, <3>1 DEF Alike, Original, Reads
    <3>3. PICK p : p = <<b, j>>
      OBVIOUS
    <3>4. j \in 1..Len(Code(b)) /\ Len(Code(b)) \in Nat
      BY CodeIsSeq
    <3>5. p \in Places /\ p[1] = b /\ p[2] = j /\ ~AtTerm(p)
      BY <3>3, <3>4 DEF Places, AtTerm
    <3>6. Operands(p) = Reads(Code(b)[j])
      BY <3>5 DEF Operands
    <3>7. CASE CodeAfter(b)[k].op \in Unspeculatable
      <4>1. isObservable(p)
        BY <3>2, <3>5, <3>7 DEF isObservable
      <4>2. b \in ObPoints(x)
        BY <2>4, <3>2, <3>5, <3>6, <4>1
      <4>3. k = j
        BY <1>5, <3>1, <4>2 DEF Moved
      <4> QED
        BY <1>5, <2>5, <3>4, <3>7, <4>2, <4>3
    <3>8. CASE CodeAfter(b)[k].op \notin Unspeculatable
      <4>1. ~isObservable(p)
        BY <3>2, <3>5, <3>8 DEF isObservable, Original
      <4> QED
        BY <2>2, <3>2, <3>5, <3>6, <3>8, <4>1
    <3> QED
      BY <3>7, <3>8
  <2>7. ASSUME NEW b \in Block, ShownBy(b)', prog'[b].term.ops \cap C # {}
        PROVE  NoOverflow(b, x)' /\ \E g \in DOMAIN CodeAfter(b) : IsSat(CodeAfter(b)[g], x)
    <3>1. prog'[b].term = prog[b].term /\ (isLoopExiting(b)' <=> isLoopExiting(b))
      BY AfterInsertion, SameGraph DEF Insertion
    <3>2. ShownBy(b) /\ prog[b].term.ops \cap C # {}
      BY <2>7, <3>1 DEF ShownBy
    <3>3. PICK p : p = <<b, Len(Code(b)) + 1>>
      OBVIOUS
    <3>4. Len(Code(b)) \in Nat
      BY CodeIsSeq
    <3>5. p \in Places /\ p[1] = b /\ p[2] = Len(Code(b)) + 1 /\ AtTerm(p)
      BY <3>3, <3>4 DEF Places, AtTerm
    <3>6. Operands(p) = prog[b].term.ops /\ isObservable(p)
      BY <3>2, <3>5 DEF Operands, isObservable, ShownBy
    <3>7. b \in ObPoints(x)
      BY <2>4, <3>2, <3>5, <3>6
    <3> QED
      BY <1>5, <2>5, <3>7
  <2>8. TrappedAway(x, C)'
    BY <1>1, <2>2, <2>6, <2>7 DEF TrappedAway
  <2> QED
    BY <2>2, <2>3, <2>8
<1> QED
  BY <1>3, <1>4, <1>5 DEF Insertion, Trapped

----------------------------------------------------------------------------
(* The steps of the pass *)

\* What is said of the function holds as long as it stays as it is.
LEMMA SameFunction ==
    ASSUME prog' = prog
    PROVE  /\ Graph' = Graph
           /\ \A b : Code(b)' = Code(b) /\ Defined(b)' = Defined(b) /\ Above(b)' = Above(b)
           /\ \A b, j : Before(b, j)' = Before(b, j)
           /\ Shape' <=> Shape
           /\ Scoped' <=> Scoped
           /\ EntryIsFirst' <=> EntryIsFirst
           /\ Named' <=> Named
           /\ \A b, x : NoOverflow(b, x)' <=> NoOverflow(b, x)
           /\ \A x : TrappedHere(x)' <=> TrappedHere(x)
           /\ \A x, C : TrappedAway(x, C)' <=> TrappedAway(x, C)
<1>1. Graph' = Graph /\ \A b : Code(b)' = Code(b)
  BY DEF Graph, Code
<1>2. \A b : Defined(b)' = Defined(b)
  BY <1>1 DEF Defined
<1>3. \A b : Above(b)' = Above(b)
  BY <1>1, <1>2, SameGraph DEF Above
<1>4. \A b, j : Before(b, j)' = Before(b, j)
  BY <1>1 DEF Before
<1>5. \A b : Preds(b)' = Preds(b)
  BY <1>1, SameGraph
<1>6. Shape' <=> Shape
  BY DEF Shape
<1>7. Scoped' <=> Scoped
  BY <1>1, <1>2, <1>3, <1>4, <1>5 DEF Scoped
<1>8. EntryIsFirst' <=> EntryIsFirst
  BY <1>1, <1>5 DEF EntryIsFirst
<1>9. Named' <=> Named
  BY <1>1 DEF Named
<1>10. \A b, x : NoOverflow(b, x)' <=> NoOverflow(b, x)
  BY <1>1 DEF NoOverflow
<1>11. \A x : TrappedHere(x)' <=> TrappedHere(x)
  BY <1>1 DEF TrappedHere
<1>12. ASSUME NEW x, NEW C
       PROVE  TrappedAway(x, C)' <=> TrappedAway(x, C)
  <2>1. \A b : ShownBy(b)' <=> ShownBy(b)
    BY <1>1, SameGraph DEF ShownBy
  <2> QED
    BY <1>1, <1>10, <2>1 DEF TrappedAway
<1> QED
  BY <1>1, <1>2, <1>3, <1>4, <1>6, <1>7, <1>8, <1>9, <1>10, <1>11, <1>12

\* Nothing runs while the pass does.
LEMMA NothingRuns ==
    ASSUME Inv, bb <= NumBlocks
    PROVE  /\ at = 0 /\ came = 0 /\ computed = {} /\ seen = {} /\ caught = {}
           /\ \A x \in Name : TrappedHere(x) \/ \E C \in SUBSET Key : TrappedAway(x, C)
<1>1. bb \in Nat
  BY DEF Inv, PassInv, Positions
<1>2. at = 0
  BY <1>1, IntRewriteAssumption DEF Inv, Running
<1>3. \A x \in Name : TrappedHere(x) \/ \E C \in SUBSET Key : TrappedAway(x, C)
  BY DEF Inv, Kept
<1> QED
  BY <1>2, <1>3 DEF Inv, Running

LEMMA StillNothingRuns ==
    ASSUME at = 0 /\ came = 0 /\ computed = {} /\ seen = {} /\ caught = {}, UNCHANGED runVars, PassInv',
           \A x \in Name : TrappedHere(x)' \/ \E C \in SUBSET Key : TrappedAway(x, C)'
    PROVE  Inv'
<1>1. at' = 0 /\ came' = 0 /\ computed' = {} /\ seen' = {} /\ caught' = {}
  BY DEF runVars
<1>2. Running' /\ Reached' /\ TrapsPassed'
  BY <1>1 DEF Running, Reached, TrapsPassed
<1>3. \A x \in Name : Kept(x)'
  BY <1>1 DEF Kept
<1> QED
  BY <1>2, <1>3 DEF Inv

LEMMA InsertionInv ==
    ASSUME Inv, Visiting, Original(Current), UNCHANGED runVars, NEW n, Insertion(n)
    PROVE  Inv'
<1>1. Shape /\ Positions /\ Scoped /\ EntryIsFirst /\ Named /\ OverflowsAreVisited
  BY DEF Inv, PassInv
<1>2. Positions'
  BY <1>1 DEF Insertion, Positions
<1>3. PassInv'
  BY <1>1, <1>2, ScopedKept, NamedKept, OverflowsAreVisitedKept DEF PassInv, Insertion
<1>4. bb <= NumBlocks
  BY DEF Visiting
<1>5. ASSUME NEW x \in Name
      PROVE  TrappedHere(x)' \/ \E C \in SUBSET Key : TrappedAway(x, C)'
  <2>1. CASE x = Current.name
    BY <1>1, <2>1, CurrentIsTrapped
  <2>2. CASE x # Current.name
    <3>1. TrappedHere(x) \/ \E C \in SUBSET Key : TrappedAway(x, C)
      BY <1>4, NothingRuns
    <3> QED
      BY <1>1, <2>2, <3>1, OthersStayTrapped
  <2> QED
    BY <2>1, <2>2
<1> QED
  BY <1>3, <1>4, <1>5, NothingRuns, StillNothingRuns

LEMMA PassStepInv ==
    ASSUME Inv, insertOverflowCheck \/ insertCheck \/ Skip \/ NextBlock
    PROVE  Inv'
<1>1. Shape /\ Positions /\ Scoped /\ EntryIsFirst /\ Named /\ OverflowsAreVisited
  BY DEF Inv, PassInv
<1>2. CASE insertOverflowCheck
  <2>1. PICK n \in {1, 2} : Insertion(n)
    BY <1>1, <1>2, insertOverflowCheckInserts
  <2>2. Visiting /\ Original(Current) /\ UNCHANGED runVars
    BY <1>2 DEF insertOverflowCheck, NextInstruction, Original, runVars
  <2> QED
    BY <2>1, <2>2, InsertionInv
<1>3. CASE insertCheck
  <2>1. Insertion(1)
    BY <1>1, <1>3, insertCheckInserts
  <2>2. Visiting /\ Original(Current) /\ UNCHANGED runVars
    BY <1>3 DEF insertCheck, NextInstruction, Original, runVars
  <2> QED
    BY <2>1, <2>2, InsertionInv
<1>4. ASSUME prog' = prog, UNCHANGED runVars, bb <= NumBlocks, Positions',
             \A b \in Block : \A j \in DOMAIN Code(b) : Visited(b, j) => Visited(b, j)'
      PROVE  Inv'
  <2>1. OverflowsAreVisited'
    BY <1>1, <1>4, SameFunction DEF OverflowsAreVisited
  <2>2. PassInv'
    BY <1>1, <1>4, <2>1, SameFunction DEF PassInv
  <2>3. \A x \in Name : TrappedHere(x)' \/ \E C \in SUBSET Key : TrappedAway(x, C)'
    BY <1>4, NothingRuns, SameFunction
  <2> QED
    BY <1>4, <2>2, <2>3, NothingRuns, StillNothingRuns
<1>5. CASE Skip
  <2>1. /\ prog' = prog /\ UNCHANGED runVars /\ bb <= NumBlocks /\ bb' = bb /\ i' = i + 0 + 1
    BY <1>5 DEF Skip, Pass, NextInstruction, Visiting
  <2> QED
    BY <1>1, <1>4, <2>1, CodeIsSeq DEF Positions, Visited
<1>6. CASE NextBlock
  <2>1. /\ prog' = prog /\ UNCHANGED runVars /\ bb <= NumBlocks /\ bb' = bb + 1 /\ i' = 1
    BY <1>6 DEF NextBlock
  <2> QED
    BY <1>1, <1>4, <2>1 DEF Positions, Visited, Block
<1> QED
  BY <1>2, <1>3, <1>5, <1>6

----------------------------------------------------------------------------
(* The initial states *)

LEMMA InitInv == Init => Inv
<1> SUFFICES ASSUME Init PROVE Inv
  OBVIOUS
<1>1. prog \in Function /\ WellFormed
  BY IntRewriteAssumption DEF Init
<1>2. \A b \in Block : /\ Code(b) \in Seq(Instr) /\ prog[b] \in [code: Seq(Row), term: Term]
  <2> SUFFICES ASSUME NEW b \in Block
               PROVE  Code(b) \in Seq(Instr) /\ prog[b] \in [code: Seq(Row), term: Term]
    OBVIOUS
  <2>1. prog[b] \in [code: Seq(Instr), term: Term]
    BY <1>1 DEF Function
  <2>2. Seq(Instr) \subseteq Seq(Row)
    BY DEF Row
  <2> QED
    BY <2>1, <2>2 DEF Code
<1>3. Shape
  BY <1>1, <1>2 DEF Shape, Function
<1>4. \A b \in Block : \A j \in DOMAIN Code(b) : Original(Code(b)[j])
  <2> SUFFICES ASSUME NEW b \in Block, NEW j \in DOMAIN Code(b) PROVE Original(Code(b)[j])
    OBVIOUS
  <2>1. Code(b)[j] \in Instr
    BY <1>2
  <2> QED
    BY <2>1 DEF Instr, Original
<1>5. ASSUME NEW b \in Block, NEW j \in DOMAIN Code(b)
      PROVE  <<b, j>> \in Places /\ ~AtTerm(<<b, j>>)
  <2>1. j \in 1..Len(Code(b)) /\ Len(Code(b)) \in Nat
    BY <1>3, CodeIsSeq
  <2> QED
    BY <2>1 DEF Places, AtTerm
<1>6. Named
  <2> SUFFICES ASSUME NEW b \in Block, NEW c \in Block,
                      NEW j \in DOMAIN Code(b), NEW k \in DOMAIN Code(c),
                      Code(b)[j].name = Code(c)[k].name
               PROVE  b = c /\ j = k
    BY DEF Named
  <2>1. PICK p, q : p = <<b, j>> /\ q = <<c, k>>
    OBVIOUS
  <2>2. p \in Places /\ q \in Places /\ ~AtTerm(p) /\ ~AtTerm(q)
    BY <1>5, <2>1
  <2>3. p = q
    BY <1>1, <2>1, <2>2 DEF WellFormed, OneDefinition
  <2> QED
    BY <2>1, <2>3
<1>7. Scoped
  <2> SUFFICES ASSUME NEW b \in Block, NEW j \in DOMAIN Code(b)
               PROVE  IF Code(b)[j].op = "phi"
                      THEN \A p \in Preds(b) : Code(b)[j].ops[p] \subseteq Defined(p) \cup Above(p)
                      ELSE Code(b)[j].ops \subseteq Before(b, j) \cup Above(b)
    BY DEF Scoped
  <2>1. PICK p : p = <<b, j>>
    OBVIOUS
  <2>2. p \in Places /\ ~AtTerm(p) /\ p[1] = b /\ p[2] = j
    BY <1>5, <2>1
  <2>3. IF Code(b)[j].op = "phi"
        THEN \A q \in Preds(b) : Code(b)[j].ops[q] \subseteq Defined(q) \cup Above(q)
        ELSE Operands(p) \subseteq Before(b, j) \cup Above(b)
    BY <1>1, <2>2 DEF WellFormed
  <2>4. Code(b)[j].op # "phi" => Operands(p) = Code(b)[j].ops
    BY <2>2 DEF Operands, Reads
  <2> QED
    BY <2>3, <2>4
<1>8. EntryIsFirst
  BY <1>1 DEF WellFormed, EntryIsFirst
<1>9. OverflowsAreVisited
  BY <1>4 DEF OverflowsAreVisited, Original
<1>10. \A x : TrappedHere(x)
  BY <1>4 DEF TrappedHere, Original, IsOverflow
<1>11. Running /\ Reached /\ TrapsPassed
  BY DEF Init, Running, Reached, TrapsPassed
<1>12. \A x \in Name : Kept(x)
  BY <1>10 DEF Init, Kept
<1>13. Positions
  BY DEF Init, Positions
<1> QED
  BY <1>3, <1>6, <1>7, <1>8, <1>9, <1>11, <1>12, <1>13 DEF Inv, PassInv

----------------------------------------------------------------------------
(* The steps of an execution *)

LEMMA PassStays ==
    ASSUME PassInv, UNCHANGED passVars
    PROVE  PassInv'
<1>1. prog' = prog /\ bb' = bb /\ i' = i
  BY DEF passVars
<1>2. OverflowsAreVisited'
  BY <1>1, SameFunction DEF PassInv, OverflowsAreVisited, Visited
<1> QED
  BY <1>1, <1>2, SameFunction DEF PassInv, Positions

LEMMA StartInv ==
    ASSUME Inv, Start
    PROVE  Inv'
<1>1. /\ at = 0 /\ at' = Entry /\ pos' = 1 /\ prog' = prog /\ bb' = bb /\ bb > NumBlocks
      /\ came' = 0 /\ computed' = {} /\ seen' = {} /\ caught' = {}
  BY DEF Start, passVars, Inv, Running
<1>2. PassInv'
  BY PassStays DEF Inv, Start
<1>3. Shape /\ GraphOK /\ Entry \in Block
  BY HasGraph, BlocksAreFinite DEF Inv, PassInv
<1>4. Above(Entry) = {}
  BY <1>3, NothingAboveEntry DEF Above
<1>5. Before(Entry, 1) = {}
  BY DEF Before
<1>6. Running'
  BY <1>1, <1>3, CodeIsSeq, SameFunction DEF Running
<1>7. Reached'
  BY <1>1, <1>3, <1>4, <1>5, SameFunction DEF Reached
<1>8. TrapsPassed'
  <2>1. \A k \in DOMAIN Code(Entry) : ~(k < 1)
    BY <1>3, CodeIsSeq
  <2> QED
    BY <1>1, <2>1, SameFunction DEF TrapsPassed
<1>9. ASSUME NEW x \in Name PROVE Kept(x)'
  <2>1. TrappedHere(x) \/ \E C \in SUBSET Key : TrappedAway(x, C)
    BY DEF Inv, Kept
  <2> QED
    BY <1>1, <2>1, SameFunction DEF Kept
<1> QED
  BY <1>2, <1>6, <1>7, <1>8, <1>9 DEF Inv

\* Where an execution stands.
LEMMA AtFacts ==
    ASSUME Inv, at # 0
    PROVE  /\ Shape /\ GraphOK
           /\ at \in Block /\ Code(at) \in Seq(Row) /\ Len(Code(at)) \in Nat
           /\ DOMAIN Code(at) = 1..Len(Code(at))
           /\ pos \in 1..(Len(Code(at)) + 1)
           /\ AtTerm(<<at, pos>>) <=> pos = Len(Code(at)) + 1
  BY HasGraph, CodeIsSeq DEF Inv, PassInv, Running, AtTerm

\* At the end of a block no trap is ahead.
LEMMA SafeAtEnd ==
    ASSUME Inv, at # 0, AtTerm(<<at, pos>>), NEW x, Safe(x)
    PROVE  x \in caught
  BY AtFacts DEF Safe, Pending

LEMMA BranchInv ==
    ASSUME Inv, Branch
    PROVE  Inv'
<1>1. /\ at # 0 /\ AtTerm(<<at, pos>>) /\ came' = at /\ pos' = 1
      /\ prog' = prog /\ bb' = bb
      /\ computed' = computed /\ live' = live /\ seen' = seen /\ caught' = caught
  BY DEF Branch, passVars
<1>2. PICK k \in DOMAIN Succs(at) : at' = Succs(at)[k]
  BY DEF Branch
<1>3. /\ Shape /\ GraphOK /\ at \in Block /\ pos = Len(Code(at)) + 1
      /\ Len(Code(at)) \in Nat /\ DOMAIN Code(at) = 1..Len(Code(at))
  BY <1>1, AtFacts
<1>4. at' \in Block /\ at' # 0 /\ at # 0
  BY <1>2, <1>3, IntRewriteAssumption DEF GraphOK, Block
<1>5. PassInv'
  BY PassStays DEF Inv, Branch
<1>6. PICK a, s : a = at /\ s = at'
  OBVIOUS
<1>7. Defined(a) \cup Above(a) \subseteq computed
  <2>1. Defined(a) = Before(a, pos)
    BY <1>3, <1>6 DEF Defined, Before
  <2> QED
    BY <1>1, <1>6, <2>1 DEF Inv, Reached
<1>8. Above(s) \subseteq computed
  <2> SUFFICES ASSUME NEW d \in Block, d # s, Dominates(d, s), NEW v \in Defined(d)
               PROVE  v \in computed
    BY DEF Above
  <2>1. Dominates(d, a)
    BY <1>2, <1>3, <1>6, DominatorsAbove
  <2> QED
    BY <1>7, <2>1 DEF Above
<1>9. Before(s, 1) = {}
  BY DEF Before
<1>10. a \in Preds(s)
  BY <1>2, <1>3, <1>6 DEF Preds
<1>11. Reached'
  <2>1. Above(s)' \subseteq computed /\ Before(s, 1)' = {} /\ a \in Preds(s)'
    BY <1>1, <1>8, <1>9, <1>10, SameFunction, SameGraph
  <2>2. Defined(a)' \cup Above(a)' \subseteq computed
    BY <1>1, <1>7, SameFunction
  <2> QED
    BY <1>1, <1>4, <1>6, <2>1, <2>2 DEF Reached
<1>12. Running'
  <2>1. Len(Code(s)') \in Nat
    BY <1>1, <1>3, <1>4, <1>6, CodeIsSeq, SameFunction
  <2> QED
    BY <1>1, <1>4, <1>6, <2>1 DEF Inv, Running
<1>13. TrapsPassed'
  <2>1. \A g \in DOMAIN Code(s)' : ~(g < 1)
    BY <1>1, <1>3, <1>4, <1>6, CodeIsSeq, SameFunction
  <2> QED
    BY <1>1, <1>6, <2>1 DEF TrapsPassed
<1>14. ASSUME NEW x \in Name PROVE Kept(x)'
  <2>1. Safe(x) => Safe(x)'
    BY <1>1, SafeAtEnd DEF Safe
  <2> QED
    BY <1>1, <2>1, SameFunction DEF Inv, Kept
<1> QED
  BY <1>5, <1>11, <1>12, <1>13, <1>14 DEF Inv

\* What an instruction reads has been computed, and is one of its operands.
LEMMA CurrentRow ==
    ASSUME Inv, at # 0, ~AtTerm(<<at, pos>>), NEW I, I = Code(at)[pos],
           NEW reads, reads = IF I.op = "phi" THEN I.ops[came] ELSE I.ops
    PROVE  /\ I \in Row /\ pos \in DOMAIN Code(at) /\ pos \in Nat
           /\ reads \subseteq computed /\ reads \subseteq Reads(I)
<1>1. I \in Row /\ pos \in DOMAIN Code(at) /\ pos \in Nat
  BY AtFacts
<1>2. at \in Block
  BY AtFacts
<1>3. CASE I.op = "phi"
  <2>1. at # Entry
    BY <1>1, <1>3 DEF Inv, PassInv, EntryIsFirst
  <2>2. came \in Preds(at) /\ Defined(came) \cup Above(came) \subseteq computed
    BY <2>1 DEF Inv, Reached
  <2>3. I.ops[came] \subseteq Defined(came) \cup Above(came)
    BY <1>1, <1>2, <1>3, <2>2 DEF Inv, PassInv, Scoped
  <2>4. came \in Block
    BY <2>2 DEF Preds
  <2> QED
    BY <1>1, <1>3, <2>2, <2>3, <2>4 DEF Reads
<1>4. CASE I.op # "phi"
  <2>1. I.ops \subseteq Before(at, pos) \cup Above(at)
    BY <1>1, <1>2, <1>4 DEF Inv, PassInv, Scoped
  <2> QED
    BY <1>1, <1>4, <2>1 DEF Inv, Reached, Reads
<1> QED
  BY <1>3, <1>4

LEMMA StepInv ==
    ASSUME Inv, Step
    PROVE  Inv'
<1>1. PICK I, reads, fresh, mine :
        /\ I = Code(at)[pos]
        /\ reads = IF I.op = "phi" THEN I.ops[came] ELSE I.ops
        /\ fresh = IF I.op = "overflow" THEN {I.of} ELSE {}
        /\ mine = IF OverflowOf(I.name) \in computed THEN {I.name} ELSE {}
  OBVIOUS
<1>2. /\ at # 0 /\ ~AtTerm(<<at, pos>>)
      /\ at' = at /\ pos' = pos + 1 /\ prog' = prog /\ bb' = bb /\ came' = came
      /\ computed' = computed \cup {I.name}
      /\ caught' = (caught \ fresh) \cup (IF I.op = "sat" THEN {I.of} ELSE {})
      /\ seen' = (seen \ fresh) \cup (IF I.op \in Unspeculatable THEN Origins(reads) ELSE {})
  BY <1>1 DEF Step, Compute, passVars
<1>3. \A v \in computed' :
        live'[v] = (IF v = I.name THEN Origins(reads) \cup mine ELSE live[v]) \ fresh
  BY <1>1 DEF Step, Compute
<1>4. /\ I \in Row /\ pos \in DOMAIN Code(at) /\ pos \in Nat
      /\ reads \subseteq computed /\ reads \subseteq Reads(I)
  BY <1>1, <1>2, CurrentRow
<1>5. /\ Shape /\ at \in Block /\ Len(Code(at)) \in Nat /\ DOMAIN Code(at) = 1..Len(Code(at))
  BY <1>2, AtFacts
<1>6. /\ Code(at)' = Code(at) /\ Defined(came)' = Defined(came)
      /\ Above(at)' = Above(at) /\ Above(came)' = Above(came) /\ Preds(at)' = Preds(at)
      /\ \A j : Before(at, j)' = Before(at, j)
      /\ \A x : NoOverflow(at, x)' <=> NoOverflow(at, x)
  <2>1. PICK a, c : a = at /\ c = came
    OBVIOUS
  <2> QED
    BY <1>2, <2>1, SameFunction, SameGraph DEF Code, Before, NoOverflow
<1>7. PassInv'
  BY PassStays DEF Inv, Step
<1>8. Running'
  <2>1. computed' \subseteq Key
    BY <1>2, <1>4, RowFacts DEF Inv, Running
  <2>2. pos' \in 1..(Len(Code(at)') + 1)
    BY <1>2, <1>4, <1>5, <1>6
  <2>3. bb > NumBlocks
    BY <1>2 DEF Inv, Running
  <2> QED
    BY <1>2, <1>5, <2>1, <2>2, <2>3 DEF Running
<1>9. Reached'
  <2>1. Before(at, pos + 1) = Before(at, pos) \cup {I.name}
    <3>1. 1..(pos + 1 - 1) = (1..(pos - 1)) \cup {pos}
      BY <1>4, <1>5
    <3> QED
      BY <1>1, <3>1 DEF Before
  <2>2. Before(at, pos + 1) \cup Above(at) \subseteq computed'
    BY <1>2, <2>1 DEF Inv, Reached
  <2>3. Before(at, pos)' \cup Above(at)' \subseteq computed'
    <3>1. PICK a, p : a = at /\ p = pos + 1
      OBVIOUS
    <3> QED
      BY <1>2, <1>6, <2>2, <3>1, SameFunction
  <2>4. IF came = 0 THEN at = Entry
        ELSE came \in Preds(at) /\ Defined(came) \cup Above(came) \subseteq computed
    BY <1>2 DEF Inv, Reached
  <2> QED
    BY <1>2, <1>6, <2>3, <2>4 DEF Reached
<1>10. \A x : IsOverflow(I, x) <=> x \in fresh
  BY <1>1 DEF IsOverflow
<1>11. TrapsPassed'
  <2> SUFFICES ASSUME NEW k \in DOMAIN Code(at), NEW x \in Name,
                      k < pos + 1, IsSat(Code(at)[k], x), NoOverflow(at, x)
               PROVE  x \in caught'
    BY <1>2, <1>6 DEF TrapsPassed
  <2>1. CASE k = pos
    BY <1>1, <1>2, <2>1 DEF IsSat
  <2>2. CASE k # pos
    <3>1. k < pos
      BY <1>4, <1>5, <2>2
    <3>2. x \in caught
      BY <1>2, <3>1 DEF Inv, TrapsPassed
    <3>3. x \notin fresh
      BY <1>1, <1>4, <1>10 DEF NoOverflow
    <3> QED
      BY <1>2, <3>2, <3>3
  <2> QED
    BY <2>1, <2>2
<1>12. ASSUME NEW x, NEW k \in DOMAIN Code(at), k >= pos + 1, IsSat(Code(at)[k], x),
              \A j \in (pos + 1)..k : ~IsOverflow(Code(at)[j], x)
       PROVE  Safe(x)'
  BY <1>2, <1>6, <1>12 DEF Safe, Pending
<1>13. ASSUME NEW x, Safe(x), ~IsOverflow(I, x)
       PROVE  Safe(x)'
  <2>1. CASE x \in caught
    BY <1>2, <1>10, <1>13, <2>1 DEF Safe
  <2>2. CASE Pending(x)
    <3>1. PICK k \in DOMAIN Code(at) :
            /\ k >= pos /\ IsSat(Code(at)[k], x)
            /\ \A j \in pos..k : ~IsOverflow(Code(at)[j], x)
      BY <2>2 DEF Pending
    <3>2. CASE k = pos
      <4>1. x \in caught'
        BY <1>1, <1>2, <3>1, <3>2 DEF IsSat
      <4> QED
        BY <4>1 DEF Safe
    <3>3. CASE k # pos
      <4>1. k >= pos + 1 /\ \A j \in (pos + 1)..k : ~IsOverflow(Code(at)[j], x)
        BY <1>4, <1>5, <3>1, <3>3
      <4> QED
        BY <1>12, <3>1, <4>1
    <3> QED
      BY <3>2, <3>3
  <2> QED
    BY <1>13, <2>1, <2>2 DEF Safe
<1>14. ASSUME NEW x \in Name, TrappedHere(x), OverflowOf(x) \in computed => Safe(x)
       PROVE  Kept(x)'
  <2>1. TrappedHere(x)'
    BY <1>2, <1>14, SameFunction
  <2>2. CASE IsOverflow(I, x)
    <3>1. pos + 1 \in DOMAIN Code(at) /\ IsSat(Code(at)[pos + 1], x)
      BY <1>1, <1>4, <1>5, <1>14, <2>2 DEF TrappedHere
    <3>2. \A j \in (pos + 1)..(pos + 1) : ~IsOverflow(Code(at)[j], x)
      BY <1>4, <3>1 DEF IsSat, IsOverflow
    <3>3. Safe(x)'
      BY <1>4, <1>12, <3>1, <3>2
    <3> QED
      BY <2>1, <3>3 DEF Kept
  <2>3. CASE ~IsOverflow(I, x)
    <3>1. I.name # OverflowOf(x)
      BY <1>4, <2>3, RowFacts
    <3>2. OverflowOf(x)' = OverflowOf(x)
      BY DEF OverflowOf
    <3>3. OverflowOf(x)' \in computed' => Safe(x)'
      BY <1>2, <1>13, <1>14, <2>3, <3>1, <3>2
    <3> QED
      BY <2>1, <3>3 DEF Kept
  <2> QED
    BY <2>2, <2>3
<1>15. ASSUME NEW x \in Name, NEW C \in SUBSET Key, TrappedAway(x, C), x \in seen => Safe(x),
              \A v \in computed \cap Name : x \in live[v] => v \in C \/ Safe(x)
       PROVE  Kept(x)'
  <2>1. TrappedAway(x, C)'
    BY <1>2, <1>15, SameFunction
  <2>2. Name' = Name /\ Key' = Key
    BY DEF Name, Key, OverflowOf, SatOf
  <2>3. CASE IsOverflow(I, x)
    <3>1. x \in fresh /\ I.op = "overflow"
      BY <1>10, <2>3 DEF IsOverflow
    <3>2. x \notin seen'
      BY <1>2, <3>1 DEF Unspeculatable
    <3>3. \A v \in computed' : x \notin live'[v]
      BY <1>3, <3>1
    <3> QED
      BY <2>1, <2>2, <3>2, <3>3 DEF Kept
  <2>4. CASE ~IsOverflow(I, x)
    <3>1. Safe(x) => Safe(x)'
      BY <1>13, <2>4
    <3>2. ASSUME Original(I), x \in Origins(reads), ~Safe(x)
          PROVE  IF I.op \in Unspeculatable THEN Safe(x)' ELSE I.name \in C
      <4>1. PICK u \in reads \cap computed : x \in live[u]
        BY <3>2 DEF Origins
      <4>2. u \in Reads(I) /\ u \in Name
        <5>1. u \in Reads(I)
          BY <1>4, <4>1
        <5>2. Reads(I) \subseteq Name
          BY <1>4, <3>2, RowFacts DEF Reads
        <5> QED
          BY <5>1, <5>2
      <4>3. u \in C
        BY <1>15, <3>2, <4>1, <4>2
      <4>4. IF I.op \in Unspeculatable
            THEN NoOverflow(at, x) /\ \E k \in DOMAIN Code(at) : k > pos /\ IsSat(Code(at)[k], x)
            ELSE I.name \in C
        BY <1>1, <1>4, <1>5, <1>15, <3>2, <4>2, <4>3 DEF TrappedAway
      <4>5. CASE I.op \in Unspeculatable
        <5>1. PICK k \in DOMAIN Code(at) : k > pos /\ IsSat(Code(at)[k], x)
          BY <4>4, <4>5
        <5>2. k >= pos + 1 /\ \A j \in (pos + 1)..k : ~IsOverflow(Code(at)[j], x)
          BY <1>4, <1>5, <4>4, <4>5, <5>1 DEF NoOverflow
        <5> QED
          BY <1>12, <4>5, <5>1, <5>2
      <4> QED
        BY <4>4, <4>5
    <3>3. x \in seen' => Safe(x)'
      <4> SUFFICES ASSUME x \in seen' PROVE Safe(x)'
        OBVIOUS
      <4>1. CASE x \in seen
        BY <1>15, <3>1, <4>1
      <4>2. CASE x \notin seen
        <5>1. x \in Origins(reads) /\ I.op \in Unspeculatable
          BY <1>2, <4>2
        <5> QED
          BY <3>1, <3>2, <5>1 DEF Original, Unspeculatable
      <4> QED
        BY <4>1, <4>2
    <3>4. ASSUME NEW v \in computed' \cap Name, x \in live'[v]
          PROVE  v \in C \/ Safe(x)'
      <4>1. CASE v # I.name
        <5>1. v \in computed \cap Name /\ x \in live[v]
          BY <1>2, <1>3, <3>4, <4>1
        <5> QED
          BY <1>15, <3>1, <5>1
      <4>2. CASE v = I.name
        <5>1. Original(I)
          BY <1>4, <3>4, <4>2, RowFacts
        <5>2. x \in Origins(reads) \cup mine
          BY <1>3, <3>4, <4>2
        <5>3. CASE x \in Origins(reads)
          BY <3>1, <3>2, <4>2, <5>1, <5>3
        <5>4. CASE x \in mine
          BY <1>1, <1>15, <4>2, <5>4 DEF TrappedAway
        <5> QED
          BY <5>2, <5>3, <5>4
      <4> QED
        BY <4>1, <4>2
    <3> QED
      BY <2>1, <2>2, <3>3, <3>4 DEF Kept
  <2> QED
    BY <2>3, <2>4
<1>16. ASSUME NEW x \in Name PROVE Kept(x)'
  <2>1. Kept(x)
    BY DEF Inv
  <2>2. CASE TrappedHere(x) /\ (OverflowOf(x) \in computed => Safe(x))
    BY <1>14, <2>2
  <2>3. CASE \E C \in SUBSET Key :
               /\ TrappedAway(x, C)
               /\ x \in seen => Safe(x)
               /\ \A v \in computed \cap Name : x \in live[v] => v \in C \/ Safe(x)
    BY <1>15, <2>3
  <2> QED
    BY <2>1, <2>2, <2>3 DEF Kept
<1> QED
  BY <1>7, <1>8, <1>9, <1>11, <1>16 DEF Inv

----------------------------------------------------------------------------
(* Theorems *)

LEMMA NextInv == Inv /\ [Next]_vars => Inv'
<1> SUFFICES ASSUME Inv, [Next]_vars PROVE Inv'
  OBVIOUS
<1>1. CASE insertOverflowCheck \/ insertCheck \/ Skip \/ NextBlock
  BY <1>1, PassStepInv
<1>2. CASE Start
  BY <1>2, StartInv
<1>3. CASE Step
  BY <1>3, StepInv
<1>4. CASE Branch
  BY <1>4, BranchInv
<1>5. CASE UNCHANGED vars
  <2>1. UNCHANGED <<passVars, at, pos, came, computed, live, seen, caught>>
    BY <1>5 DEF vars, runVars
  <2>2. PassInv' /\ prog' = prog /\ bb' = bb
    BY <2>1, PassStays DEF Inv, passVars
  <2>3. Running'
    BY <2>1, <2>2 DEF Inv, Running, Code
  <2>4. Reached'
    <3>1. PICK a, c, p : a = at /\ c = came /\ p = pos
      OBVIOUS
    <3>2. /\ Above(a)' = Above(a) /\ Above(c)' = Above(c) /\ Defined(c)' = Defined(c)
          /\ Before(a, p)' = Before(a, p) /\ Preds(a)' = Preds(a)
      BY <2>2, SameFunction, SameGraph
    <3> QED
      BY <2>1, <3>1, <3>2 DEF Inv, Reached
  <2>5. TrapsPassed'
    <3>1. PICK a : a = at
      OBVIOUS
    <3>2. Code(a)' = Code(a) /\ \A x : NoOverflow(a, x)' <=> NoOverflow(a, x)
      BY <2>2, SameFunction
    <3> QED
      BY <2>1, <3>1, <3>2 DEF Inv, TrapsPassed
  <2>6. ASSUME NEW x \in Name PROVE Kept(x)'
    <3>1. Safe(x)' <=> Safe(x)
      BY <2>1, <2>2 DEF Safe, Pending, Code
    <3> QED
      BY <2>1, <2>2, <3>1, SameFunction DEF Inv, Kept
  <2> QED
    BY <2>2, <2>3, <2>4, <2>5, <2>6 DEF Inv
<1> QED
  BY <1>1, <1>2, <1>3, <1>4, <1>5 DEF Next, Return

\* Wherever the pass and an execution of its result have come, the function is
\* in SSA form and each operation whose trap is due is on the way to it or past.
THEOREM Invariant == Spec => []Inv
  BY InitInv, NextInv, PTL DEF Spec

\* Everything the pass inserts reads only what has been computed, on every path
\* to it: in particular a trap that insertOverflowCheck puts into another block
\* stands where the overflow it reads dominates it.
THEOREM OperandsDominate == Spec => []ReadsAreComputed
<1>1. Inv => ReadsAreComputed
  BY CurrentRow DEF ReadsAreComputed
<1> QED
  BY <1>1, Invariant, PTL

\* An execution that has come to the end of a block has passed the trap of every
\* operation whose last result it has observed, wherever that trap was put.
THEOREM NoTrapMissed == Spec => []ObservedIsTrapped
<1>1. Inv => ObservedIsTrapped
  <2> SUFFICES ASSUME Inv, at # 0, AtTerm(<<at, pos>>), NEW x \in seen \cup Shown,
                      OverflowOf(x) \in computed
               PROVE  x \in caught
    BY DEF ObservedIsTrapped
  <2>1. /\ Shape /\ at \in Block /\ DOMAIN Code(at) = 1..Len(Code(at))
        /\ Len(Code(at)) \in Nat /\ pos = Len(Code(at)) + 1
    BY AtFacts
  <2>2. x \in Name
    <3>1. OverflowOf(x) \in Key
      BY DEF Inv, Running
    <3> QED
      BY <3>1, NamesDiffer DEF Key
  <2>3. Kept(x)
    BY <2>2 DEF Inv
  <2>4. CASE TrappedHere(x) /\ (OverflowOf(x) \in computed => Safe(x))
    BY <2>4, SafeAtEnd
  <2>5. ASSUME NEW C \in SUBSET Key, TrappedAway(x, C), x \in seen => Safe(x),
               \A v \in computed \cap Name : x \in live[v] => v \in C \/ Safe(x)
        PROVE  x \in caught
    <3>1. CASE x \in seen
      BY <2>5, <3>1, SafeAtEnd
    <3>2. CASE x \in Shown
      <4>1. ShownBy(at) /\ x \in Origins(prog[at].term.ops)
        BY <2>1, <3>2 DEF Shown, isObservable, AtTerm, ShownBy
      <4>2. PICK v \in prog[at].term.ops \cap computed : x \in live[v]
        BY <4>1 DEF Origins
      <4>3. v \in Name
        BY <2>1, CodeIsSeq DEF Term
      <4>4. CASE v \in C
        <5>1. NoOverflow(at, x) /\ \E k \in DOMAIN Code(at) : IsSat(Code(at)[k], x)
          BY <2>1, <2>5, <4>1, <4>2, <4>4 DEF TrappedAway
        <5> QED
          BY <2>1, <2>2, <5>1 DEF Inv, TrapsPassed
      <4>5. CASE v \notin C
        BY <2>5, <4>2, <4>3, <4>5, SafeAtEnd
      <4> QED
        BY <4>4, <4>5
    <3> QED
      BY <3>1, <3>2
  <2> QED
    BY <2>3, <2>4, <2>5 DEF Kept
<1> QED
  BY <1>1, Invariant, PTL
=============================================================================
