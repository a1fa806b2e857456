------------------------------ MODULE CmpSatProofs ------------------------------
(***************************************************************************)
(* Proofs about CmpSat, IntSat's queries and PathGen, for functions of any   *)
(* number of blocks and values of any kind.                                 *)
(*                                                                          *)
(* First that the back edges the depth-first search finds cut every loop:   *)
(* what is left of the graph has an order in which dominators come first.   *)
(* Along this order there is one path condition for each block; and it is   *)
(* about values only that are computed no later than the block.            *)
(***************************************************************************)
EXTENDS CmpSat, FiniteSetTheorems, WellFoundedInduction, TLAPS

----------------------------------------------------------------------------
(* Induction *)

\* Induction, for a set of numbers: its complement would have an initial
\* interval around it that is minimal.
LEMMA InductionOverSets ==
    ASSUME NEW S, 0 \in S, \A n \in Nat : n \in S => n + 1 \in S
    PROVE  Nat \subseteq S
<1> SUFFICES ASSUME NEW n0 \in Nat, n0 \notin S PROVE FALSE
  OBVIOUS
<1> DEFINE U == 0..n0
           B == {m \in U : m \notin S}
           T == {0..m : m \in B}
<1>1. T \subseteq FiniteSubsetsOf(U)
  <2> SUFFICES ASSUME NEW m \in B PROVE 0..m \in FiniteSubsetsOf(U)
    OBVIOUS
  <2>1. IsFiniteSet(0..m)
    BY FS_Interval
  <2> QED
    BY <2>1 DEF FiniteSubsetsOf
<1>2. 0..n0 \in T
  OBVIOUS
<1>3. \E x \in T : \A y \in T : ~(<<y, x>> \in StrictSubsetOrdering(U))
  <2> HIDE DEF T, U
  <2>1. T # {}
    BY <1>2
  <2> QED
    BY <1>1, <2>1, FS_StrictSubsetOrderingWellFounded, WFMin
<1>4. PICK m \in B : \A y \in T : ~(<<y, 0..m>> \in StrictSubsetOrdering(U))
  BY <1>3
<1>5. m - 1 \in B
  OBVIOUS
<1>6. 0..(m - 1) \in T
  BY <1>5
<1>7. <<0..(m - 1), 0..m>> \in StrictSubsetOrdering(U)
  <2>1. m \in 0..m /\ m \notin 0..(m - 1)
    OBVIOUS
  <2>2. 0..(m - 1) \subseteq 0..m /\ 0..m \subseteq U
    OBVIOUS
  <2> QED
    BY <2>1, <2>2 DEF StrictSubsetOrdering
<1> QED
  BY <1>4, <1>6, <1>7

\* Induction along a rank: a set that takes in what all of lower rank is in.
Inductive(S, rank, T) ==
    \A b \in S : (\A c \in S : rank[c] < rank[b] => c \in T) => b \in T

LEMMA RankInduction ==
    ASSUME NEW S, NEW rank \in [S -> Nat], NEW T, Inductive(S, rank, T)
    PROVE  S \subseteq T
<1> DEFINE Q == {n \in Nat : \A b \in S : rank[b] < n => b \in T}
<1>1. 0 \in Q
  OBVIOUS
<1>2. ASSUME NEW n \in Nat, n \in Q PROVE n + 1 \in Q
  <2> SUFFICES ASSUME NEW b \in S, rank[b] < n + 1 PROVE b \in T
    OBVIOUS
  <2>1. \A c \in S : rank[c] < rank[b] => c \in T
    BY <1>2
  <2> QED
    BY <2>1 DEF Inductive
<1>3. Nat \subseteq Q
  <2> HIDE DEF Q
  <2> QED
    BY <1>1, <1>2, InductionOverSets
<1> SUFFICES ASSUME NEW b \in S PROVE b \in T
  OBVIOUS
<1>4. rank[b] + 1 \in Q
  BY <1>3
<1> QED
  BY <1>4

----------------------------------------------------------------------------
(* Control flow *)

\* A function has a graph, and no dead blocks.
GraphOK == \A b \in Block : Succs(b) \in Seq(Block)
AllReached == \A b \in Block : ~Dominates(0, b)

LEMMA BlocksAreFinite ==
    /\ IsFiniteSet(Block) /\ Cardinality(Block) = NumBlocks /\ NumBlocks \in Nat
    /\ Entry \in Block /\ 0 \notin Block
  BY FS_Interval, PathGenAssumption DEF Block, Entry

\* Where one can be without having come by d, one can go on without d.
LEMMA AvoidingGoesOn ==
    ASSUME GraphOK, NEW d
    PROVE  /\ Entry # d => Entry \in Avoiding(d)
           /\ \A b \in Avoiding(d) : \A j \in DOMAIN Succs(b) :
                 Succs(b)[j] = d \/ Succs(b)[j] \in Avoiding(d)
<1>1. Entry # d => Entry \in Avoiding(d)
  BY BlocksAreFinite DEF Avoiding, ClosedBut
<1>2. ASSUME NEW b \in Avoiding(d), NEW j \in DOMAIN Succs(b), Succs(b)[j] # d
      PROVE  Succs(b)[j] \in Avoiding(d)
  <2>1. b \in Block /\ Succs(b)[j] \in Block
    BY <1>2 DEF Avoiding, GraphOK
  <2>2. ASSUME NEW S \in SUBSET Block, ClosedBut(d, S) PROVE Succs(b)[j] \in S
    <3>1. b \in S
      BY <2>2 DEF Avoiding
    <3> QED
      BY <1>2, <2>2, <3>1 DEF ClosedBut
  <2> QED
    BY <2>1, <2>2 DEF Avoiding
<1> QED
  BY <1>1, <1>2

\* And nowhere else.
LEMMA AvoidingIsLeast ==
    ASSUME NEW d, NEW S \in SUBSET Block, ClosedBut(d, S)
    PROVE  Avoiding(d) \subseteq S
  BY DEF Avoiding

LEMMA DominatesItself ==
    ASSUME GraphOK, NEW d \in Block
    PROVE  Dominates(d, d)
<1> DEFINE S == Block \ {d}
<1>1. ClosedBut(d, S)
  BY BlocksAreFinite DEF ClosedBut, GraphOK
<1> QED
  BY <1>1 DEF Dominates, Avoiding

\* What dominates a successor of a block dominates the block or is one of the two.
LEMMA DominatorsAbove ==
    ASSUME GraphOK, NEW b \in Block, NEW j \in DOMAIN Succs(b), NEW d,
           Dominates(d, Succs(b)[j]), d # Succs(b)[j]
    PROVE  Dominates(d, b)
  BY AvoidingGoesOn DEF Dominates

LEMMA NothingAboveEntry ==
    ASSUME GraphOK, NEW d, Dominates(d, Entry)
    PROVE  d = Entry
  BY AvoidingGoesOn DEF Dominates

----------------------------------------------------------------------------
(* The depth-first search *)

Searches ==
    [path: Seq(Block), next: [Block -> Nat], seen: SUBSET Block,
     found: SUBSET (Block \X Block)]

\* The blocks that are on the stack, and those that have been left.
On(w) == {w.path[j] : j \in 1..Len(w.path)}
Left(w) == w.seen \ On(w)

\* No block is on the stack twice; under it are all that dominate it.
StackInv(w) ==
    /\ On(w) \subseteq w.seen /\ Entry \in w.seen
    /\ \A i, j \in 1..Len(w.path) : w.path[i] = w.path[j] => i = j
    /\ \A j \in 1..Len(w.path) : \A d \in Block :
          Dominates(d, w.path[j]) => \E i \in 1..j : w.path[i] = d
    /\ \A j \in 1..Len(w.path) : j # 1 => w.path[j - 1] \in Preds(w.path[j])
    /\ Len(w.path) > 0 => w.path[1] = Entry

\* Where an edge that has been looked at leads.
EdgesInv(w) ==
    /\ \A b \in Block : w.next[b] >= 1 /\ w.next[b] <= Len(Succs(b)) + 1
    /\ \A b \in Left(w) : w.next[b] = Len(Succs(b)) + 1
    /\ \A b \in Block : b \notin w.seen => w.next[b] = 1
    /\ \A b \in w.seen : \A i \in DOMAIN Succs(b) : i < w.next[b] =>
          \/ <<b, Succs(b)[i]>> \in w.found
          \/ Succs(b)[i] \in Left(w)
          \/ \E j \in 1..(Len(w.path) - 1) : w.path[j] = b /\ w.path[j + 1] = Succs(b)[i]
    /\ \A e \in w.found : e[2] \in w.seen

\* When f says in which order blocks have been left: those an edge leads to
\* first, those that dominate it later, and one of its predecessors too.
LeftInOrder(w, f) ==
    /\ \A b \in Left(w) : f[b] <= Cardinality(Left(w))
    /\ \A b \in Left(w) : \A i \in DOMAIN Succs(b) :
          \/ <<b, Succs(b)[i]>> \in w.found
          \/ Succs(b)[i] \in Left(w) /\ f[Succs(b)[i]] < f[b]
    /\ \A b \in Left(w) : \A d \in Block : Dominates(d, b) /\ d # b =>
          d \in On(w) \/ (d \in Left(w) /\ f[d] > f[b])
    /\ \A b \in Left(w) : b # Entry =>
          \E p \in Preds(b) : p \in On(w) \/ (p \in Left(w) /\ f[p] > f[b])

SearchInv(w) ==
    /\ w \in Searches /\ StackInv(w) /\ EdgesInv(w)
    /\ \E f \in [Block -> Nat] : LeftInOrder(w, f)

LEMMA BeginSearchInv ==
    ASSUME GraphOK
    PROVE  SearchInv(BeginSearch)
<1> DEFINE w == BeginSearch
           f == [b \in Block |-> 0]
<1>1. w \in Searches /\ w.path = <<Entry>> /\ w.seen = {Entry} /\ w.found = {}
      /\ w.next = [b \in Block |-> 1]
  BY BlocksAreFinite DEF BeginSearch, Searches
<1>2. Len(w.path) = 1 /\ w.path[1] = Entry
  BY <1>1
<1>3. On(w) = {Entry} /\ Left(w) = {}
  BY <1>1, <1>2 DEF On, Left
<1> HIDE DEF w
<1>4. StackInv(w)
  BY <1>1, <1>2, <1>3, NothingAboveEntry DEF StackInv
<1>5. EdgesInv(w)
  <2>1. \A b \in Block : w.next[b] = 1 /\ Len(Succs(b)) \in Nat /\ DOMAIN Succs(b) = 1..Len(Succs(b))
    BY <1>1 DEF GraphOK
  <2>2. w.seen \subseteq Block
    BY <1>1, BlocksAreFinite
  <2> QED
    BY <1>1, <1>3, <2>1, <2>2 DEF EdgesInv
<1>6. LeftInOrder(w, f)
  BY <1>3 DEF LeftInOrder
<1>7. f \in [Block -> Nat]
  OBVIOUS
<1>8. SearchInv(w)
  BY <1>1, <1>4, <1>5, <1>6, <1>7 DEF SearchInv
<1> QED
  BY <1>8 DEF w

\* What a step makes of a search: the block on top is left, or the next of its
\* successors is put on top, or is on the stack, or has been left.
Top(w) == w.path[Len(w.path)]
Now(w) == Succs(Top(w))[w.next[Top(w)]]
Onward(w) == [w.next EXCEPT ![Top(w)] = @ + 1]

Leaves(w, v) ==
    /\ w.next[Top(w)] > Len(Succs(Top(w)))
    /\ v.path = SubSeq(w.path, 1, Len(w.path) - 1)
    /\ v.next = w.next /\ v.seen = w.seen /\ v.found = w.found

Enters(w, v) ==
    /\ w.next[Top(w)] <= Len(Succs(Top(w))) /\ Now(w) \notin w.seen
    /\ v.path = Append(w.path, Now(w)) /\ v.seen = w.seen \cup {Now(w)}
    /\ v.next = Onward(w) /\ v.found = w.found

ComesBack(w, v) ==
    /\ w.next[Top(w)] <= Len(Succs(Top(w))) /\ Now(w) \in On(w)
    /\ v.path = w.path /\ v.seen = w.seen
    /\ v.next = Onward(w) /\ v.found = w.found \cup {<<Top(w), Now(w)>>}

Passes(w, v) ==
    /\ w.next[Top(w)] <= Len(Succs(Top(w))) /\ Now(w) \in Left(w)
    /\ v.path = w.path /\ v.seen = w.seen
    /\ v.next = Onward(w) /\ v.found = w.found

LEMMA SearchStepCases ==
    ASSUME GraphOK, NEW w, SearchInv(w), w.path # <<>>
    PROVE  /\ Top(w) \in Block /\ Len(w.path) \in Nat \ {0}
           /\ SearchStep(w) \in Searches
           /\ \/ Leaves(w, SearchStep(w))
              \/ Enters(w, SearchStep(w))
              \/ ComesBack(w, SearchStep(w))
              \/ Passes(w, SearchStep(w))
<1> DEFINE b == Top(w)
           s == Now(w)
           v == SearchStep(w)
<1>1. w \in Searches /\ w.path \in Seq(Block) /\ w.next \in [Block -> Nat]
      /\ w.seen \in SUBSET Block /\ w.found \in SUBSET (Block \X Block)
  BY DEF SearchInv, Searches
<1>2. Len(w.path) \in Nat \ {0} /\ b \in Block
  BY <1>1 DEF Top
<1>3. w.next[b] \in Nat /\ w.next[b] >= 1 /\ Succs(b) \in Seq(Block)
  BY <1>1, <1>2 DEF SearchInv, EdgesInv, GraphOK
<1>4. Onward(w) \in [Block -> Nat]
  BY <1>1, <1>2, <1>3 DEF Onward
<1>5. CASE w.next[b] > Len(Succs(b))
  <2>1. v = [w EXCEPT !.path = SubSeq(@, 1, Len(@) - 1)]
    BY <1>5 DEF SearchStep, Top
  <2>2. SubSeq(w.path, 1, Len(w.path) - 1) \in Seq(Block)
    BY <1>1, <1>2
  <2> QED
    BY <1>1, <1>2, <1>5, <2>1, <2>2 DEF Leaves, Searches
<1>6. CASE w.next[b] <= Len(Succs(b))
  <2>1. s \in Block
    BY <1>3, <1>6 DEF Now
  <2>2. ~(w.next[b] > Len(Succs(b)))
    BY <1>3, <1>6
  <2>3. \A x : (\E i \in DOMAIN w.path : w.path[i] = x) <=> x \in On(w)
    BY <1>1 DEF On
  <2> DEFINE onward == [w EXCEPT !.next[b] = @ + 1]
  <2>4. /\ onward \in Searches /\ onward.path = w.path /\ onward.next = Onward(w)
        /\ onward.seen = w.seen /\ onward.found = w.found
    BY <1>1, <1>2, <1>4 DEF Searches, Onward
  <2>5. v = IF s \notin w.seen
            THEN [onward EXCEPT !.path = Append(@, s), !.seen = @ \cup {s}]
            ELSE IF s \in On(w) THEN [onward EXCEPT !.found = @ \cup {<<b, s>>}]
            ELSE onward
    BY <2>2, <2>3 DEF SearchStep, Top, Now
  <2> HIDE DEF onward, v, s, b
  <2>6. CASE s \notin w.seen
    <3>1. v = [onward EXCEPT !.path = Append(@, s), !.seen = @ \cup {s}]
      BY <2>5, <2>6
    <3>2. Append(w.path, s) \in Seq(Block) /\ w.seen \cup {s} \in SUBSET Block
      BY <1>1, <2>1
    <3>3. /\ v \in Searches /\ v.path = Append(w.path, s) /\ v.next = Onward(w)
          /\ v.seen = w.seen \cup {s} /\ v.found = w.found
      BY <2>4, <3>1, <3>2 DEF Searches
    <3>4. Enters(w, v)
      BY <1>6, <2>6, <3>3 DEF Enters, s, b
    <3> QED
      BY <1>2, <3>3, <3>4 DEF v, b
  <2>7. CASE s \in On(w)
    <3>1. s \in w.seen
      BY <2>7 DEF SearchInv, StackInv
    <3>2. v = [onward EXCEPT !.found = @ \cup {<<b, s>>}]
      BY <2>5, <2>7, <3>1
    <3>3. w.found \cup {<<b, s>>} \in SUBSET (Block \X Block)
      BY <1>1, <1>2, <2>1
    <3>4. /\ v \in Searches /\ v.path = w.path /\ v.next = Onward(w)
          /\ v.seen = w.seen /\ v.found = w.found \cup {<<b, s>>}
      BY <2>4, <3>2, <3>3 DEF Searches
    <3>5. ComesBack(w, v)
      BY <1>6, <2>7, <3>4 DEF ComesBack, s, b
    <3> QED
      BY <1>2, <3>4, <3>5 DEF v, b
  <2>8. CASE s \in w.seen /\ s \notin On(w)
    <3>1. v = onward
      BY <2>5, <2>8
    <3>2. Passes(w, v)
      BY <1>6, <2>4, <2>8, <3>1 DEF Passes, Left, s, b
    <3> QED
      BY <1>2, <2>4, <3>1, <3>2 DEF v, b
  <2> QED
    BY <2>6, <2>7, <2>8
<1> QED
  BY <1>3, <1>5, <1>6, <1>1, <1>2 DEF GraphOK

\* The top of the stack has been looked at to its end: it is left.
LEMMA LeavesInv ==
    ASSUME GraphOK, NEW w, SearchInv(w), w.path # <<>>, Top(w) \in Block,
           Len(w.path) \in Nat \ {0}, NEW v \in Searches, Leaves(w, v)
    PROVE  /\ SearchInv(v) /\ Top(w) \notin Left(w) /\ v.next = w.next
           /\ Left(v) = Left(w) \cup {Top(w)}
<1> DEFINE b == Top(w)
           n == Len(w.path)
<1>1. /\ w.path \in Seq(Block) /\ w.seen \in SUBSET Block
      /\ w.next \in [Block -> Nat]
  BY DEF SearchInv, Searches
<1>2. /\ Len(v.path) = n - 1 /\ v.path \in Seq(Block)
      /\ \A j \in 1..(n - 1) : v.path[j] = w.path[j]
  BY <1>1 DEF Leaves
<1>3. StackInv(w) /\ EdgesInv(w)
  BY DEF SearchInv
<1>4. /\ \A j \in 1..(n - 1) : w.path[j] # b
      /\ b \in On(w) /\ On(v) = On(w) \ {b}
  <2>1. n \in 1..n /\ w.path[n] = b /\ \A j \in 1..n : j = n \/ j \in 1..(n - 1)
    BY DEF Top
  <2>2. \A j \in 1..(n - 1) : w.path[j] # b
    <3> SUFFICES ASSUME NEW j \in 1..(n - 1), w.path[j] = b PROVE FALSE
      OBVIOUS
    <3>1. j \in 1..n /\ j # n
      OBVIOUS
    <3> QED
      BY <1>3, <2>1, <3>1 DEF StackInv
  <2>3. On(w) = {w.path[j] : j \in 1..(n - 1)} \cup {b}
    BY <2>1 DEF On
  <2>4. On(v) = {w.path[j] : j \in 1..(n - 1)}
    BY <1>2 DEF On
  <2> HIDE DEF b
  <2> QED
    BY <2>2, <2>3, <2>4
<1>5. /\ b \in w.seen /\ b \notin Left(w)
      /\ Left(v) = Left(w) \cup {b}
  BY <1>3, <1>4 DEF Leaves, Left, StackInv
<1>6. StackInv(v)
  <2>1. \A j \in 1..(n - 1) : j \in 1..n /\ (j # 1 => j - 1 \in 1..(n - 1))
    OBVIOUS
  <2>2. \A j \in 1..(n - 1) : \A d \in Block :
          Dominates(d, v.path[j]) => \E i \in 1..j : v.path[i] = d
    <3> SUFFICES ASSUME NEW j \in 1..(n - 1), NEW d \in Block, Dominates(d, w.path[j])
                 PROVE  \E i \in 1..j : v.path[i] = d
      BY <1>2
    <3>1. PICK i \in 1..j : w.path[i] = d
      BY <1>3, <2>1 DEF StackInv
    <3> QED
      BY <1>2, <3>1
  <2>3. \A j \in 1..(n - 1) : j # 1 => v.path[j - 1] \in Preds(v.path[j])
    BY <1>2, <1>3, <2>1 DEF StackInv
  <2>4. On(v) \subseteq v.seen /\ Entry \in v.seen
    BY <1>3, <1>4 DEF StackInv, Leaves
  <2>5. \A i, j \in 1..(n - 1) : v.path[i] = v.path[j] => i = j
    BY <1>2, <1>3, <2>1 DEF StackInv
  <2>6. n - 1 > 0 => v.path[1] = Entry
    BY <1>2, <1>3 DEF StackInv
  <2> QED
    BY <1>2, <2>2, <2>3, <2>4, <2>5, <2>6 DEF StackInv
<1>7. w.next[b] = Len(Succs(b)) + 1 /\ Len(Succs(b)) \in Nat
  <2>1. w.next[b] \in Nat /\ Len(Succs(b)) \in Nat
    BY <1>1 DEF GraphOK
  <2>2. w.next[b] <= Len(Succs(b)) + 1 /\ w.next[b] > Len(Succs(b))
    BY <1>3 DEF EdgesInv, Leaves
  <2> QED
    BY <2>1, <2>2
<1>8. EdgesInv(v)
  <2>1. ASSUME NEW c \in v.seen, NEW i \in DOMAIN Succs(c), i < v.next[c]
        PROVE  \/ <<c, Succs(c)[i]>> \in v.found
               \/ Succs(c)[i] \in Left(v)
               \/ \E j \in 1..(Len(v.path) - 1) : v.path[j] = c /\ v.path[j + 1] = Succs(c)[i]
    <3>1. \/ <<c, Succs(c)[i]>> \in w.found
          \/ Succs(c)[i] \in Left(w)
          \/ \E j \in 1..(n - 1) : w.path[j] = c /\ w.path[j + 1] = Succs(c)[i]
      BY <1>3, <2>1 DEF EdgesInv, Leaves
    <3>2. ASSUME NEW j \in 1..(n - 1), w.path[j] = c, w.path[j + 1] = Succs(c)[i],
                 Succs(c)[i] \notin Left(v)
          PROVE  j \in 1..(Len(v.path) - 1) /\ v.path[j] = c /\ v.path[j + 1] = Succs(c)[i]
      <4>1. j + 1 # n
        BY <1>5, <3>2 DEF Top
      <4>2. j \in 1..(n - 2) /\ j + 1 \in 1..(n - 1) /\ Len(v.path) - 1 = n - 2
        BY <1>2, <4>1
      <4> QED
        BY <1>2, <3>2, <4>2
    <3> QED
      BY <1>5, <3>1, <3>2 DEF Leaves
  <2>2. \A c \in Left(v) : v.next[c] = Len(Succs(c)) + 1
    BY <1>3, <1>5, <1>7 DEF EdgesInv, Leaves
  <2> QED
    BY <1>3, <2>1, <2>2 DEF EdgesInv, Leaves
<1>9. PICK f \in [Block -> Nat] : LeftInOrder(w, f)
  BY DEF SearchInv
<1> DEFINE m == Cardinality(Left(w))
           g == [f EXCEPT ![b] = m + 1]
<1>10. m \in Nat /\ Cardinality(Left(v)) = m + 1
  <2>1. IsFiniteSet(Left(w))
    BY <1>1, BlocksAreFinite, FS_Subset DEF Left
  <2> QED
    BY <1>5, <2>1, FS_AddElement, FS_CardinalityType
<1>11. /\ g \in [Block -> Nat] /\ g[b] = m + 1
       /\ \A c \in Left(w) : g[c] = f[c] /\ f[c] \in Nat /\ f[c] <= m /\ c # b /\ c \in Block
  <2>1. m + 1 \in Nat /\ b \in Block /\ Left(w) \subseteq Block /\ b \notin Left(w)
    BY <1>1, <1>5, <1>10 DEF Left
  <2>2. \A c \in Left(w) : f[c] <= m
    BY <1>9 DEF LeftInOrder
  <2> HIDE DEF m, b
  <2> QED
    BY <1>9, <2>1, <2>2
<1> HIDE DEF g, m
<1>12. LeftInOrder(v, g)
  <2>1. ASSUME NEW c \in Left(v) PROVE g[c] <= Cardinality(Left(v))
    BY <1>5, <1>10, <1>11
  <2>2. ASSUME NEW c \in Left(v), NEW i \in DOMAIN Succs(c)
        PROVE  \/ <<c, Succs(c)[i]>> \in v.found
               \/ Succs(c)[i] \in Left(v) /\ g[Succs(c)[i]] < g[c]
    <3>1. CASE c = b
      <4>1. i < w.next[b]
        BY <1>7, <2>2, <3>1 DEF GraphOK
      <4>2. <<b, Succs(b)[i]>> \in w.found \/ Succs(b)[i] \in Left(w)
        BY <1>3, <1>4, <1>5, <2>2, <3>1, <4>1 DEF EdgesInv
      <4> QED
        BY <1>5, <1>10, <1>11, <3>1, <4>2 DEF Leaves
    <3>2. CASE c \in Left(w)
      BY <1>5, <1>9, <1>11, <2>2, <3>2 DEF LeftInOrder, Leaves
    <3> QED
      BY <1>5, <2>2, <3>1, <3>2
  <2>3. ASSUME NEW c \in Left(v), NEW d \in Block, Dominates(d, c), d # c
        PROVE  d \in On(v) \/ (d \in Left(v) /\ g[d] > g[c])
    <3>1. CASE c = b
      <4>1. PICK i \in 1..n : w.path[i] = d
        BY <1>3, <2>3, <3>1 DEF StackInv, Top
      <4> QED
        BY <1>4, <2>3, <3>1, <4>1 DEF On
    <3>2. CASE c \in Left(w)
      <4>1. d \in On(w) \/ (d \in Left(w) /\ f[d] > f[c])
        BY <1>9, <2>3, <3>2 DEF LeftInOrder
      <4> QED
        BY <1>4, <1>5, <1>10, <1>11, <3>2, <4>1
    <3> QED
      BY <1>5, <2>3, <3>1, <3>2
  <2>4. ASSUME NEW c \in Left(v), c # Entry
        PROVE  \E p \in Preds(c) : p \in On(v) \/ (p \in Left(v) /\ g[p] > g[c])
    <3>1. CASE c = b
      <4>1. n # 1 /\ n \in 1..n /\ n - 1 \in 1..(n - 1) /\ n - 1 \in 1..n
        BY <1>3, <2>4, <3>1 DEF StackInv, Top
      <4>2. w.path[n - 1] \in Preds(b)
        BY <1>3, <4>1 DEF StackInv, Top
      <4>3. w.path[n - 1] \in On(v)
        BY <1>4, <4>1 DEF On
      <4> QED
        BY <3>1, <4>2, <4>3
    <3>2. CASE c \in Left(w)
      <4>1. PICK p \in Preds(c) : p \in On(w) \/ (p \in Left(w) /\ f[p] > f[c])
        BY <1>9, <2>4, <3>2 DEF LeftInOrder
      <4>2. p \in On(v) \/ (p \in Left(v) /\ g[p] > g[c])
        BY <1>4, <1>5, <1>10, <1>11, <3>2, <4>1
      <4> QED
        BY <4>2
    <3> QED
      BY <1>5, <2>4, <3>1, <3>2
  <2> QED
    BY <2>1, <2>2, <2>3, <2>4 DEF LeftInOrder
<1> QED
  BY <1>5, <1>6, <1>8, <1>11, <1>12 DEF SearchInv, Leaves

\* What the three ways of going on have in common: nothing is left by them, and
\* the number of the next successor of the top goes up.
LEMMA OnwardFacts ==
    ASSUME GraphOK, NEW w, SearchInv(w), w.path # <<>>, Top(w) \in Block,
           w.next[Top(w)] <= Len(Succs(Top(w)))
    PROVE  /\ w.next[Top(w)] \in DOMAIN Succs(Top(w)) /\ Now(w) \in Block
           /\ Onward(w) \in [Block -> Nat]
           /\ Top(w) \in w.seen /\ Top(w) \notin Left(w)
           /\ Onward(w)[Top(w)] = w.next[Top(w)] + 1
           /\ Onward(w)[Top(w)] <= Len(Succs(Top(w))) + 1
           /\ \A c \in Block : c # Top(w) => Onward(w)[c] = w.next[c]
<1>1. /\ w.path \in Seq(Block) /\ w.seen \in SUBSET Block
      /\ w.next \in [Block -> Nat]
  BY DEF SearchInv, Searches
<1>2. /\ w.next[Top(w)] >= 1 /\ w.next[Top(w)] \in Nat
      /\ Succs(Top(w)) \in Seq(Block) /\ Len(Succs(Top(w))) \in Nat
  BY <1>1 DEF SearchInv, EdgesInv, GraphOK
<1>3. w.next[Top(w)] \in DOMAIN Succs(Top(w)) /\ Now(w) \in Block
  BY <1>2 DEF Now
<1>4. Top(w) \in On(w)
  BY <1>1 DEF On, Top
<1>5. Top(w) \in w.seen /\ Top(w) \notin Left(w)
  BY <1>4 DEF Left, SearchInv, StackInv
<1>6. w.next[Top(w)] + 1 \in Nat
  BY <1>2
<1> QED
  BY <1>1, <1>2, <1>3, <1>5, <1>6 DEF Onward

\* The edges that have been looked at before stay as they were where more is
\* found or seen and nothing is taken off the stack.
LEMMA EdgesKept ==
    ASSUME NEW w, SearchInv(w), NEW v \in Searches, Left(v) = Left(w),
           Top(w) \in Block, Top(w) \notin Left(w),
           v.next = Onward(w), Onward(w)[Top(w)] = w.next[Top(w)] + 1,
           Onward(w)[Top(w)] <= Len(Succs(Top(w))) + 1,
           \A c \in Block : c # Top(w) => Onward(w)[c] = w.next[c],
           w.found \subseteq v.found, \A e \in v.found : e[2] \in v.seen,
           Len(w.path) <= Len(v.path), \A j \in 1..Len(w.path) : v.path[j] = w.path[j],
           Top(w) \in w.seen, w.seen \subseteq v.seen,
           \/ <<Top(w), Now(w)>> \in v.found
           \/ Now(w) \in Left(v)
           \/ \E j \in 1..(Len(v.path) - 1) : v.path[j] = Top(w) /\ v.path[j + 1] = Now(w),
           GraphOK
    PROVE  EdgesInv(v)
<1>1. /\ w.path \in Seq(Block) /\ w.seen \in SUBSET Block /\ v.path \in Seq(Block)
      /\ w.next \in [Block -> Nat] /\ v.seen \in SUBSET Block
  BY DEF SearchInv, Searches
<1>2. EdgesInv(w)
  BY DEF SearchInv
<1>3. \A b \in Block : v.next[b] >= 1 /\ v.next[b] <= Len(Succs(b)) + 1
  <2> SUFFICES ASSUME NEW b \in Block
               PROVE  v.next[b] >= 1 /\ v.next[b] <= Len(Succs(b)) + 1
    OBVIOUS
  <2>1. w.next[b] >= 1 /\ w.next[b] <= Len(Succs(b)) + 1 /\ w.next[b] \in Nat
    BY <1>1, <1>2 DEF EdgesInv
  <2> QED
    BY <2>1
<1>4. \A b \in Left(v) : v.next[b] = Len(Succs(b)) + 1
  <2> SUFFICES ASSUME NEW b \in Left(w) PROVE v.next[b] = Len(Succs(b)) + 1
    OBVIOUS
  <2>1. b \in Block /\ b # Top(w)
    BY <1>1 DEF Left
  <2> QED
    BY <1>2, <2>1 DEF EdgesInv
<1>5. ASSUME NEW b \in v.seen, NEW i \in DOMAIN Succs(b), i < v.next[b]
      PROVE  \/ <<b, Succs(b)[i]>> \in v.found
             \/ Succs(b)[i] \in Left(v)
             \/ \E j \in 1..(Len(v.path) - 1) : v.path[j] = b /\ v.path[j + 1] = Succs(b)[i]
  <2>1. b \in Block /\ i \in Nat /\ i >= 1 /\ w.next[b] \in Nat
    <3>1. b \in Block
      BY <1>1
    <3>2. DOMAIN Succs(b) = 1..Len(Succs(b))
      BY <3>1 DEF GraphOK
    <3> QED
      BY <1>1, <3>1, <3>2
  <2>2. CASE b = Top(w) /\ i = w.next[b]
    BY <2>2 DEF Now
  <2>3. CASE i < w.next[b]
    <3>1. b \in w.seen
      BY <1>2, <2>1, <2>3 DEF EdgesInv
    <3>2. \/ <<b, Succs(b)[i]>> \in w.found
          \/ Succs(b)[i] \in Left(w)
          \/ \E j \in 1..(Len(w.path) - 1) : w.path[j] = b /\ w.path[j + 1] = Succs(b)[i]
      BY <1>2, <2>3, <3>1 DEF EdgesInv
    <3>3. \A j \in 1..(Len(w.path) - 1) :
             /\ j \in 1..Len(w.path) /\ j + 1 \in 1..Len(w.path)
             /\ j \in 1..(Len(v.path) - 1)
      <4>1. Len(w.path) \in Nat /\ Len(v.path) \in Nat
        BY <1>1
      <4> QED
        BY <4>1
    <3> QED
      BY <3>2, <3>3
  <2> QED
    BY <1>5, <2>1, <2>2, <2>3
<1>6. \A b \in Block : b \notin v.seen => v.next[b] = 1
  BY <1>2 DEF EdgesInv
<1> QED
  BY <1>3, <1>4, <1>5, <1>6 DEF EdgesInv

LEMMA OrderKept ==
    ASSUME NEW w, NEW v, Left(v) = Left(w), On(w) \subseteq On(v), w.found \subseteq v.found,
           NEW f, LeftInOrder(w, f)
    PROVE  LeftInOrder(v, f)
<1>1. \A b \in Left(v) : f[b] <= Cardinality(Left(v))
  BY DEF LeftInOrder
<1>2. \A b \in Left(v) : \A i \in DOMAIN Succs(b) :
         \/ <<b, Succs(b)[i]>> \in v.found
         \/ Succs(b)[i] \in Left(v) /\ f[Succs(b)[i]] < f[b]
  BY DEF LeftInOrder
<1>3. \A b \in Left(v) : \A d \in Block : Dominates(d, b) /\ d # b =>
         d \in On(v) \/ (d \in Left(v) /\ f[d] > f[b])
  BY DEF LeftInOrder
<1>4. \A b \in Left(v) : b # Entry =>
         \E p \in Preds(b) : p \in On(v) \/ (p \in Left(v) /\ f[p] > f[b])
  BY DEF LeftInOrder
<1> QED
  BY <1>1, <1>2, <1>3, <1>4 DEF LeftInOrder

\* A block that has not been seen is put on the stack.
LEMMA EntersInv ==
    ASSUME GraphOK, NEW w, SearchInv(w), w.path # <<>>, Top(w) \in Block,
           Len(w.path) \in Nat \ {0}, NEW v \in Searches, Enters(w, v)
    PROVE  SearchInv(v) /\ Left(v) = Left(w) /\ v.next = Onward(w)
<1> DEFINE b == Top(w)
           s == Now(w)
           n == Len(w.path)
<1>1. /\ w.path \in Seq(Block) /\ w.seen \in SUBSET Block
      /\ w.next \in [Block -> Nat] /\ v.path \in Seq(Block)
  BY DEF SearchInv, Searches
<1>2. w.next[b] \in DOMAIN Succs(b) /\ s \in Block
  BY OnwardFacts DEF Enters
<1>3. /\ Len(v.path) = n + 1 /\ v.path[n + 1] = s
      /\ \A j \in 1..n : v.path[j] = w.path[j]
  BY <1>1, <1>2 DEF Enters
<1>4. StackInv(w) /\ EdgesInv(w)
  BY DEF SearchInv
<1>5. /\ s \notin w.seen /\ v.seen = w.seen \cup {s} /\ s \notin On(w)
      /\ \A j \in 1..n : w.path[j] # s
  BY <1>4 DEF Enters, StackInv, On
<1>6. On(v) = On(w) \cup {s}
  <2>1. 1..(n + 1) = 1..n \cup {n + 1}
    OBVIOUS
  <2> QED
    BY <1>3, <2>1 DEF On
<1>7. Left(v) = Left(w)
  BY <1>5, <1>6 DEF Left
<1>8. n \in 1..n /\ w.path[n] = b /\ \A j \in 1..(n + 1) : j \in 1..n \/ j = n + 1
  BY DEF Top
<1>9. StackInv(v)
  <2>1. \A i, j \in 1..(n + 1) : v.path[i] = v.path[j] => i = j
    BY <1>3, <1>4, <1>5, <1>8 DEF StackInv
  <2>2. ASSUME NEW j \in 1..(n + 1), NEW d \in Block, Dominates(d, v.path[j])
        PROVE  \E i \in 1..j : v.path[i] = d
    <3>1. CASE j \in 1..n
      <4>1. PICK i \in 1..j : w.path[i] = d
        BY <1>3, <1>4, <2>2, <3>1 DEF StackInv
      <4>2. i \in 1..n
        BY <3>1
      <4> QED
        BY <1>3, <4>1, <4>2
    <3>2. CASE j = n + 1 /\ d = s
      BY <1>3, <3>2
    <3>3. CASE j = n + 1 /\ d # s
      <4>1. Dominates(d, b)
        BY <1>2, <1>3, <2>2, <3>3, DominatorsAbove DEF Now
      <4>2. PICK i \in 1..n : w.path[i] = d
        BY <1>4, <1>8, <4>1 DEF StackInv
      <4> QED
        BY <1>3, <3>3, <4>2
    <3> QED
      BY <1>8, <3>1, <3>2, <3>3
  <2>3. ASSUME NEW j \in 1..(n + 1), j # 1
        PROVE  v.path[j - 1] \in Preds(v.path[j])
    <3>1. CASE j \in 1..n
      <4>1. j - 1 \in 1..n
        BY <2>3, <3>1
      <4> QED
        BY <1>3, <1>4, <2>3, <3>1, <4>1 DEF StackInv
    <3>2. CASE j = n + 1
      <4>1. v.path[j - 1] = b /\ v.path[j] = s
        BY <1>3, <1>8, <3>2
      <4>2. b \in Preds(s)
        BY <1>2 DEF Preds, Now
      <4> QED
        BY <4>1, <4>2
    <3> QED
      BY <1>8, <3>1, <3>2
  <2>4. On(v) \subseteq v.seen /\ Entry \in v.seen
    BY <1>4, <1>5, <1>6 DEF StackInv
  <2>5. v.path[1] = Entry
    BY <1>3, <1>4, <1>8 DEF StackInv
  <2> QED
    BY <1>3, <2>1, <2>2, <2>3, <2>4, <2>5 DEF StackInv
<1>10. EdgesInv(v)
  <2>1. \A e \in v.found : e[2] \in v.seen
    BY <1>4, <1>5 DEF EdgesInv, Enters
  <2>2. n \in 1..(Len(v.path) - 1) /\ v.path[n] = b /\ v.path[n + 1] = s
    BY <1>3, <1>8
  <2>3. w.next[b] <= Len(Succs(b)) /\ v.next = Onward(w) /\ v.found = w.found
    BY DEF Enters
  <2>4. Len(w.path) <= Len(v.path)
    BY <1>3
  <2> HIDE DEF n, b, s
  <2> QED
    BY <1>3, <1>5, <1>7, <2>1, <2>2, <2>3, <2>4, OnwardFacts, EdgesKept DEF n, b, s
<1>11. \A f : LeftInOrder(w, f) => LeftInOrder(v, f)
  BY <1>6, <1>7, OrderKept DEF Enters
<1> QED
  BY <1>7, <1>9, <1>10, <1>11 DEF SearchInv, Enters

\* The successor is on the stack, or has been left.
LEMMA StaysInv ==
    ASSUME GraphOK, NEW w, SearchInv(w), w.path # <<>>, Top(w) \in Block,
           Len(w.path) \in Nat \ {0}, NEW v \in Searches, ComesBack(w, v) \/ Passes(w, v)
    PROVE  SearchInv(v) /\ Left(v) = Left(w) /\ v.next = Onward(w)
<1>1. /\ v.path = w.path /\ v.seen = w.seen /\ v.next = Onward(w)
      /\ w.next[Top(w)] <= Len(Succs(Top(w)))
      /\ w.found \subseteq v.found
      /\ \A e \in v.found : e \in w.found \/ e[2] = Now(w)
      /\ <<Top(w), Now(w)>> \in v.found \/ Now(w) \in Left(w)
      /\ Now(w) \in On(w) \cup Left(w)
  BY DEF ComesBack, Passes
<1>2. On(v) = On(w) /\ Left(v) = Left(w)
  BY <1>1 DEF On, Left
<1>3. StackInv(w) /\ EdgesInv(w)
  BY DEF SearchInv
<1>4. StackInv(v)
  BY <1>1, <1>2, <1>3 DEF StackInv
<1>5. \A e \in v.found : e[2] \in v.seen
  BY <1>1, <1>3 DEF EdgesInv, StackInv, Left
<1>6. EdgesInv(v)
  <2>1. Len(w.path) <= Len(v.path)
    BY <1>1
  <2> QED
    BY <1>1, <1>2, <1>5, <2>1, OnwardFacts, EdgesKept
<1>7. \A f : LeftInOrder(w, f) => LeftInOrder(v, f)
  BY <1>1, <1>2, OrderKept
<1> QED
  BY <1>1, <1>2, <1>4, <1>6, <1>7 DEF SearchInv

LEMMA SearchStepInv ==
    ASSUME GraphOK, NEW w, SearchInv(w)
    PROVE  SearchInv(SearchStep(w))
<1>1. CASE w.path = <<>>
  BY <1>1 DEF SearchStep
<1>2. CASE w.path # <<>>
  BY <1>2, SearchStepCases, LeavesInv, EntersInv, StaysInv
<1> QED
  BY <1>1, <1>2

\* How far the search is: the blocks that have been left, the edges looked at.
Edges == UNION {{b} \X DOMAIN Succs(b) : b \in Block}
Looked(w) == {e \in Edges : e[2] < w.next[e[1]]}
Progress(w) == Cardinality(Left(w)) + Cardinality(Looked(w))

LEMMA EdgesAreFinite ==
    ASSUME GraphOK
    PROVE  IsFiniteSet(Edges)
<1> DEFINE D(b) == {b} \X DOMAIN Succs(b)
<1>1. ASSUME NEW b \in Block PROVE IsFiniteSet(D(b))
  <2>1. IsFiniteSet(DOMAIN Succs(b))
    BY FS_Interval DEF GraphOK
  <2>2. IsFiniteSet({b})
    BY FS_Singleton
  <2> QED
    BY <2>1, <2>2, FS_Product
<1> DEFINE S == {D(b) : b \in Block}
<1>2. IsFiniteSet(S)
  <2> DEFINE f == [b \in Block |-> D(b)]
  <2>1. f \in Surjection(Block, S)
    BY DEF Surjection
  <2> QED
    BY <2>1, BlocksAreFinite, FS_Surjection
<1>3. \A X \in S : IsFiniteSet(X)
  BY <1>1
<1> HIDE DEF S
<1>4. IsFiniteSet(UNION S)
  BY <1>2, <1>3, FS_UNION
<1> QED
  BY <1>4 DEF S, Edges

\* A step gets further by one as long as there is something on the stack.
LEMMA SearchGetsOn ==
    ASSUME GraphOK, NEW w, SearchInv(w), w.path # <<>>
    PROVE  Progress(SearchStep(w)) = Progress(w) + 1
<1> DEFINE v == SearchStep(w)
           b == Top(w)
           e == <<b, w.next[b]>>
<1>1. /\ w.seen \in SUBSET Block /\ w.next \in [Block -> Nat]
      /\ b \in Block /\ Len(w.path) \in Nat \ {0} /\ v \in Searches
  BY SearchStepCases DEF SearchInv, Searches
<1>2. /\ IsFiniteSet(Left(w)) /\ Cardinality(Left(w)) \in Nat
      /\ IsFiniteSet(Looked(w)) /\ Cardinality(Looked(w)) \in Nat
  <2>1. Left(w) \in SUBSET Block /\ Looked(w) \in SUBSET Edges
    BY <1>1 DEF Left, Looked
  <2> QED
    BY <2>1, BlocksAreFinite, EdgesAreFinite, FS_Subset, FS_CardinalityType
<1>3. CASE Leaves(w, v)
  <2>1. Left(v) = Left(w) \cup {b} /\ b \notin Left(w) /\ v.next = w.next
    BY <1>1, <1>3, LeavesInv
  <2>2. Cardinality(Left(v)) = Cardinality(Left(w)) + 1
    BY <1>2, <2>1, FS_AddElement
  <2>3. Looked(v) = Looked(w)
    BY <2>1 DEF Looked
  <2> HIDE DEF v
  <2> QED
    BY <1>2, <2>2, <2>3 DEF Progress, v
<1>4. CASE Enters(w, v) \/ ComesBack(w, v) \/ Passes(w, v)
  <2>1. Left(v) = Left(w) /\ v.next = Onward(w)
    BY <1>1, <1>4, EntersInv, StaysInv
  <2>2. w.next[b] <= Len(Succs(b))
    BY <1>4 DEF Enters, ComesBack, Passes
  <2>3. /\ w.next[b] \in DOMAIN Succs(b)
        /\ Onward(w)[b] = w.next[b] + 1
        /\ \A c \in Block : c # b => Onward(w)[c] = w.next[c]
    BY <1>1, <2>2, OnwardFacts
  <2>4. e \in Edges /\ e \notin Looked(w)
    BY <1>1, <2>3 DEF Edges, Looked
  <2>5. Looked(v) = Looked(w) \cup {e}
    <3>1. ASSUME NEW c \in Block, NEW i \in DOMAIN Succs(c)
          PROVE  i < v.next[c] <=> (i < w.next[c] \/ <<c, i>> = e)
      <4>1. i \in Nat /\ w.next[c] \in Nat
        BY <1>1 DEF GraphOK
      <4> QED
        BY <2>1, <2>3, <4>1
    <3> HIDE DEF v, e
    <3>2. \A x \in Edges : \E c \in Block : \E i \in DOMAIN Succs(c) :
             x = <<c, i>> /\ x[1] = c /\ x[2] = i
      BY DEF Edges
    <3>3. ASSUME NEW x \in Edges PROVE x[2] < v.next[x[1]] <=> (x[2] < w.next[x[1]] \/ x = e)
      BY <3>1, <3>2
    <3> QED
      BY <2>4, <3>3 DEF Looked
  <2>6. Cardinality(Looked(v)) = Cardinality(Looked(w)) + 1
    BY <1>2, <2>4, <2>5, FS_AddElement
  <2> HIDE DEF v
  <2> QED
    BY <1>2, <2>1, <2>6 DEF Progress, v
<1> QED
  BY <1>3, <1>4, SearchStepCases

\* The search as a function of the number of steps.
IsSearch(f) ==
    f = [n \in 0..SearchLength |-> IF n = 0 THEN BeginSearch ELSE SearchStep(f[n - 1])]

LEMMA SearchLengthIsNat ==
    ASSUME GraphOK
    PROVE  /\ SearchLength \in Nat /\ SearchLength = NumBlocks + Cardinality(Edges)
           /\ Cardinality(Edges) \in Nat
  BY EdgesAreFinite, FS_CardinalityType, BlocksAreFinite DEF SearchLength, Edges

LEMMA SearchExists ==
    ASSUME GraphOK
    PROVE  \E f : IsSearch(f)
<1> DEFINE K == SearchLength
           Eq(f, m) == \A n \in 0..K : n <= m =>
                          f[n] = IF n = 0 THEN BeginSearch ELSE SearchStep(f[n - 1])
           T == {m \in Nat : \E f : f = [n \in 0..K |-> f[n]] /\ Eq(f, m)}
<1>3. K \in Nat
  BY SearchLengthIsNat
<1> HIDE DEF K
<1>1. 0 \in T
  <2> DEFINE f == [n \in 0..K |-> BeginSearch]
  <2>1. f = [n \in 0..K |-> f[n]] /\ Eq(f, 0)
    OBVIOUS
  <2> QED
    BY <2>1
<1>2. ASSUME NEW m \in Nat, m \in T PROVE m + 1 \in T
  <2>1. PICK f : f = [n \in 0..K |-> f[n]] /\ Eq(f, m)
    BY <1>2
  <2> DEFINE g == [n \in 0..K |-> IF n = m + 1 THEN SearchStep(f[m]) ELSE f[n]]
  <2>2. Eq(g, m + 1)
    <3> SUFFICES ASSUME NEW n \in 0..K, n <= m + 1
                 PROVE  g[n] = IF n = 0 THEN BeginSearch ELSE SearchStep(g[n - 1])
      OBVIOUS
    <3>1. CASE n = m + 1
      <4>1. n # 0 /\ n - 1 = m /\ m \in 0..K /\ m # m + 1
        BY <1>3, <3>1
      <4>2. g[m] = f[m] /\ g[n] = SearchStep(f[m])
        BY <3>1, <4>1
      <4> QED
        BY <4>1, <4>2
    <3>2. CASE n # m + 1 /\ n # 0
      <4>1. n - 1 \in 0..K /\ n - 1 # m + 1 /\ n <= m
        BY <1>3, <3>2
      <4>2. g[n] = f[n] /\ g[n - 1] = f[n - 1]
        BY <3>2, <4>1
      <4>3. f[n] = SearchStep(f[n - 1])
        BY <2>1, <3>2, <4>1
      <4> QED
        BY <3>2, <4>2, <4>3
    <3>3. CASE n # m + 1 /\ n = 0
      <4>1. f[0] = BeginSearch /\ g[0] = f[0]
        <5>1. 0 \in 0..K /\ 0 <= m /\ 0 # m + 1
          BY <1>3
        <5> QED
          BY <2>1, <5>1
      <4> QED
        BY <3>3, <4>1
    <3> QED
      BY <3>1, <3>2, <3>3
  <2>3. g = [n \in 0..K |-> g[n]]
    OBVIOUS
  <2>4. m + 1 \in Nat
    OBVIOUS
  <2> HIDE DEF g, Eq
  <2> QED
    BY <2>2, <2>3, <2>4
<1>4. K \in T
  <2> HIDE DEF T
  <2> QED
    BY <1>1, <1>2, <1>3, InductionOverSets
<1>5. PICK f : f = [n \in 0..K |-> f[n]] /\ Eq(f, K)
  BY <1>4
<1>6. \A n \in 0..K : f[n] = IF n = 0 THEN BeginSearch ELSE SearchStep(f[n - 1])
  <2> SUFFICES ASSUME NEW n \in 0..K
               PROVE  f[n] = IF n = 0 THEN BeginSearch ELSE SearchStep(f[n - 1])
    OBVIOUS
  <2>1. n <= K
    BY <1>3
  <2> QED
    BY <1>5, <2>1
<1> QED
  BY <1>5, <1>6 DEF IsSearch, K

\* The order of the blocks: along all edges but back edges, what dominates a
\* block before it, and behind a predecessor of each but the entry.
Orders(rank, back) ==
    /\ rank \in [Block -> Nat] /\ \A b \in Block : rank[b] <= NumBlocks
    /\ \A b \in Block : \A i \in DOMAIN Succs(b) :
          <<b, Succs(b)[i]>> \in back \/ rank[b] < rank[Succs(b)[i]]
    /\ \A b, d \in Block : Dominates(d, b) /\ d # b => rank[d] < rank[b]
    /\ \A b \in Block : b # Entry => \E p \in Preds(b) : rank[p] < rank[b]

\* FindFunctionBackedges: the edges to a block that is on the stack of the search
\* cut every loop of the function, whatever its graph.
THEOREM BackEdgesCutLoops ==
    ASSUME GraphOK, AllReached
    PROVE  \E rank : Orders(rank, FindFunctionBackedges)
<1> DEFINE K == SearchLength
<1>1. PICK f : IsSearch(f) /\ FindFunctionBackedges = f[K].found
  BY SearchExists DEF IsSearch, FindFunctionBackedges
<1>2. K \in Nat /\ K = NumBlocks + Cardinality(Edges) /\ Cardinality(Edges) \in Nat
  BY SearchLengthIsNat
<1> HIDE DEF K
<1> DEFINE T == {n \in Nat : n <= K =>
                    SearchInv(f[n]) /\ (f[n].path = <<>> \/ Progress(f[n]) >= n)}
           Sizes(w) == /\ IsFiniteSet(Left(w)) /\ Cardinality(Left(w)) \in Nat
                       /\ Cardinality(Left(w)) <= NumBlocks
                       /\ Cardinality(Left(w)) = NumBlocks => Left(w) = Block
                       /\ Cardinality(Looked(w)) \in Nat
                       /\ Cardinality(Looked(w)) <= Cardinality(Edges)
<1>3. ASSUME NEW w, SearchInv(w) PROVE Sizes(w)
  <2>1. Left(w) \in SUBSET Block /\ Looked(w) \in SUBSET Edges
    BY <1>3 DEF Left, Looked, SearchInv, Searches
  <2>2. /\ IsFiniteSet(Left(w)) /\ Cardinality(Left(w)) <= NumBlocks
        /\ Cardinality(Left(w)) = NumBlocks => Left(w) = Block
    BY <2>1, BlocksAreFinite, FS_Subset
  <2>3. IsFiniteSet(Looked(w)) /\ Cardinality(Looked(w)) <= Cardinality(Edges)
    BY <2>1, EdgesAreFinite, FS_Subset
  <2> QED
    BY <2>2, <2>3, FS_CardinalityType
<1>4. f[0] = BeginSearch /\ \A n \in 1..K : f[n] = SearchStep(f[n - 1])
  BY <1>1, <1>2 DEF IsSearch, K
<1>5. 0 \in T
  <2>1. SearchInv(f[0])
    BY <1>4, BeginSearchInv
  <2>2. Sizes(f[0])
    BY <1>3, <2>1
  <2> QED
    BY <2>1, <2>2 DEF Progress
<1>6. ASSUME NEW n \in Nat, n \in T PROVE n + 1 \in T
  <2> SUFFICES ASSUME n + 1 <= K
               PROVE  SearchInv(f[n + 1]) /\ (f[n + 1].path = <<>> \/ Progress(f[n + 1]) >= n + 1)
    OBVIOUS
  <2>1. SearchInv(f[n]) /\ (f[n].path = <<>> \/ Progress(f[n]) >= n)
    BY <1>2, <1>6
  <2>2. f[n + 1] = SearchStep(f[n])
    <3>1. n + 1 \in 1..K /\ (n + 1) - 1 = n
      BY <1>2
    <3> QED
      BY <1>4, <3>1
  <2>3. SearchInv(f[n + 1])
    BY <2>1, <2>2, SearchStepInv
  <2>4. CASE f[n].path = <<>>
    BY <2>2, <2>3, <2>4 DEF SearchStep
  <2>5. CASE f[n].path # <<>>
    <3>1. Progress(f[n + 1]) = Progress(f[n]) + 1
      BY <2>1, <2>2, <2>5, SearchGetsOn
    <3>2. Progress(f[n]) \in Nat
      BY <1>3, <2>1 DEF Progress
    <3> QED
      BY <2>1, <2>3, <2>5, <3>1, <3>2
  <2> QED
    BY <2>4, <2>5
<1>7. K \in T
  <2> HIDE DEF T
  <2> QED
    BY <1>2, <1>5, <1>6, InductionOverSets
<1>8. PICK w : w = f[K]
  OBVIOUS
<1>10. SearchInv(w) /\ StackInv(w) /\ EdgesInv(w) /\ Sizes(w)
  BY <1>2, <1>3, <1>7, <1>8 DEF SearchInv
<1>11. w.path = <<>>
  <2> SUFFICES ASSUME w.path # <<>> PROVE FALSE
    OBVIOUS
  <2>1. Progress(w) >= K
    BY <1>2, <1>7, <1>8
  <2>2. Left(w) = Block
    BY <1>2, <1>10, <2>1, BlocksAreFinite DEF Progress
  <2>3. w.path \in Seq(Block) /\ 1 \in 1..Len(w.path)
    BY <1>10 DEF SearchInv, Searches
  <2>4. w.path[1] \in On(w) /\ w.path[1] \in Block
    BY <2>3 DEF On
  <2> QED
    BY <2>2, <2>4 DEF Left
<1>12. On(w) = {} /\ Left(w) = w.seen
  BY <1>11 DEF On, Left
<1>13. PICK g \in [Block -> Nat] : LeftInOrder(w, g)
  BY <1>10 DEF SearchInv
<1>14. Left(w) = Block
  <2>1. w.seen \in SUBSET Block
    BY <1>10 DEF SearchInv, Searches
  <2>2. ClosedBut(0, w.seen)
    <3>1. ASSUME NEW b \in w.seen, NEW i \in DOMAIN Succs(b)
          PROVE  Succs(b)[i] \in w.seen
      <4>1. \/ <<b, Succs(b)[i]>> \in w.found
            \/ Succs(b)[i] \in Left(w)
        BY <1>12, <1>13, <3>1 DEF LeftInOrder
      <4>2. \A s : <<b, s>> \in w.found => s \in w.seen
        BY <1>10 DEF EdgesInv
      <4> QED
        BY <1>12, <4>1, <4>2
    <3> QED
      BY <1>10, <3>1 DEF ClosedBut, StackInv
  <2>3. Block \subseteq w.seen
    BY <2>1, <2>2, AvoidingIsLeast DEF AllReached, Dominates
  <2> QED
    BY <1>12, <2>1, <2>3
<1> DEFINE rank == [b \in Block |-> NumBlocks - g[b]]
<1>15. \A b \in Block : g[b] \in Nat /\ g[b] <= NumBlocks
  BY <1>10, <1>13, <1>14, BlocksAreFinite DEF LeftInOrder
<1>16. rank \in [Block -> Nat] /\ \A b \in Block : rank[b] <= NumBlocks
  BY <1>15, BlocksAreFinite
<1>17. \A b, d \in Block : g[d] > g[b] => rank[d] < rank[b]
  BY <1>15, BlocksAreFinite
<1> HIDE DEF rank
<1>18. ASSUME NEW b \in Block, NEW i \in DOMAIN Succs(b), <<b, Succs(b)[i]>> \notin w.found
       PROVE  rank[b] < rank[Succs(b)[i]]
  <2>1. g[Succs(b)[i]] < g[b] /\ Succs(b)[i] \in Block
    BY <1>13, <1>14, <1>18 DEF LeftInOrder
  <2> QED
    BY <1>15, <1>17, <2>1
<1>19. \A b, d \in Block : Dominates(d, b) /\ d # b => rank[d] < rank[b]
  BY <1>12, <1>13, <1>14, <1>17 DEF LeftInOrder
<1>20. \A b \in Block : b # Entry => \E p \in Preds(b) : rank[p] < rank[b]
  BY <1>12, <1>13, <1>14, <1>17 DEF LeftInOrder
<1>21. FindFunctionBackedges = w.found
  BY <1>1, <1>8
<1>22. Orders(rank, FindFunctionBackedges)
  BY <1>16, <1>18, <1>19, <1>20, <1>21 DEF Orders
<1> QED
  BY <1>22

----------------------------------------------------------------------------
(* Path conditions *)

GoodProgram == IsFunction(prog) /\ WellFormed

\* What IsFunction and WellFormed say of a terminator.
LEMMA TuplesAreSequences == \A n \in Nat : [1..n -> Block] \subseteq Seq(Block)
  OBVIOUS

LEMMA TerminatorFacts ==
    ASSUME GoodProgram, NEW p \in Block
    PROVE  LET t == prog[p].term IN
           /\ Succs(p) = t.to /\ Succs(p) \in Seq(Block)
           /\ t.op \in {"ret", "br", "condbr", "indirectbr", "switch"}
           /\ t.op = "ret" => DOMAIN Succs(p) = {}
           /\ t.op = "br" => DOMAIN Succs(p) = {1}
           /\ t.op = "condbr" => DOMAIN Succs(p) = {1, 2} /\ t.v \in Var
           /\ t.op = "switch" =>
                /\ t.v \in Var /\ DOMAIN t.cases = 1..Len(t.cases) /\ Len(t.cases) \in Nat
                /\ DOMAIN Succs(p) = 1..(Len(t.cases) + 1)
                /\ \A i, j \in DOMAIN t.cases : t.cases[i] = t.cases[j] => i = j
           /\ \A i \in DOMAIN Succs(p) : i # 1 => Succs(p)[i] # Succs(p)[1]
<1> DEFINE t == prog[p].term
<1>1. /\ t \in Term
      /\ t.op = "switch" => OneSuccessorPerCase(t)
  BY DEF GoodProgram, IsFunction
<1>2. Succs(p) = t.to
  BY DEF Succs, Graph
<1>3. \A i \in DOMAIN Succs(p) : i # 1 => Succs(p)[i] # Succs(p)[1]
  BY DEF GoodProgram, WellFormed
<1> HIDE DEF t
<1>4. CASE t \in [op: {"ret"}, to: {<<>>}]
  <2>1. t.to = <<>> /\ t.op = "ret"
    BY <1>4
  <2> QED
    BY <1>2, <1>3, <2>1 DEF t
<1>5. CASE t \in [op: {"br"}, to: [1..1 -> Block]]
  <2>1. t.to \in [1..1 -> Block] /\ t.op = "br"
    BY <1>5
  <2>2. t.to \in Seq(Block) /\ DOMAIN t.to = {1}
    <3>1. 1..1 = {1} /\ 1 \in Nat
      OBVIOUS
    <3> QED
      BY <2>1, <3>1, TuplesAreSequences
  <2> QED
    BY <1>2, <1>3, <2>1, <2>2 DEF t
<1>6. CASE t \in [op: {"condbr"}, v: Var, c: Val, to: [1..2 -> Block]]
  <2>1. t.to \in [1..2 -> Block] /\ t.op = "condbr" /\ t.v \in Var
    BY <1>6
  <2>2. t.to \in Seq(Block) /\ DOMAIN t.to = {1, 2}
    <3>1. 1..2 = {1, 2} /\ 2 \in Nat
      OBVIOUS
    <3> QED
      BY <2>1, <3>1, TuplesAreSequences
  <2> QED
    BY <1>2, <1>3, <2>1, <2>2 DEF t
<1>7. CASE t \in [op: {"indirectbr"}, to: Seq(Block)]
  BY <1>2, <1>3, <1>7 DEF t
<1>8. CASE t \in [op: {"switch"}, v: Var, cases: Seq(Val), to: Seq(Block)]
  <2>1. t.op = "switch" /\ t.v \in Var /\ t.cases \in Seq(Val) /\ t.to \in Seq(Block)
    BY <1>8
  <2>2. /\ Len(t.to) = Len(t.cases) + 1
        /\ \A i, j \in DOMAIN t.cases : t.cases[i] = t.cases[j] => i = j
    BY <1>1, <2>1 DEF OneSuccessorPerCase
  <2>3. DOMAIN t.cases = 1..Len(t.cases) /\ DOMAIN t.to = 1..Len(t.to) /\ Len(t.cases) \in Nat
    BY <2>1
  <2> QED
    BY <1>2, <1>3, <2>1, <2>2, <2>3 DEF t
<1> QED
  BY <1>1, <1>4, <1>5, <1>6, <1>7, <1>8 DEF Term

LEMMA GraphFacts ==
    ASSUME GoodProgram
    PROVE  GraphOK /\ AllReached /\ Preds(Entry) = {}
  BY TerminatorFacts DEF GraphOK, AllReached, GoodProgram, WellFormed

\* Each block's rank, and which values are computed up to one.
Rank == CHOOSE rank : Orders(rank, FindFunctionBackedges)
Known(n) == {x \in Var : \E d \in Block : x \in Computed(d) /\ Rank[d] <= n}

LEMMA RankFacts ==
    ASSUME GoodProgram
    PROVE  Orders(Rank, FindFunctionBackedges)
  BY GraphFacts, BackEdgesCutLoops DEF Rank

\* Of two dominators of a block, one dominates the other.
LEMMA DominatorChain ==
    ASSUME GoodProgram, NEW c \in Block, NEW d \in Block, Rank[c] <= Rank[d], NEW p \in Block,
           Dominates(c, p), Dominates(d, p)
    PROVE  Dominates(c, d)
<1> SUFFICES ASSUME d \in Avoiding(c) PROVE FALSE
  BY DEF Dominates
<1>1. GraphOK /\ Orders(Rank, FindFunctionBackedges)
  BY GraphFacts, RankFacts
<1>2. Rank \in [Block -> Nat]
  BY <1>1 DEF Orders
<1>3. c # d
  BY <1>1, DominatesItself DEF Dominates
<1> DEFINE S == {q \in Block : Dominates(d, q)}
           T == Avoiding(c)
           r == [q \in S |-> Rank[q]]
<1>4. ASSUME NEW q \in S, \A s \in S : r[s] < r[q] => s \in T
      PROVE  q \in T
  <2>1. CASE q = d
    BY <2>1
  <2>2. CASE q = Entry
    BY <1>1, <2>2, NothingAboveEntry
  <2>3. CASE q # d /\ q # Entry
    <3>1. PICK s \in Preds(q) : Rank[s] < Rank[q]
      BY <1>1, <2>3 DEF Orders
    <3>2. PICK i \in DOMAIN Succs(s) : s \in Block /\ Succs(s)[i] = q
      BY <3>1 DEF Preds
    <3>3. Dominates(d, s)
      BY <1>1, <2>3, <3>2, DominatorsAbove
    <3>4. s \in T
      BY <1>4, <3>1, <3>2, <3>3
    <3>5. Rank[d] < Rank[q]
      BY <1>1, <2>3 DEF Orders
    <3>6. q # c
      BY <1>2, <3>5
    <3> QED
      BY <1>1, <3>2, <3>4, <3>6, AvoidingGoesOn
  <2> QED
    BY <2>1, <2>2, <2>3
<1>5. S \subseteq T
  <2>1. r \in [S -> Nat]
    BY <1>2
  <2>2. Inductive(S, r, T)
    BY <1>4 DEF Inductive
  <2> HIDE DEF S, T, r
  <2> QED
    BY <2>1, <2>2, RankInduction
<1> QED
  BY <1>5 DEF Dominates

\* Where the condition of a block that a back edge leads to is taken from.
LEMMA CommonDominator ==
    ASSUME GoodProgram, NEW b \in Block, b # Entry
    PROVE  /\ findCommonDominator(b) \in Block
           /\ \A p \in Preds(b) : Dominates(findCommonDominator(b), p)
           /\ Rank[findCommonDominator(b)] < Rank[b]
<1> DEFINE common == {d \in Block : \A p \in Preds(b) : Dominates(d, p)}
           Nearest(d) == d \in common /\ \A c \in common : Dominates(c, d)
<1>1. GraphOK /\ Orders(Rank, FindFunctionBackedges) /\ Rank \in [Block -> Nat]
  BY GraphFacts, RankFacts DEF Orders
<1>2. PICK p \in Preds(b) : Rank[p] < Rank[b]
  BY <1>1 DEF Orders
<1>3. p \in Block
  BY <1>2 DEF Preds
<1>4. Entry \in common
  <2> SUFFICES ASSUME NEW q \in Preds(b) PROVE Dominates(Entry, q)
    BY BlocksAreFinite
  <2>1. ClosedBut(Entry, {})
    BY DEF ClosedBut
  <2> QED
    BY <2>1, AvoidingIsLeast DEF Dominates
<1>5. \E d \in common : \A c \in common : Rank[c] <= Rank[d]
  <2> SUFFICES ASSUME \A d \in common : \E c \in common : Rank[c] > Rank[d] PROVE FALSE
    BY <1>1
  <2> DEFINE T == {n \in Nat : \E d \in common : Rank[d] >= n}
  <2>1. 0 \in T
    BY <1>1, <1>4
  <2>2. ASSUME NEW n \in Nat, n \in T PROVE n + 1 \in T
    <3>1. PICK d \in common : Rank[d] >= n
      BY <2>2
    <3>2. PICK c \in common : Rank[c] > Rank[d]
      OBVIOUS
    <3>3. Rank[c] >= n + 1
      BY <1>1, <3>1, <3>2
    <3> QED
      BY <3>3
  <2>3. Nat \subseteq T
    <3> HIDE DEF T
    <3> QED
      BY <2>1, <2>2, InductionOverSets
  <2>4. NumBlocks + 1 \in T
    BY <2>3, BlocksAreFinite
  <2>5. \A d \in Block : Rank[d] <= NumBlocks
    BY <1>1 DEF Orders
  <2> QED
    BY <1>1, <2>4, <2>5, BlocksAreFinite
<1>6. PICK d \in common : \A c \in common : Rank[c] <= Rank[d]
  BY <1>5
<1>7. Nearest(d)
  <2> SUFFICES ASSUME NEW c \in common PROVE Dominates(c, d)
    OBVIOUS
  <2> QED
    BY <1>2, <1>3, <1>6, DominatorChain
<1>8. Nearest(findCommonDominator(b))
  <2>1. findCommonDominator(b) = CHOOSE x \in common : \A c \in common : Dominates(c, x)
    BY DEF findCommonDominator
  <2> HIDE DEF common
  <2> QED
    BY <1>7, <2>1
<1>9. CASE findCommonDominator(b) = p
  BY <1>2, <1>8, <1>9
<1>10. CASE findCommonDominator(b) # p
  <2>1. Rank[findCommonDominator(b)] < Rank[p]
    BY <1>1, <1>2, <1>3, <1>8, <1>10 DEF Orders
  <2> QED
    BY <1>1, <1>2, <1>3, <1>8, <2>1
<1> QED
  BY <1>8, <1>9, <1>10

\* The equations of get, for the back edges that are found: what is asked of g
\* at a block, given the rest of g.
Falls(b) == DT /\ \E p \in Preds(b) : <<p, b>> \in FindFunctionBackedges
Forward(b) == {p \in Preds(b) : <<p, b>> \notin FindFunctionBackedges}
Along(p, b) == getTermGuard(prog[p].term, b) \cap getPHIGuard(b, p)

Condition(g, b) ==
    IF b = Entry THEN Env
    ELSE IF Falls(b) THEN g[findCommonDominator(b)]
    ELSE UNION {Along(p, b) \cap g[p] : p \in Forward(b)}

IsPathCondition(g) ==
    g \in [Block -> SUBSET Env] /\ \A b \in Block : g[b] = Condition(g, b)

LEMMA ForwardFacts ==
    ASSUME GoodProgram, NEW b \in Block
    PROVE  /\ \A p \in Forward(b) : p \in Block /\ p \in Preds(b) /\ Rank[p] < Rank[b]
           /\ Falls(b) => b # Entry
  BY RankFacts, GraphFacts DEF Forward, Preds, Orders, Falls

LEMMA ConditionType ==
    ASSUME GoodProgram, NEW g \in [Block -> SUBSET Env], NEW b \in Block
    PROVE  Condition(g, b) \in SUBSET Env
<1>1. CASE b = Entry
  BY <1>1 DEF Condition
<1>2. CASE b # Entry /\ Falls(b)
  BY <1>2, CommonDominator DEF Condition
<1>3. CASE b # Entry /\ ~Falls(b)
  BY <1>3, ForwardFacts DEF Condition
<1> QED
  BY <1>1, <1>2, <1>3

\* It is given by what is asked of the blocks before it.
LEMMA ConditionFromEarlier ==
    ASSUME GoodProgram, NEW g, NEW h, NEW b \in Block,
           \A c \in Block : Rank[c] < Rank[b] => g[c] = h[c]
    PROVE  Condition(g, b) = Condition(h, b)
<1>1. CASE b = Entry
  BY <1>1 DEF Condition
<1>2. CASE b # Entry /\ Falls(b)
  BY <1>2, CommonDominator DEF Condition
<1>3. CASE b # Entry /\ ~Falls(b)
  <2>1. \A p \in Forward(b) : g[p] = h[p]
    BY ForwardFacts
  <2>2. Condition(g, b) = UNION {Along(p, b) \cap g[p] : p \in Forward(b)}
    BY <1>3 DEF Condition
  <2>3. Condition(h, b) = UNION {Along(p, b) \cap h[p] : p \in Forward(b)}
    BY <1>3 DEF Condition
  <2> QED
    BY <2>1, <2>2, <2>3
<1> QED
  BY <1>1, <1>2, <1>3

LEMMA PathConditionExists ==
    ASSUME GoodProgram
    PROVE  \E g : IsPathCondition(g)
<1>1. Rank \in [Block -> Nat] /\ \A b \in Block : Rank[b] <= NumBlocks
  BY RankFacts DEF Orders
<1> DEFINE Upto(g, m) == \A b \in Block : Rank[b] < m => g[b] = Condition(g, b)
           T == {m \in Nat : \E g \in [Block -> SUBSET Env] : Upto(g, m)}
<1>2. 0 \in T
  <2> DEFINE g == [b \in Block |-> {}]
  <2>1. g \in [Block -> SUBSET Env] /\ Upto(g, 0)
    BY <1>1
  <2> QED
    BY <2>1
<1>3. ASSUME NEW m \in Nat, m \in T PROVE m + 1 \in T
  <2>1. PICK g \in [Block -> SUBSET Env] : Upto(g, m)
    BY <1>3
  <2> DEFINE h == [b \in Block |-> IF Rank[b] = m THEN Condition(g, b) ELSE g[b]]
  <2>2. h \in [Block -> SUBSET Env]
    BY ConditionType
  <2>3. ASSUME NEW b \in Block, Rank[b] < m + 1 PROVE h[b] = Condition(h, b)
    <3>1. \A c \in Block : Rank[c] < Rank[b] => g[c] = h[c]
      BY <1>1, <2>3
    <3>2. Condition(g, b) = Condition(h, b)
      BY <3>1, ConditionFromEarlier
    <3>3. h[b] = Condition(g, b)
      BY <1>1, <2>1, <2>3
    <3> QED
      BY <3>2, <3>3
  <2> HIDE DEF h
  <2> QED
    BY <2>2, <2>3
<1>4. NumBlocks + 1 \in T
  <2> HIDE DEF T
  <2> QED
    BY <1>2, <1>3, InductionOverSets, BlocksAreFinite
<1>5. PICK g \in [Block -> SUBSET Env] : Upto(g, NumBlocks + 1)
  BY <1>4
<1>6. \A b \in Block : Rank[b] < NumBlocks + 1
  BY <1>1, BlocksAreFinite
<1> QED
  BY <1>5, <1>6 DEF IsPathCondition

\* There is one path condition, whatever order the blocks are asked for in.
LEMMA PathConditionIsUnique ==
    ASSUME GoodProgram, NEW g, NEW h, IsPathCondition(g), IsPathCondition(h)
    PROVE  g = h
<1> DEFINE T == {b \in Block : g[b] = h[b]}
<1>1. Inductive(Block, Rank, T)
  <2> SUFFICES ASSUME NEW b \in Block, \A c \in Block : Rank[c] < Rank[b] => c \in T
               PROVE  g[b] = h[b]
    BY DEF Inductive
  <2>1. Condition(g, b) = Condition(h, b)
    BY ConditionFromEarlier
  <2> QED
    BY <2>1 DEF IsPathCondition
<1>2. Block \subseteq T
  <2>1. Rank \in [Block -> Nat]
    BY RankFacts DEF Orders
  <2> HIDE DEF T
  <2> QED
    BY <1>1, <2>1, RankInduction
<1>3. \A b \in Block : g[b] = h[b]
  BY <1>2
<1> QED
  BY <1>3 DEF IsPathCondition

PathCondition == CHOOSE g : IsPathCondition(g)

\* What PathGen computes while it has the back edges.
LEMMA getIsPathCondition ==
    ASSUME GoodProgram, Backedges = FindFunctionBackedges
    PROVE  get = PathCondition /\ IsPathCondition(PathCondition)
<1> DEFINE Eq(g) == g = [b \in Block |->
             IF b = Entry THEN Env
             ELSE IF FallsBack(b) THEN g[findCommonDominator(b)]
             ELSE UNION {getTermGuard(prog[p].term, b) \cap getPHIGuard(b, p) \cap g[p] :
                         p \in {q \in Preds(b) : ~isBackedge(q, b)}}]
<1>1. ASSUME NEW g, NEW b
      PROVE  (IF b = Entry THEN Env
              ELSE IF FallsBack(b) THEN g[findCommonDominator(b)]
              ELSE UNION {getTermGuard(prog[p].term, b) \cap getPHIGuard(b, p) \cap g[p] :
                          p \in {q \in Preds(b) : ~isBackedge(q, b)}})
             = Condition(g, b)
  <2>1. FallsBack(b) <=> Falls(b)
    BY DEF FallsBack, Falls, isBackedge
  <2>2. {q \in Preds(b) : ~isBackedge(q, b)} = Forward(b)
    BY DEF Forward, isBackedge
  <2> QED
    BY <2>1, <2>2 DEF Condition, Along
<1>2. PICK g : IsPathCondition(g)
  BY PathConditionExists
<1>3. Eq(g)
  BY <1>1, <1>2 DEF IsPathCondition
<1>4. get = CHOOSE h : Eq(h)
  BY DEF get
<1>5. Eq(get)
  <2> HIDE DEF Eq
  <2> QED
    BY <1>3, <1>4
<1>6. get = [b \in Block |-> Condition(get, b)]
  BY <1>1, <1>5
<1>7. \A b \in Block : get[b] = Condition(get, b)
  BY <1>6
<1>8. get \in [Block -> SUBSET Env]
  <2> DEFINE T == {b \in Block : get[b] \in SUBSET Env}
  <2>1. Inductive(Block, Rank, T)
    <3> SUFFICES ASSUME NEW b \in Block, \A c \in Block : Rank[c] < Rank[b] => c \in T
                 PROVE  get[b] \in SUBSET Env
      BY DEF Inductive
    <3> DEFINE h == [c \in Block |-> IF Rank[c] < Rank[b] THEN get[c] ELSE {}]
    <3>1. h \in [Block -> SUBSET Env] /\ \A c \in Block : Rank[c] < Rank[b] => get[c] = h[c]
      OBVIOUS
    <3> HIDE DEF h
    <3>2. Condition(get, b) = Condition(h, b)
      BY <3>1, ConditionFromEarlier
    <3> QED
      BY <1>7, <3>1, <3>2, ConditionType
  <2>2. Block \subseteq T
    <3>1. Rank \in [Block -> Nat]
      BY RankFacts DEF Orders
    <3> HIDE DEF T
    <3> QED
      BY <2>1, <3>1, RankInduction
  <2> QED
    BY <1>6, <2>2
<1>9. IsPathCondition(get)
  BY <1>7, <1>8 DEF IsPathCondition
<1>10. IsPathCondition(PathCondition)
  BY <1>9 DEF PathCondition
<1> QED
  BY <1>9, <1>10, PathConditionIsUnique

----------------------------------------------------------------------------
(* What a path condition is about *)

Agree(e, f, X) == \A x \in X : e[x] = f[x]

LEMMA KnownGrows ==
    ASSUME GoodProgram, NEW b \in Block, NEW c \in Block, Rank[c] <= Rank[b]
    PROVE  Known(Rank[c]) \subseteq Known(Rank[b])
<1>1. Rank \in [Block -> Nat]
  BY RankFacts DEF Orders
<1> QED
  BY <1>1 DEF Known

\* Values that are there at the end of a block are computed no later.
LEMMA AvailableIsKnown ==
    ASSUME GoodProgram, NEW b \in Block, NEW x \in Var, Available(x, b)
    PROVE  x \in Known(Rank[b])
<1>1. PICK d \in Block : x \in Computed(d) /\ Dominates(d, b)
  BY DEF Available
<1>2. Orders(Rank, FindFunctionBackedges)
  BY RankFacts
<1>3. Rank[d] <= Rank[b]
  BY <1>1, <1>2 DEF Orders
<1> QED
  BY <1>1, <1>3 DEF Known

\* Only its own computes what a block computes.
LEMMA ComputedLater ==
    ASSUME GoodProgram, NEW b \in Block, NEW c \in Block, Rank[c] < Rank[b]
    PROVE  Known(Rank[c]) \cap Computed(b) = {}
<1> SUFFICES ASSUME NEW x, x \in Known(Rank[c]), x \in Computed(b) PROVE FALSE
  OBVIOUS
<1>1. PICK d \in Block : x \in Computed(d) /\ Rank[d] <= Rank[c]
  BY DEF Known
<1>2. d = b
  BY <1>1 DEF GoodProgram, WellFormed
<1>3. Rank \in [Block -> Nat]
  BY RankFacts DEF Orders
<1> QED
  BY <1>1, <1>2, <1>3

LEMMA TermGuardAbout ==
    ASSUME GoodProgram, NEW p \in Block, NEW b \in Block, NEW e \in Env, NEW f \in Env,
           Agree(e, f, Known(Rank[p])), e \in getTermGuard(prog[p].term, b)
    PROVE  f \in getTermGuard(prog[p].term, b)
<1> DEFINE t == prog[p].term
<1>1. CASE t.op \in {"condbr", "switch"}
  <2>1. t.v \in Used(t) /\ t.v \in Var
    BY <1>1, TerminatorFacts DEF Used
  <2>2. Available(t.v, p)
    BY <2>1 DEF GoodProgram, WellFormed
  <2>3. e[t.v] = f[t.v]
    BY <2>1, <2>2, AvailableIsKnown DEF Agree
  <2> HIDE DEF t
  <2>4. CASE t.op = "condbr"
    BY <2>3, <2>4 DEF getTermGuard, t
  <2>5. CASE t.op = "switch" /\ t.to[1] # b
    BY <2>3, <2>5 DEF getTermGuard, t
  <2>6. CASE t.op = "switch" /\ t.to[1] = b
    BY <2>3, <2>6 DEF getTermGuard, t
  <2> QED
    BY <1>1, <2>4, <2>5, <2>6
<1>2. CASE t.op \notin {"condbr", "switch"}
  BY <1>2 DEF getTermGuard
<1> QED
  BY <1>1, <1>2

\* The value a phi is given is one of its predecessor's.
LEMMA IncomingIsKnown ==
    ASSUME GoodProgram, NEW b \in Block, NEW p \in Preds(b), NEW x \in DOMAIN prog[b].phis
    PROVE  LET v == prog[b].phis[x][p] IN
           /\ p \in Block /\ x \in Var /\ x \in Computed(b)
           /\ v.op \in {"var", "const", "any"}
           /\ v.op = "var" => v.v \in Known(Rank[p])
<1> DEFINE v == prog[b].phis[x][p]
<1>1. p \in Block /\ x \in Var
  BY DEF Preds, GoodProgram, IsFunction
<1>2. v \in Value
  BY <1>1 DEF GoodProgram, IsFunction
<1>3. v.op = "var" => Available(v.v, p)
  BY DEF GoodProgram, WellFormed
<1> HIDE DEF v
<1>4. v.op \in {"var", "const", "any"} /\ (v.op = "var" => v.v \in Var)
  BY <1>2 DEF Value
<1>5. v.op = "var" => v.v \in Known(Rank[p])
  BY <1>1, <1>3, <1>4, AvailableIsKnown
<1> QED
  BY <1>1, <1>4, <1>5 DEF v, Computed

LEMMA PHIGuardAbout ==
    ASSUME GoodProgram, NEW b \in Block, NEW p \in Preds(b), NEW e \in Env, NEW f \in Env,
           Agree(e, f, Known(Rank[p])), \A x \in DOMAIN prog[b].phis : e[x] = f[x],
           e \in getPHIGuard(b, p)
    PROVE  f \in getPHIGuard(b, p)
<1> SUFFICES ASSUME NEW x \in DOMAIN prog[b].phis, prog[b].phis[x][p].op # "any"
             PROVE  f[x] = Eval(prog[b].phis[x][p], f)
  BY DEF getPHIGuard
<1>1. e[x] = Eval(prog[b].phis[x][p], e)
  BY DEF getPHIGuard
<1>2. Eval(prog[b].phis[x][p], e) = Eval(prog[b].phis[x][p], f)
  BY IncomingIsKnown DEF Eval, Agree
<1> QED
  BY <1>1, <1>2

\* The condition of a block holds or not by what is computed up to the block.
LEMMA ConditionAbout ==
    ASSUME GoodProgram, NEW g, IsPathCondition(g)
    PROVE  \A b \in Block : \A e, f \in Env :
              Agree(e, f, Known(Rank[b])) /\ e \in g[b] => f \in g[b]
<1> DEFINE T == {b \in Block : \A e, f \in Env :
                    Agree(e, f, Known(Rank[b])) /\ e \in g[b] => f \in g[b]}
<1>1. Inductive(Block, Rank, T)
  <2> SUFFICES ASSUME NEW b \in Block, \A c \in Block : Rank[c] < Rank[b] => c \in T,
                      NEW e \in Env, NEW f \in Env, Agree(e, f, Known(Rank[b])), e \in g[b]
               PROVE  f \in g[b]
    BY DEF Inductive
  <2>1. g[b] = Condition(g, b) /\ Rank \in [Block -> Nat]
    BY RankFacts DEF IsPathCondition, Orders
  <2>2. \A c \in Block : Rank[c] < Rank[b] => Agree(e, f, Known(Rank[c]))
    <3> SUFFICES ASSUME NEW c \in Block, Rank[c] < Rank[b] PROVE Agree(e, f, Known(Rank[c]))
      OBVIOUS
    <3>1. Known(Rank[c]) \subseteq Known(Rank[b])
      BY <2>1, KnownGrows
    <3> QED
      BY <3>1 DEF Agree
  <2>3. CASE b = Entry
    BY <2>1, <2>3 DEF Condition
  <2>4. CASE b # Entry /\ Falls(b)
    <3>1. g[b] = g[findCommonDominator(b)]
      BY <2>1, <2>4 DEF Condition
    <3> QED
      BY <2>2, <2>4, <3>1, CommonDominator
  <2>5. CASE b # Entry /\ ~Falls(b)
    <3>1. g[b] = UNION {Along(p, b) \cap g[p] : p \in Forward(b)}
      BY <2>1, <2>5 DEF Condition
    <3>2. PICK p \in Forward(b) : e \in Along(p, b) /\ e \in g[p]
      BY <3>1
    <3>3. p \in Block /\ p \in Preds(b) /\ Rank[p] < Rank[b]
      BY ForwardFacts
    <3>4. f \in g[p] /\ Agree(e, f, Known(Rank[p]))
      BY <2>2, <3>2, <3>3
    <3>5. \A x \in DOMAIN prog[b].phis : e[x] = f[x]
      <4> SUFFICES ASSUME NEW x \in DOMAIN prog[b].phis PROVE e[x] = f[x]
        OBVIOUS
      <4>1. x \in Var /\ x \in Computed(b)
        BY <3>3, IncomingIsKnown
      <4>2. x \in Known(Rank[b])
        BY <2>1, <4>1 DEF Known
      <4> QED
        BY <4>2 DEF Agree
    <3>6. f \in Along(p, b)
      BY <3>2, <3>3, <3>4, <3>5, TermGuardAbout, PHIGuardAbout DEF Along
    <3> QED
      BY <3>1, <3>4, <3>6
  <2> QED
    BY <2>3, <2>4, <2>5
<1>2. Block \subseteq T
  <2>1. Rank \in [Block -> Nat]
    BY RankFacts DEF Orders
  <2> HIDE DEF T
  <2> QED
    BY <1>1, <2>1, RankInduction
<1> QED
  BY <1>2

----------------------------------------------------------------------------
(* The function stays what it is *)

LEMMA SameProgram ==
    ASSUME prog' = prog, DT' = DT
    PROVE  /\ GoodProgram' <=> GoodProgram
           /\ FindFunctionBackedges' = FindFunctionBackedges
           /\ Rank' = Rank
           /\ PathCondition' = PathCondition
           /\ \A b : Succs(b)' = Succs(b) /\ Preds(b)' = Preds(b)
           /\ \A d, b : Dominates(d, b)' <=> Dominates(d, b)
<1>1. Graph' = Graph
  BY DEF Graph
<1>2. \A b : Succs(b)' = Succs(b)
  BY <1>1 DEF Succs
<1>3. \A b : Preds(b)' = Preds(b)
  BY <1>1 DEF Preds, Succs
<1>4. \A d, b : Dominates(d, b)' <=> Dominates(d, b)
  BY <1>1 DEF Dominates, Avoiding, ClosedBut, Succs
<1>5. FindFunctionBackedges' = FindFunctionBackedges
  BY <1>1 DEF FindFunctionBackedges, SearchLength, SearchStep, BeginSearch, Succs
<1>6. Rank' = Rank
  BY <1>1, <1>5 DEF Rank, Orders, Dominates, Avoiding, ClosedBut, Preds, Succs
<1>7. GoodProgram' <=> GoodProgram
  BY <1>1 DEF GoodProgram, WellFormed, Available, Computed, Dominates, Avoiding, ClosedBut,
              Preds, Succs
<1>8. PathCondition' = PathCondition
  BY <1>1, <1>5 DEF PathCondition, IsPathCondition, Condition, Falls, Forward, Along,
              getPHIGuard, findCommonDominator, Dominates, Avoiding, ClosedBut, Preds, Succs
<1> QED
  BY <1>2, <1>3, <1>4, <1>5, <1>6, <1>7, <1>8

----------------------------------------------------------------------------
(* A step of an execution *)

\* An execution goes where the guard of its terminator allows, ...
LEMMA TakenHasGuard ==
    ASSUME GoodProgram, NEW p \in Block, env \in Env, NEW i \in DOMAIN Succs(p),
           Taken(prog[p].term, i)
    PROVE  env \in getTermGuard(prog[p].term, Succs(p)[i])
<1> DEFINE t == prog[p].term
<1>1. CASE t.op = "condbr"
  BY <1>1, TerminatorFacts DEF Taken, Holds, getTermGuard
<1>2. CASE t.op = "switch"
  <2>1. /\ t.to = Succs(p) /\ DOMAIN Succs(p) = 1..(Len(t.cases) + 1)
        /\ DOMAIN t.cases = 1..Len(t.cases) /\ Len(t.cases) \in Nat
        /\ \A j \in DOMAIN Succs(p) : j # 1 => Succs(p)[j] # Succs(p)[1]
    BY <1>2, TerminatorFacts
  <2>2. IF \E j \in DOMAIN t.cases : t.cases[j] = env[t.v]
        THEN i > 1 /\ t.cases[i - 1] = env[t.v] ELSE i = 1
    BY <1>2 DEF Taken
  <2> HIDE DEF t
  <2>3. CASE i = 1
    BY <1>2, <2>1, <2>2, <2>3 DEF getTermGuard, t
  <2>4. CASE i # 1
    <3>1. i > 1 /\ t.cases[i - 1] = env[t.v] /\ t.to[1] # Succs(p)[i]
      BY <2>1, <2>2, <2>4
    <3>2. i - 1 \in DOMAIN t.cases /\ t.to[(i - 1) + 1] = Succs(p)[i]
      BY <2>1, <3>1
    <3> QED
      BY <1>2, <3>1, <3>2 DEF getTermGuard, t
  <2> QED
    BY <2>3, <2>4
<1>3. CASE t.op \notin {"condbr", "switch"}
  BY <1>3 DEF getTermGuard
<1> QED
  BY <1>1, <1>2, <1>3

\* ... and nowhere else.
LEMMA TakenIsOnly ==
    ASSUME GoodProgram, NEW p \in Block, env \in Env, NEW i \in DOMAIN Succs(p),
           Taken(prog[p].term, i), NEW j \in DOMAIN Succs(p),
           env \in getTermGuard(prog[p].term, Succs(p)[j]), prog[p].term.op # "indirectbr"
    PROVE  Succs(p)[i] = Succs(p)[j]
<1> DEFINE t == prog[p].term
<1>1. CASE t.op = "condbr"
  BY <1>1, TerminatorFacts DEF Taken, Holds, getTermGuard
<1>2. CASE t.op = "switch"
  <2>1. /\ t.to = Succs(p) /\ DOMAIN Succs(p) = 1..(Len(t.cases) + 1)
        /\ DOMAIN t.cases = 1..Len(t.cases) /\ Len(t.cases) \in Nat
        /\ \A k, l \in DOMAIN t.cases : t.cases[k] = t.cases[l] => k = l
    BY <1>2, TerminatorFacts
  <2>2. IF \E k \in DOMAIN t.cases : t.cases[k] = env[t.v]
        THEN i > 1 /\ t.cases[i - 1] = env[t.v] ELSE i = 1
    BY <1>2 DEF Taken
  <2> HIDE DEF t
  <2>3. CASE t.to[1] = Succs(p)[j]
    <3>1. \A k \in DOMAIN t.cases : t.cases[k] # env[t.v]
      BY <1>2, <2>3 DEF getTermGuard, t
    <3> QED
      BY <2>1, <2>2, <2>3, <3>1
  <2>4. CASE t.to[1] # Succs(p)[j]
    <3>1. PICK k \in DOMAIN t.cases : t.cases[k] = env[t.v] /\ t.to[k + 1] = Succs(p)[j]
      BY <1>2, <2>4 DEF getTermGuard, t
    <3>2. i > 1 /\ t.cases[i - 1] = env[t.v] /\ i - 1 \in DOMAIN t.cases
      BY <2>1, <2>2, <3>1
    <3>3. i - 1 = k
      BY <2>1, <3>1, <3>2
    <3> QED
      BY <2>1, <3>1, <3>3
  <2> QED
    BY <2>3, <2>4
<1>3. CASE t.op \in {"ret", "br"}
  BY <1>3, TerminatorFacts
<1> QED
  BY <1>1, <1>2, <1>3, TerminatorFacts

\* What holds whatever the pass and the execution have come to.
TypeInv ==
    /\ GoodProgram /\ DT \in BOOLEAN
    /\ bb \in 0..(NumBlocks + 1) /\ finished \in BOOLEAN /\ loops \in BOOLEAN
    /\ bb # 0 => ~finished /\ Backedges = FindFunctionBackedges
    /\ finished /\ ~DT => Backedges = FindFunctionBackedges
    /\ asked => DT /\ bb \in Block /\ IsBranch(bb)
    /\ at \in 0..NumBlocks
    /\ at # 0 => finished /\ env \in Env /\ at \in visited
    /\ at = 0 => ~loops

\* The values change that the block computes; the phis are what comes in.
LEMMA BranchFacts ==
    ASSUME TypeInv, Branch
    PROVE  /\ at \in Block /\ at' \in Block /\ at \in Preds(at') /\ env' \in Env
           /\ env \in Env /\ env \in getTermGuard(prog[at].term, at')
           /\ \A x \in Var : x \notin Computed(at') => env'[x] = env[x]
           /\ \A x \in DOMAIN prog[at'].phis : prog[at'].phis[x][at].op # "any" =>
                 env'[x] = Eval(prog[at'].phis[x][at], env)
           /\ \E i \in DOMAIN Succs(at) : Taken(prog[at].term, i) /\ at' = Succs(at)[i]
<1>1. at \in Block /\ env \in Env
  BY DEF Branch, TypeInv, Block
<1>2. PICK i \in DOMAIN Succs(at) :
        Taken(prog[at].term, i) /\ at' = Succs(at)[i] /\ env' \in Entered(at', at)
  BY DEF Branch
<1>3. at' \in Block
  BY <1>1, <1>2, TerminatorFacts DEF TypeInv
<1>4. at \in Preds(at')
  BY <1>1, <1>2 DEF Preds
<1>5. env \in getTermGuard(prog[at].term, at')
  BY <1>1, <1>2, TakenHasGuard DEF TypeInv
<1>6. /\ env' \in Env
      /\ \A x \in Var : x \notin Computed(at') => env'[x] = env[x]
  BY <1>2 DEF Entered, Computed
<1>7. DOMAIN prog[at'].phis \subseteq Var
  BY <1>3 DEF TypeInv, GoodProgram, IsFunction
<1>8. \A x \in DOMAIN prog[at'].phis : prog[at'].phis[x][at].op # "any" =>
         env'[x] = Eval(prog[at'].phis[x][at], env)
  BY <1>2, <1>7 DEF Entered
<1> QED
  BY <1>1, <1>2, <1>3, <1>4, <1>5, <1>6, <1>8

\* A block is entered with its guard where the one it is entered from is earlier.
LEMMA BranchForward ==
    ASSUME TypeInv, Branch, Rank[at] < Rank[at']
    PROVE  Agree(env, env', Known(Rank[at])) /\ env' \in Along(at, at')
<1>1. GoodProgram
  BY DEF TypeInv
<1>2. /\ at \in Block /\ at' \in Block /\ at \in Preds(at') /\ env' \in Env /\ env \in Env
      /\ env \in getTermGuard(prog[at].term, at')
      /\ \A x \in Var : x \notin Computed(at') => env'[x] = env[x]
      /\ \A x \in DOMAIN prog[at'].phis : prog[at'].phis[x][at].op # "any" =>
            env'[x] = Eval(prog[at'].phis[x][at], env)
  BY BranchFacts
<1> DEFINE p == at
           b == at'
           e == env
           f == env'
<1>3. PICK q, c, d, h : q = p /\ c = b /\ d = e /\ h = f
  OBVIOUS
<1>4. Known(Rank[q]) \cap Computed(c) = {}
  BY <1>1, <1>2, <1>3, ComputedLater
<1>5. Agree(d, h, Known(Rank[q]))
  BY <1>2, <1>3, <1>4 DEF Agree, Known
<1>6. h \in getTermGuard(prog[q].term, c)
  BY <1>1, <1>2, <1>3, <1>5, TermGuardAbout
<1>7. h \in getPHIGuard(c, q)
  <2> SUFFICES ASSUME NEW x \in DOMAIN prog[c].phis, prog[c].phis[x][q].op # "any"
               PROVE  h[x] = Eval(prog[c].phis[x][q], h)
    BY <1>2, <1>3 DEF getPHIGuard
  <2>1. h[x] = Eval(prog[c].phis[x][q], d)
    BY <1>2, <1>3
  <2>2. Eval(prog[c].phis[x][q], d) = Eval(prog[c].phis[x][q], h)
    BY <1>1, <1>2, <1>3, <1>5, IncomingIsKnown DEF Eval, Agree
  <2> QED
    BY <2>1, <2>2
<1> QED
  BY <1>3, <1>5, <1>6, <1>7 DEF Along

----------------------------------------------------------------------------
(* The inductive invariant *)

\* What CmpSat has said of a branch follows from the condition of its block.
ReportsFollow ==
    \A b \in DOMAIN Reports :
        /\ DT /\ b \in Block /\ IsBranch(b)
        /\ \/ /\ Reports[b] = "CMP_FALSE"
              /\ \A e \in PathCondition[b] : ~Holds(prog[b].term, e)
           \/ /\ Reports[b] = "CMP_TRUE"
              /\ \A e \in PathCondition[b] : Holds(prog[b].term, e)

\* The model IntSat reports is one of the block's condition.
ModelFollows ==
    model # None =>
        /\ ~DT /\ model.block \in Block /\ model.env \in Env
        /\ model.env \in PathCondition[model.block]

\* An execution satisfies the conditions of all blocks that dominate the one it
\* is in: of what has been computed there nothing has changed since.  Where the
\* back edges are skipped it does until it takes one.
Executing ==
    at # 0 /\ (DT \/ ~loops) =>
        \A c \in Block : Dominates(c, at) => env \in PathCondition[c]

\* Until then it gets to later blocks only.
GoesForward ==
    at # 0 /\ ~DT /\ ~loops =>
        \A v \in visited : v = at \/ (v \in Block /\ Rank[v] < Rank[at])

\* The blocks from which the model leads to the block of the trap.
Leading(T) ==
    /\ model.block \in T
    /\ \A b \in Block : \A p \in Forward(b) : b \in T /\ model.env \in Along(p, b) => p \in T

Leads == {b \in Block : \A T \in SUBSET Block : Leading(T) => b \in T}

NoIndirect == \A b \in Block : prog[b].term.op # "indirectbr"

\* An execution that yields the model follows it.
FollowsModel ==
    model # None /\ at # 0 /\ NoIndirect =>
        \/ model.block \notin visited /\ ~loops /\ env = model.env /\ at \in Leads
        \/ model.block \in visited /\ (at = model.block /\ ~loops => env = model.env)

Inv ==
    /\ TypeInv /\ ReportsFollow /\ ModelFollows
    /\ Executing /\ GoesForward /\ FollowsModel

\* From each block but that of the trap there is a step the model takes.
LEMMA LeadsFacts ==
    ASSUME GoodProgram, model.block \in Block
    PROVE  /\ model.block \in Leads /\ Leads \subseteq Block
           /\ \A p \in Leads : p # model.block =>
                \E b \in Leads : p \in Forward(b) /\ model.env \in Along(p, b)
<1>1. model.block \in Leads /\ Leads \subseteq Block
  BY DEF Leads, Leading
<1>2. ASSUME NEW b \in Leads, NEW p \in Forward(b), model.env \in Along(p, b)
      PROVE  p \in Leads
  <2>1. b \in Block /\ p \in Block
    BY <1>1, ForwardFacts
  <2>2. ASSUME NEW T \in SUBSET Block, Leading(T) PROVE p \in T
    <3>1. b \in T
      BY <2>2 DEF Leads
    <3> QED
      BY <1>2, <2>1, <2>2, <3>1 DEF Leading
  <2> QED
    BY <2>1, <2>2 DEF Leads
<1>3. ASSUME NEW p \in Leads, p # model.block,
             \A b \in Leads : ~(p \in Forward(b) /\ model.env \in Along(p, b))
      PROVE  FALSE
  <2> DEFINE T == Leads \ {p}
  <2>1. Leading(T)
    <3> SUFFICES ASSUME NEW b \in Block, NEW q \in Forward(b), b \in T, model.env \in Along(q, b)
                 PROVE  q \in T
      BY <1>1, <1>3 DEF Leading
    <3>1. q \in Leads
      BY <1>2
    <3>2. q # p
      BY <1>3
    <3> QED
      BY <3>1, <3>2
  <2>2. T \in SUBSET Block
    BY <1>1
  <2>3. p \in T
    BY <2>1, <2>2 DEF Leads
  <2> QED
    BY <2>3
<1> QED
  BY <1>1, <1>3

LEMMA LeadsFromEntry ==
    ASSUME GoodProgram, ModelFollows, model # None, IsPathCondition(PathCondition)
    PROVE  Entry \in Leads
<1>1. ~DT /\ model.block \in Block /\ model.env \in PathCondition[model.block]
  BY DEF ModelFollows
<1> DEFINE T == {b \in Block : b \in Leads /\ model.env \in PathCondition[b] => Entry \in Leads}
<1>2. Inductive(Block, Rank, T)
  <2> SUFFICES ASSUME NEW b \in Block, \A c \in Block : Rank[c] < Rank[b] => c \in T,
                      b \in Leads, model.env \in PathCondition[b], b # Entry
               PROVE  Entry \in Leads
    BY DEF Inductive
  <2>1. PathCondition[b] = UNION {Along(p, b) \cap PathCondition[p] : p \in Forward(b)}
    BY <1>1 DEF IsPathCondition, Condition, Falls
  <2>2. PICK p \in Forward(b) : model.env \in Along(p, b) /\ model.env \in PathCondition[p]
    BY <2>1
  <2>3. p \in Block /\ Rank[p] < Rank[b]
    BY ForwardFacts
  <2>4. p \in Leads
    <3> SUFFICES ASSUME NEW U \in SUBSET Block, Leading(U) PROVE p \in U
      BY <2>3 DEF Leads
    <3>1. b \in U
      BY DEF Leads
    <3> QED
      BY <2>2, <3>1 DEF Leading
  <2> QED
    BY <2>2, <2>3, <2>4
<1>3. Block \subseteq T
  <2>1. Rank \in [Block -> Nat]
    BY RankFacts DEF Orders
  <2> HIDE DEF T
  <2> QED
    BY <1>2, <2>1, RankInduction
<1>4. model.block \in Leads
  BY <1>1, LeadsFacts
<1> QED
  BY <1>1, <1>3, <1>4

LEMMA PathConditionFacts ==
    ASSUME GoodProgram
    PROVE  IsPathCondition(PathCondition) /\ PathCondition \in [Block -> SUBSET Env]
<1>1. IsPathCondition(PathCondition)
  BY PathConditionExists DEF PathCondition
<1> QED
  BY <1>1 DEF IsPathCondition

----------------------------------------------------------------------------
(* It is kept *)

LEMMA InitInv == Init => Inv
<1> SUFFICES ASSUME Init PROVE Inv
  OBVIOUS
<1>1. GoodProgram
  BY PathGenAssumption DEF Init, GoodProgram
<1>2. /\ DT \in BOOLEAN /\ bb = 0 /\ finished = FALSE /\ asked = FALSE
      /\ at = 0 /\ loops = FALSE
  BY DEF Init
<1>3. TypeInv
  <2>1. bb \in 0..(NumBlocks + 1) /\ at \in 0..NumBlocks
    BY <1>2, BlocksAreFinite
  <2>2. bb = 0 /\ at = 0 /\ ~finished /\ ~asked /\ ~loops
    BY <1>2
  <2>3. finished \in BOOLEAN /\ loops \in BOOLEAN
    BY <1>2
  <2> QED
    BY <1>1, <1>2, <2>1, <2>2, <2>3, Zenon DEF TypeInv
<1>4. DOMAIN Reports = {} /\ model = None
  BY DEF Init
<1> QED
  BY <1>2, <1>3, <1>4 DEF Inv, ReportsFollow, ModelFollows, Executing, GoesForward, FollowsModel

\* The pass, before the execution: what it says follows from the conditions.
LEMMA PassInv ==
    ASSUME Inv, prog' = prog, DT' = DT, UNCHANGED runVars, bb # 0 \/ ~finished,
           TypeInv', ReportsFollow', ModelFollows'
    PROVE  Inv'
<1>1. at = 0 /\ at' = 0
  BY DEF Inv, TypeInv, runVars
<1> QED
  BY <1>1 DEF Inv, Executing, GoesForward, FollowsModel

LEMMA ReportsKept ==
    ASSUME Inv, prog' = prog, DT' = DT, UNCHANGED Reports
    PROVE  ReportsFollow'
  BY SameProgram DEF Inv, ReportsFollow, IsBranch, Holds

LEMMA ModelKept ==
    ASSUME Inv, prog' = prog, DT' = DT, UNCHANGED model
    PROVE  ModelFollows'
  BY SameProgram DEF Inv, ModelFollows

LEMMA BeginFunctionInv == ASSUME Inv, BeginFunction PROVE Inv'
<1>1. prog' = prog /\ DT' = DT /\ UNCHANGED runVars /\ UNCHANGED <<Reports, model>>
  BY DEF BeginFunction
<1>2. TypeInv'
  BY <1>1, SameProgram, BlocksAreFinite DEF Inv, TypeInv, BeginFunction, runVars
<1> QED
  BY <1>1, <1>2, PassInv, ReportsKept, ModelKept DEF BeginFunction

LEMMA EndFunctionInv == ASSUME Inv, EndFunction PROVE Inv'
<1>1. prog' = prog /\ DT' = DT /\ UNCHANGED runVars /\ UNCHANGED <<Reports, model>> /\ bb # 0
  BY BlocksAreFinite DEF EndFunction
<1>2. ~asked
  BY <1>1, BlocksAreFinite DEF Inv, TypeInv, EndFunction, Block
<1>3. TypeInv'
  BY <1>1, <1>2, SameProgram, BlocksAreFinite DEF Inv, TypeInv, EndFunction, runVars
<1> QED
  BY <1>1, <1>3, PassInv, ReportsKept, ModelKept

\* The next block, or the second question about this one.
LEMMA QueryTypes ==
    ASSUME Inv, prog' = prog, DT' = DT, UNCHANGED <<Backedges, finished, runVars>>, bb \in Block,
           NextBlock \/ (asked' = TRUE /\ bb' = bb /\ DT /\ IsBranch(bb))
    PROVE  TypeInv'
<1>1. bb' \in 0..(NumBlocks + 1) /\ bb # 0
  BY BlocksAreFinite DEF NextBlock, Block
<1>2. asked' => DT' /\ bb' \in Block /\ prog'[bb'].term.op = "condbr"
  BY DEF NextBlock, IsBranch
<1>3. UNCHANGED <<finished, loops, at, env, visited, Backedges>>
  BY DEF runVars
<1> QED
  BY <1>1, <1>2, <1>3, SameProgram DEF Inv, TypeInv, IsBranch

LEMMA SkipBlockInv == ASSUME Inv, SkipBlock PROVE Inv'
<1>1. prog' = prog /\ DT' = DT /\ UNCHANGED runVars /\ UNCHANGED <<Reports, model>> /\ bb # 0
  BY BlocksAreFinite DEF SkipBlock
<1>2. TypeInv'
  BY <1>1, QueryTypes DEF SkipBlock
<1> QED
  BY <1>1, <1>2, PassInv, ReportsKept, ModelKept

LEMMA ReportInv ==
    ASSUME Inv, prog' = prog, DT' = DT, DT, bb \in Block, IsBranch(bb), NEW reason, Report(reason),
           \/ reason = "CMP_FALSE" /\ \A e \in PathCondition[bb] : ~Holds(prog[bb].term, e)
           \/ reason = "CMP_TRUE" /\ \A e \in PathCondition[bb] : Holds(prog[bb].term, e)
    PROVE  ReportsFollow'
<1>1. PathCondition' = PathCondition
  BY SameProgram
<1>2. PICK P, rs : P = PathCondition /\ rs = Reports'
  OBVIOUS
<1>3. ASSUME NEW b \in DOMAIN rs
      PROVE  /\ DT /\ b \in Block /\ IsBranch(b)
             /\ \/ rs[b] = "CMP_FALSE" /\ \A e \in P[b] : ~Holds(prog[b].term, e)
                \/ rs[b] = "CMP_TRUE" /\ \A e \in P[b] : Holds(prog[b].term, e)
  <2>1. CASE b = bb
    BY <1>2, <2>1 DEF Report
  <2>2. CASE b # bb
    <3>1. b \in DOMAIN Reports /\ rs[b] = Reports[b]
      BY <1>2, <1>3, <2>2 DEF Report
    <3> QED
      BY <1>2, <3>1 DEF Inv, ReportsFollow
  <2> QED
    BY <2>1, <2>2
<1> QED
  BY <1>1, <1>2, <1>3 DEF ReportsFollow, IsBranch, Holds

LEMMA QueryFacts ==
    ASSUME Inv, bb \in Block
    PROVE  /\ get = PathCondition /\ PathCondition[bb] \in SUBSET Env
           /\ bb # 0 /\ \A e \in Env : e \in ValuePred <=> Holds(prog[bb].term, e)
<1>1. GoodProgram /\ Backedges = FindFunctionBackedges /\ bb # 0
  BY BlocksAreFinite DEF Inv, TypeInv
<1> QED
  BY <1>1, getIsPathCondition, PathConditionFacts DEF ValuePred

LEMMA FirstQueryInv == ASSUME Inv, FirstQuery PROVE Inv'
<1>1. prog' = prog /\ DT' = DT /\ UNCHANGED runVars /\ UNCHANGED <<Backedges, finished, model>>
  BY DEF FirstQuery
<1>2. DT /\ bb \in Block /\ IsBranch(bb)
  BY DEF FirstQuery
<1>3. TypeInv'
  BY <1>1, <1>2, QueryTypes DEF FirstQuery
<1>4. ReportsFollow'
  <2>1. CASE MayBeUnsat(ValuePred \cap get[bb]) /\ Report("CMP_FALSE")
    <3>1. \A e \in PathCondition[bb] : ~Holds(prog[bb].term, e)
      BY <1>2, <2>1, QueryFacts DEF MayBeUnsat
    <3> QED
      BY <1>1, <1>2, <2>1, <3>1, ReportInv
  <2>2. CASE UNCHANGED Reports
    BY <1>1, <2>2, ReportsKept
  <2> QED
    BY <2>1, <2>2 DEF FirstQuery
<1> QED
  BY <1>1, <1>2, <1>3, <1>4, QueryFacts, PassInv, ModelKept

LEMMA SecondQueryInv == ASSUME Inv, SecondQuery PROVE Inv'
<1>1. prog' = prog /\ DT' = DT /\ UNCHANGED runVars /\ UNCHANGED <<Backedges, finished, model>>
  BY DEF SecondQuery
<1>2. DT /\ bb \in Block /\ IsBranch(bb)
  BY DEF SecondQuery, Inv, TypeInv
<1>3. TypeInv'
  BY <1>1, <1>2, QueryTypes DEF SecondQuery
<1>4. ReportsFollow'
  <2>1. CASE MayBeUnsat(get[bb] \ ValuePred) /\ Report("CMP_TRUE")
    <3>1. \A e \in PathCondition[bb] : Holds(prog[bb].term, e)
      BY <1>2, <2>1, QueryFacts DEF MayBeUnsat
    <3> QED
      BY <1>1, <1>2, <2>1, <3>1, ReportInv
  <2>2. CASE UNCHANGED Reports
    BY <1>1, <2>2, ReportsKept
  <2> QED
    BY <2>1, <2>2 DEF SecondQuery
<1> QED
  BY <1>1, <1>2, <1>3, <1>4, QueryFacts, PassInv, ModelKept

LEMMA QueryTrapsInv == ASSUME Inv, QueryTraps PROVE Inv'
<1>1. prog' = prog /\ DT' = DT /\ UNCHANGED runVars /\ UNCHANGED <<Backedges, finished, Reports>>
  BY DEF QueryTraps
<1>2. ~DT /\ bb \in Block
  BY DEF QueryTraps
<1>3. TypeInv'
  BY <1>1, <1>2, QueryTypes DEF QueryTraps
<1>4. ModelFollows'
  <2>1. CASE model' \in [block: {bb}, env: get[bb]]
    <3>1. model'.block = bb /\ model'.env \in PathCondition[bb] /\ model'.env \in Env
      BY <1>2, <2>1, QueryFacts
    <3> QED
      BY <1>1, <1>2, <3>1, SameProgram DEF ModelFollows
  <2>2. CASE UNCHANGED model
    BY <1>1, <2>2, ModelKept
  <2> QED
    BY <2>1, <2>2 DEF QueryTraps
<1> QED
  BY <1>1, <1>2, <1>3, <1>4, QueryFacts, PassInv, ReportsKept


\* An execution begins where only the entry dominates it.
LEMMA StartInv == ASSUME Inv, Start PROVE Inv'
<1>1. /\ prog' = prog /\ DT' = DT /\ UNCHANGED passVars /\ UNCHANGED <<Reports, model>>
      /\ UNCHANGED <<Backedges, loops>>
  BY DEF Start, passVars
<1>2. GoodProgram /\ ~loops /\ finished
  BY DEF Inv, TypeInv, Start
<1>3. PICK a, e, vs : a = at' /\ e = env' /\ vs = visited'
  OBVIOUS
<1>4. a = Entry /\ vs = {Entry} /\ e \in Env /\ \A x \in Var : e[x] \in Yields(x)
  BY <1>3 DEF Start
<1>5. TypeInv'
  BY <1>1, <1>2, <1>3, <1>4, SameProgram, BlocksAreFinite
     DEF Inv, TypeInv, passVars, IsBranch, Block, Entry
<1>6. ReportsFollow' /\ ModelFollows'
  BY <1>1, ReportsKept, ModelKept
<1>7. Executing'
  <2> SUFFICES ASSUME NEW c \in Block, Dominates(c, a) PROVE e \in PathCondition[c]
    BY <1>1, <1>3, SameProgram DEF Executing
  <2>1. c = Entry
    BY <1>2, <1>4, GraphFacts, NothingAboveEntry
  <2>2. PathCondition[Entry] = Env
    BY <1>2, PathConditionFacts, BlocksAreFinite DEF IsPathCondition, Condition
  <2> QED
    BY <1>4, <2>1, <2>2
<1>8. GoesForward'
  BY <1>3, <1>4 DEF GoesForward
<1>9. FollowsModel'
  <2> SUFFICES ASSUME model # None
               PROVE  \/ model.block \notin vs /\ ~loops /\ e = model.env /\ Entry \in Leads
                      \/ model.block \in vs /\ (Entry = model.block => e = model.env)
    <3>1. Leads' = Leads
      BY <1>1, SameProgram DEF Leads, Leading, Forward, Along, getPHIGuard
    <3> QED
      BY <1>1, <1>2, <1>3, <1>4, <3>1 DEF FollowsModel
  <2>1. model.env \in Env
    BY DEF Inv, ModelFollows
  <2>2. e = model.env
    BY <1>4, <2>1 DEF Yields, Env
  <2>3. Entry \in Leads
    BY <1>2, PathConditionFacts, LeadsFromEntry DEF Inv
  <2> QED
    BY <1>2, <1>4, <2>2, <2>3
<1> QED
  BY <1>5, <1>6, <1>7, <1>8, <1>9 DEF Inv

\* The conditions of the blocks that dominate the next one hold there.
LEMMA BranchExecutes ==
    ASSUME Inv, Branch, DT \/ ~loops',
           NEW c \in Block, Dominates(c, at')
    PROVE  env' \in PathCondition[c]
<1>1. PICK p, b, e, f : p = at /\ b = at' /\ e = env /\ f = env'
  OBVIOUS
<1>2. /\ GoodProgram /\ GraphOK /\ IsPathCondition(PathCondition)
      /\ Rank \in [Block -> Nat] /\ Orders(Rank, FindFunctionBackedges)
  BY GraphFacts, PathConditionFacts, RankFacts DEF Inv, TypeInv, Orders
<1>3. /\ p \in Block /\ b \in Block /\ p \in Preds(b) /\ e \in Env /\ f \in Env
      /\ \A x \in Var : x \notin Computed(b) => f[x] = e[x]
  BY <1>1, BranchFacts DEF Inv
<1>4. PICK i \in DOMAIN Succs(p) : Succs(p)[i] = b
  BY <1>3 DEF Preds
<1>5. DT \/ (~loops /\ <<p, b>> \notin FindFunctionBackedges)
  BY <1>1 DEF Branch, isBackedge, Inv, TypeInv
<1>6. \A d \in Block : Dominates(d, p) => e \in PathCondition[d]
  BY <1>1, <1>3, <1>5, BlocksAreFinite DEF Inv, Executing
<1>7. ASSUME NEW d \in Block, Dominates(d, p), Rank[d] < Rank[b]
      PROVE  f \in PathCondition[d]
  <2>1. Agree(e, f, Known(Rank[d]))
    BY <1>2, <1>3, <1>7, ComputedLater DEF Agree, Known
  <2> QED
    BY <1>2, <1>3, <1>6, <1>7, <2>1, ConditionAbout
<1>8. CASE c # b
  <2>1. Dominates(c, p)
    BY <1>1, <1>2, <1>3, <1>4, <1>8, DominatorsAbove
  <2>2. Rank[c] < Rank[b]
    BY <1>1, <1>2, <1>3, <1>8 DEF Orders
  <2> QED
    BY <1>1, <1>7, <2>1, <2>2
<1>9. CASE c = b /\ Falls(b)
  <2>1. b # Entry
    BY <1>2, <1>3, GraphFacts
  <2>2. PathCondition[b] = PathCondition[findCommonDominator(b)]
    BY <1>2, <1>3, <1>9, <2>1 DEF IsPathCondition, Condition
  <2> QED
    BY <1>1, <1>2, <1>3, <1>7, <1>9, <2>1, <2>2, CommonDominator
<1>10. CASE c = b /\ ~Falls(b)
  <2>1. b # Entry
    BY <1>2, <1>3, GraphFacts
  <2>2. p \in Forward(b)
    BY <1>3, <1>5, <1>10 DEF Falls, Forward
  <2>3. Rank[p] < Rank[b]
    BY <1>2, <1>3, <2>2, ForwardFacts
  <2>4. f \in Along(p, b)
    BY <1>1, <2>3, BranchForward DEF Inv
  <2>5. f \in PathCondition[p]
    BY <1>2, <1>3, <1>7, <2>3, DominatesItself
  <2>6. PathCondition[b] = UNION {Along(q, b) \cap PathCondition[q] : q \in Forward(b)}
    BY <1>2, <1>3, <1>10, <2>1 DEF IsPathCondition, Condition
  <2> QED
    BY <1>1, <1>10, <2>2, <2>4, <2>5, <2>6
<1> QED
  BY <1>8, <1>9, <1>10

\* While an execution follows the model it takes the step the model takes.
LEMMA BranchFollows ==
    ASSUME Inv, Branch, model # None, NoIndirect,
           model.block \notin visited, ~loops, env = model.env, at \in Leads
    PROVE  at' \in Leads /\ ~loops' /\ env' = model.env
<1>1. PICK p, b, f : p = at /\ b = at' /\ f = env'
  OBVIOUS
<1>2. GoodProgram /\ ~DT /\ model.block \in Block /\ model.env \in Env /\ at # 0
  BY DEF Inv, TypeInv, ModelFollows, Branch
<1>3. Backedges = FindFunctionBackedges /\ p \in visited
  BY <1>1, <1>2 DEF Inv, TypeInv
<1>4. p \in Block /\ b \in Block /\ p \in Preds(b) /\ f \in Env
  BY <1>1, BranchFacts DEF Inv
<1>5. PICK i \in DOMAIN Succs(p) : Taken(prog[p].term, i) /\ b = Succs(p)[i] /\ f \in Entered(b, p)
  BY <1>1 DEF Branch
<1>6. PICK c \in Leads : p \in Forward(c) /\ model.env \in Along(p, c)
  BY <1>1, <1>2, <1>3, LeadsFacts
<1>7. PICK j \in DOMAIN Succs(p) : c = Succs(p)[j]
  BY <1>6 DEF Forward, Preds
<1>8. b = c
  <2>1. env \in getTermGuard(prog[p].term, Succs(p)[j])
    BY <1>6, <1>7 DEF Along
  <2>2. prog[p].term.op # "indirectbr"
    BY <1>4 DEF NoIndirect
  <2> QED
    BY <1>2, <1>4, <1>5, <1>7, <2>1, <2>2, TakenIsOnly
<1>9. loops' = FALSE
  BY <1>1, <1>3, <1>6, <1>8 DEF Branch, isBackedge, Forward, Inv, TypeInv
<1>10. f = model.env
  <2>1. ASSUME NEW x \in Var PROVE f[x] = model.env[x]
    <3>1. CASE x \in DOMAIN prog[b].phis /\ prog[b].phis[x][p].op # "any"
      <4>1. f[x] = Eval(prog[b].phis[x][p], env)
        BY <1>5, <3>1 DEF Entered
      <4>2. model.env[x] = Eval(prog[b].phis[x][p], model.env)
        BY <1>6, <1>8, <3>1 DEF Along, getPHIGuard
      <4> QED
        BY <4>1, <4>2
    <3>2. CASE x \notin DOMAIN prog[b].phis \/ prog[b].phis[x][p].op = "any"
      BY <1>5, <3>2 DEF Entered, Yields
    <3> QED
      BY <3>1, <3>2
  <2> QED
    BY <1>2, <1>4, <2>1 DEF Env
<1> QED
  BY <1>1, <1>6, <1>8, <1>9, <1>10

LEMMA BranchInv == ASSUME Inv, Branch PROVE Inv'
<1>1. /\ prog' = prog /\ DT' = DT /\ UNCHANGED passVars /\ UNCHANGED <<Reports, model>>
      /\ UNCHANGED Backedges
  BY DEF Branch, passVars
<1>2. /\ GoodProgram /\ finished /\ at # 0 /\ at \in visited
      /\ Rank \in [Block -> Nat] /\ Orders(Rank, FindFunctionBackedges)
  BY RankFacts DEF Inv, TypeInv, Branch, Orders
<1>3. PICK p, b, f, l, vs : p = at /\ b = at' /\ f = env' /\ l = loops' /\ vs = visited'
  OBVIOUS
<1>4. /\ p \in Block /\ b \in Block /\ p \in Preds(b) /\ f \in Env
  BY <1>3, BranchFacts DEF Inv
<1>5. l = (loops \/ <<p, b>> \in Backedges) /\ vs = visited \cup {b}
  BY <1>3 DEF Branch, isBackedge
<1>6. TypeInv'
  BY <1>1, <1>2, <1>3, <1>4, <1>5, SameProgram, BlocksAreFinite
     DEF Inv, TypeInv, passVars, IsBranch, Block
<1>7. ReportsFollow' /\ ModelFollows'
  BY <1>1, ReportsKept, ModelKept
<1>8. Executing'
  <2> SUFFICES ASSUME DT \/ ~l, NEW c \in Block, Dominates(c, b) PROVE f \in PathCondition[c]
    BY <1>1, <1>3, SameProgram DEF Executing
  <2> QED
    BY <1>3, BranchExecutes
<1>9. ASSUME ~DT, ~l PROVE ~loops /\ Rank[p] < Rank[b]
  <2>1. ~loops /\ <<p, b>> \notin FindFunctionBackedges
    BY <1>2, <1>5, <1>9 DEF Inv, TypeInv
  <2> QED
    BY <1>2, <1>4, <2>1, ForwardFacts DEF Forward
<1>10. GoesForward'
  <2> SUFFICES ASSUME ~DT, ~l, NEW v \in vs
               PROVE  v = b \/ (v \in Block /\ Rank[v] < Rank[b])
    BY <1>1, <1>3, SameProgram DEF GoesForward
  <2>1. v = b \/ v = p \/ (v \in Block /\ Rank[v] < Rank[p])
    BY <1>2, <1>3, <1>5, <1>9 DEF Inv, GoesForward
  <2> QED
    BY <1>2, <1>4, <1>9, <2>1
<1>11. FollowsModel'
  <2> SUFFICES ASSUME model # None, NoIndirect
               PROVE  \/ model.block \notin vs /\ ~l /\ f = model.env /\ b \in Leads
                      \/ model.block \in vs /\ (b = model.block /\ ~l => f = model.env)
    <3>1. Leads' = Leads
      BY <1>1, SameProgram DEF Leads, Leading, Forward, Along, getPHIGuard
    <3> QED
      BY <1>1, <1>3, <3>1 DEF FollowsModel, NoIndirect
  <2>1. ~DT
    BY DEF Inv, ModelFollows
  <2>2. CASE model.block \in visited
    <3> SUFFICES ASSUME b = model.block, ~l PROVE FALSE
      BY <1>5, <2>2
    <3>1. model.block = p \/ Rank[model.block] < Rank[p]
      BY <1>2, <1>3, <1>9, <2>1, <2>2 DEF Inv, GoesForward
    <3> QED
      BY <1>2, <1>4, <1>9, <2>1, <3>1
  <2>3. CASE model.block \notin visited
    <3>1. ~loops /\ env = model.env /\ at \in Leads
      BY <1>2, <2>3 DEF Inv, FollowsModel
    <3>2. b \in Leads /\ ~l /\ f = model.env
      BY <1>3, <2>3, <3>1, BranchFollows
    <3> QED
      BY <3>2
  <2> QED
    BY <2>2, <2>3
<1> QED
  BY <1>6, <1>7, <1>8, <1>10, <1>11 DEF Inv

LEMMA StutterInv == ASSUME Inv, UNCHANGED vars PROVE Inv'
<1>1. /\ prog' = prog /\ DT' = DT
      /\ UNCHANGED <<Backedges, bb, finished, asked, Reports, model, at, env, loops, visited>>
  BY DEF vars, passVars, runVars
<1>2. TypeInv'
  BY <1>1, SameProgram DEF Inv, TypeInv, IsBranch
<1>3. Executing' /\ GoesForward'
  BY <1>1, SameProgram DEF Inv, Executing, GoesForward
<1>4. FollowsModel'
  <2>1. Leads' = Leads
    BY <1>1, SameProgram DEF Leads, Leading, Forward, Along, getPHIGuard
  <2> QED
    BY <1>1, <2>1 DEF Inv, FollowsModel, NoIndirect
<1> QED
  BY <1>1, <1>2, <1>3, <1>4, ReportsKept, ModelKept DEF Inv

LEMMA NextInv == ASSUME Inv, [Next]_vars PROVE Inv'
<1>1. CASE BeginFunction
  BY <1>1, BeginFunctionInv
<1>2. CASE EndFunction
  BY <1>2, EndFunctionInv
<1>3. CASE SkipBlock
  BY <1>3, SkipBlockInv
<1>4. CASE FirstQuery
  BY <1>4, FirstQueryInv
<1>5. CASE SecondQuery
  BY <1>5, SecondQueryInv
<1>6. CASE QueryTraps
  BY <1>6, QueryTrapsInv
<1>7. CASE Start
  BY <1>7, StartInv
<1>8. CASE Branch
  BY <1>8, BranchInv
<1>9. CASE Return
  BY <1>9, StutterInv DEF Return
<1>10. CASE UNCHANGED vars
  BY <1>10, StutterInv
<1> QED
  BY <1>1, <1>2, <1>3, <1>4, <1>5, <1>6, <1>7, <1>8, <1>9, <1>10 DEF Next

\* What is said of a function, and how an execution of it relates to that,
\* whatever the function, its values and its loops.
THEOREM Invariant == Spec => []Inv
<1>1. Inv /\ [Next]_vars => Inv'
  BY NextInv
<1> QED
  BY InitInv, <1>1, PTL DEF Spec

----------------------------------------------------------------------------
(* What follows *)

\* CmpSat.cc:22: no execution takes the successor of a branch that is said not
\* to be taken, however often the loops around it have run.
THEOREM ReportsTrue == Spec => []ReportsAreTrue
<1>1. ASSUME Inv PROVE ReportsAreTrue
  <2> SUFFICES ASSUME at \in DOMAIN Reports
               PROVE  Holds(prog[at].term, env) = (Reports[at] = "CMP_TRUE")
    BY DEF ReportsAreTrue
  <2>1. /\ DT /\ at \in Block
        /\ \/ Reports[at] = "CMP_FALSE" /\ \A e \in PathCondition[at] : ~Holds(prog[at].term, e)
           \/ Reports[at] = "CMP_TRUE" /\ \A e \in PathCondition[at] : Holds(prog[at].term, e)
    BY <1>1 DEF Inv, ReportsFollow
  <2>2. env \in PathCondition[at]
    BY <1>1, <2>1, GraphFacts, DominatesItself, BlocksAreFinite DEF Inv, TypeInv, Executing
  <2> QED
    BY <2>1, <2>2 DEF Holds
<1> QED
  BY Invariant, <1>1, PTL

\* IntSat: an execution that has not taken a back edge is one of those that the
\* condition of its block allows, so that the solver is asked about it.
THEOREM FirstRoundCovered == Spec => []FirstRoundIsCovered
<1>1. ASSUME Inv PROVE FirstRoundIsCovered
  <2> SUFFICES ASSUME ~DT, at # 0, ~loops PROVE env \in get[at]
    BY DEF FirstRoundIsCovered
  <2>1. GoodProgram /\ at \in Block /\ Backedges = FindFunctionBackedges
    BY <1>1 DEF Inv, TypeInv, Block
  <2>2. env \in PathCondition[at]
    BY <1>1, <2>1, GraphFacts, DominatesItself DEF Inv, Executing
  <2> QED
    BY <2>1, <2>2, getIsPathCondition
<1> QED
  BY Invariant, <1>1, PTL

\* IntSat: the function executes as the model says, up to the trap.
THEOREM ModelsExecute == Spec => []ModelsAreExecutions
<1>1. ASSUME Inv PROVE ModelsAreExecutions
  <2> SUFFICES ASSUME model # None, at # 0, NoIndirect
               PROVE  /\ at = model.block /\ ~loops => env = model.env
                      /\ loops \/ Succs(at) = <<>> => model.block \in visited
    BY DEF ModelsAreExecutions, NoIndirect
  <2>1. GoodProgram /\ model.block \in Block /\ at \in visited
    BY <1>1 DEF Inv, TypeInv, ModelFollows
  <2>2. \/ model.block \notin visited /\ ~loops /\ env = model.env /\ at \in Leads
        \/ model.block \in visited /\ (at = model.block /\ ~loops => env = model.env)
    BY <1>1 DEF Inv, FollowsModel
  <2>3. ASSUME at \in Leads, at # model.block PROVE Succs(at) # <<>>
    <3>1. PICK b \in Leads : at \in Forward(b)
      BY <2>1, <2>3, LeadsFacts
    <3>2. PICK i \in DOMAIN Succs(at) : Succs(at)[i] = b
      BY <3>1 DEF Forward, Preds
    <3> QED
      BY <3>2
  <2> QED
    BY <2>1, <2>2, <2>3
<1> QED
  BY Invariant, <1>1, PTL
=============================================================================
