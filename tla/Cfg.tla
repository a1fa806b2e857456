-------------------------------- MODULE Cfg --------------------------------
(***************************************************************************)
(* The control flow graph of a function and what LLVM computes on it for    *)
(* the passes of intck and cmpck: dominators (DominatorTree), back edges    *)
(* (FindFunctionBackedges), natural loops (LoopInfo).  LLVM is not part of  *)
(* the repository; this is what its passes rely on.                         *)
(***************************************************************************)
EXTENDS Integers, Sequences, FiniteSets

CONSTANT NumBlocks  \* the blocks of a function, the entry first

Block == 1..NumBlocks
Entry == 1

VARIABLE prog  \* the function: block -> what it holds, its terminator in term

\* The graph: the successors of a block in order.
Graph == [b \in Block |-> prog[b].term.to]

Succs(b) == Graph[b]
Preds(b) == {p \in Block : \E i \in DOMAIN Succs(p) : Succs(p)[i] = b}

\* Sets of blocks that cannot be left but for d, and begin with the entry.
ClosedBut(d, S) ==
    /\ Entry \in S \cup {d}
    /\ \A b \in S : \A i \in DOMAIN Succs(b) : Succs(b)[i] \in S \cup {d}

\* The blocks the entry reaches without passing through d.
Avoiding(d) == {b \in Block : \A S \in SUBSET Block : ClosedBut(d, S) => b \in S}

Dominates(d, b) == b \notin Avoiding(d)

\* The depth-first search of FindFunctionBackedges: path is the stack of blocks,
\* next the number of the successor to be looked at for each.
BeginSearch ==
    [path |-> <<Entry>>, next |-> [b \in Block |-> 1], seen |-> {Entry}, found |-> {}]

SearchStep(w) ==
    IF w.path = <<>> THEN w
    ELSE LET b == w.path[Len(w.path)]
             s == Succs(b)[w.next[b]]
             onward == [w EXCEPT !.next[b] = @ + 1]
         IN IF w.next[b] > Len(Succs(b))
            THEN [w EXCEPT !.path = SubSeq(@, 1, Len(@) - 1)]
            ELSE IF s \notin w.seen
            THEN [onward EXCEPT !.path = Append(@, s), !.seen = @ \cup {s}]
            ELSE IF \E i \in DOMAIN w.path : w.path[i] = s
            THEN [onward EXCEPT !.found = @ \cup {<<b, s>>}]
            ELSE onward

\* Every block is entered and left once, every successor looked at once.
SearchLength == NumBlocks + Cardinality(UNION {{b} \X DOMAIN Succs(b) : b \in Block})

FindFunctionBackedges ==
    LET Search[n \in 0..SearchLength] ==
          IF n = 0 THEN BeginSearch ELSE SearchStep(Search[n - 1])
    IN Search[SearchLength].found

\* The natural loop of a header: what reaches an edge back to it within the
\* blocks it dominates.
LoopOf(h) ==
    LET Back(S) == S \cup UNION {Preds(b) : b \in S \ {h}}
        R[n \in Nat] ==
          IF n = 0 THEN {p \in Preds(h) : Dominates(h, p)} ELSE Back(R[n - 1])
    IN IF R[0] = {} THEN {} ELSE {h} \cup R[NumBlocks]

\* getLoopFor is the innermost loop of a block; the block leaves it if a
\* successor is outside.
isLoopExiting(b) ==
    \E h \in Block :
        /\ b \in LoopOf(h)
        /\ \A k \in Block : b \in LoopOf(k) => Dominates(k, h)
        /\ \E i \in DOMAIN Succs(b) : Succs(b)[i] \notin LoopOf(h)
=============================================================================
