---------------------------- MODULE LoadRewrite ----------------------------
(***************************************************************************)
(* LoadRewrite (src/src/LoadRewrite.cc): the loads of an address p that is  *)
(* a known base plus a constant are replaced by one volatile load behind    *)
(* the definition of the base, and by what is stored to p since, so that    *)
(* IntSat sees one value where the program reads the memory again.  Other   *)
(* writes, through calls or pointers that ScalarEvolution does not find     *)
(* equal to p, are not looked at.                                           *)
(*                                                                          *)
(* SSAUpdater is external.  Where it is asked for the value of the variable *)
(* it keeps, this is the one available at the end of the last block that    *)
(* has any: if that is the same block on all ways, it puts this value, and  *)
(* a phi node otherwise.  Once the pass is done, the function runs, as it   *)
(* was and as it is now side by side.                                       *)
(***************************************************************************)
EXTENDS Cfg, SequencesExt

CONSTANTS
    Name,     \* the values a function may name
    Val,      \* what the memory at p may hold; as operands, constants
    Programs  \* the functions looked at

None == <<>>

\* The load that the k-th call of hoist inserts, and the phi node in block b, or
\* above it, that merges what the variable of its SSAUpdater may hold there.
Hoisted(k) == <<"LoadV", k>>
Merged(k, b) == <<"phi", k, b>>

\* "base" defines the pointer, "basephi" as a phi node; if there is none it is an
\* argument or a global.  load, store: of p.  "clobber" writes to p unseen, "use"
\* shows its operand.  was is the operand before the pass, ops as it is now; those
\* of a phi are by the block it is entered from.
IsInstr(I) == I.op \in {"base", "basephi", "load", "store", "clobber", "phi", "use"}

IsFunction(f) ==
    /\ DOMAIN f = Block
    /\ \A b \in Block : \A j \in DOMAIN f[b].code : IsInstr(f[b].code[j])

ASSUME LoadRewriteAssumption ==
    /\ NumBlocks \in Nat \ {0}
    /\ \A x \in Name \cup Val : Len(x) = 1
    /\ \A f \in Programs : IsFunction(f)

VARIABLES
    bb, i,      \* where runOnFunction is
    scan,       \* the next block hoist() scans, 0 when it is not in hoist
    Available,  \* what each call of hoist has told its SSAUpdater, at the end of
                \* which block: an operand, or None; of a call that is over, what
                \* its phi nodes take from there
    at, pos,    \* the instruction the execution is at, 0 before it starts
    came,       \* the block it has come from
    mem,        \* what p points to: for the function as it was, as it is now
    val,        \* the values computed: as it was, as it is now
    ssa,        \* what the variable of each SSAUpdater held when a block was
                \* last entered
    older,      \* loads p has been stored to since ...
    left,       \* ... and the block has been left since that store
    exact       \* the pass has kept, so far, within what it can see

passVars == <<prog, bb, i, scan, Available>>
runVars == <<at, pos, came, mem, val, ssa, older, left, exact>>
vars == <<passVars, runVars>>

Code(b) == prog[b].code
Places == UNION {{<<b, j>> : j \in DOMAIN Code(b)} : b \in Block}
At(q) == Code(q[1])[q[2]]
IsPhi(I) == I.op = "phi"
IsBase(I) == I.op \in {"base", "basephi"}
Read(I) == IF IsPhi(I) THEN {I.ops[b] : b \in Block} ELSE {I.ops}

\* A load of p that may be rewritten: not volatile.
IsLoad(I) == I.op = "load" /\ ~I.vol

Defined(b) == {Code(b)[j].name : j \in DOMAIN Code(b)} \ {None}
Above(b) == UNION {Defined(d) : d \in {c \in Block : c # b /\ Dominates(c, b)}}

\* SSA: values are computed before they are used, the pointer first of all.
WellFormed ==
    /\ Preds(Entry) = {}
    /\ \A b \in Block : ~Dominates(0, b)
    /\ \A q, r \in Places : At(q).name = At(r).name /\ At(q).name # None => q = r
    /\ \A q \in Places :
         LET I == At(q)
             before == {Code(q[1])[k].name : k \in 1..(q[2] - 1)} \cup Above(q[1])
         IN IF IsPhi(I)
            THEN \A b \in Preds(q[1]) : I.ops[b] \in Val \cup Defined(b) \cup Above(b)
            ELSE /\ I.ops \in Val \cup before \cup {None}
                 /\ I.op \in {"load", "store"} =>
                      <<"p">> \in before \/ \A r \in Places : ~IsBase(At(r))

\* What LLVM demands of the phi nodes of a block: nothing else stands before one.
IsPhiNode(I) == I.op \in {"phi", "basephi"}
PhisAreFirst ==
    \A b \in Block : \A j, k \in DOMAIN Code(b) :
        j < k /\ IsPhiNode(Code(b)[k]) => IsPhiNode(Code(b)[j])

Hoists == DOMAIN Available
Operand ==
    Name \cup Val \cup {Hoisted(k) : k \in Hoists} \cup {Merged(k, b) : k \in Hoists, b \in Block}
Values == Name \cup {Hoisted(k) : k \in Hoists}

TypeOK ==
    /\ IsFunction(prog) /\ PhisAreFirst
    /\ bb \in 1..(NumBlocks + 1)
    /\ i \in 1..(IF bb \in Block THEN Len(Code(bb)) + 1 ELSE 1)
    /\ scan \in 0..(NumBlocks + 1)
    /\ Available \in Seq([Block -> Operand \cup {None}])
    /\ at \in 0..NumBlocks /\ came \in 0..NumBlocks
    /\ mem \in [{"was", "is"} -> Val]
    /\ val \in [{"was", "is"} -> [IF at = 0 THEN Name ELSE Values -> Val]]
    /\ ssa \in [IF at = 0 THEN {} ELSE Hoists -> [Block -> Val \cup {None}]]
    /\ left \subseteq older /\ older \subseteq Name
    /\ exact \in BOOLEAN

Init ==
    /\ prog \in Programs /\ WellFormed /\ PhisAreFirst
    /\ bb = 1 /\ i = 1 /\ scan = 0
    /\ Available = <<>>
    /\ at = 0 /\ pos = 1 /\ came = 0
    /\ \E v \in Val :
         /\ mem = [w \in {"was", "is"} |-> v]
         /\ val = [w \in {"was", "is"} |-> [x \in Name |-> v]]
    /\ ssa = <<>> /\ older = {} /\ left = {} /\ exact = TRUE

----------------------------------------------------------------------------
(* SSAUpdater *)

\* The blocks whose value is there when b is entered: the last ones that have any.
Nearest(k, b) ==
    LET Up(S) == S \cup UNION {Preds(c) : c \in {d \in S : Available[k][d] = None}}
        R[n \in 0..NumBlocks] == IF n = 0 THEN Preds(b) ELSE Up(R[n - 1])
    IN {c \in R[NumBlocks] : Available[k][c] # None}

GetValueAtEndOfBlock(k, b) ==
    IF Available[k][b] # None THEN Available[k][b]
    ELSE IF Cardinality(Nearest(k, b)) = 1
    THEN Available[k][CHOOSE c \in Nearest(k, b) : TRUE]
    ELSE Merged(k, b)

GetValueInMiddleOfBlock(k, b) ==
    LET above == {GetValueAtEndOfBlock(k, c) : c \in Preds(b)}
    IN IF Available[k][b] = None THEN GetValueAtEndOfBlock(k, b)
       ELSE IF Cardinality(above) = 1 THEN CHOOSE v \in above : TRUE
       ELSE Merged(k, b)

\* All operands, those of the phi nodes that SSAUpdater has put included.
Incoming(k, b) ==
    {IF Available[k][c] = None THEN Merged(k, c) ELSE Available[k][c] : c \in Preds(b)}

Used ==
    LET Grow(S) ==
          S \cup UNION {UNION {Incoming(k, b) : b \in {c \in Block : Merged(k, c) \in S}} :
                        k \in Hoists}
        R[n \in 0..(NumBlocks * Len(Available))] ==
          IF n = 0 THEN UNION {Read(At(q)) : q \in Places} ELSE Grow(R[n - 1])
    IN R[NumBlocks * Len(Available)]

HasUses(x) == x \in Used

----------------------------------------------------------------------------
(* runOnFunction and hoist *)

Current == Code(bb)[i]
Searching == scan = 0 /\ bb <= NumBlocks

Skip ==
    /\ Searching
    /\ IF i > Len(Code(bb)) THEN bb' = bb + 1 /\ i' = 1
       ELSE /\ ~IsLoad(Current) \/ ~HasUses(Current.name)
            /\ i' = i + 1 /\ UNCHANGED bb
    /\ UNCHANGED <<prog, scan, Available, runVars>>

LoadV(k) == [op |-> "load", name |-> Hoisted(k), vol |-> TRUE, was |-> None, ops |-> None]

\* Right behind the base's definition, or at the beginning of the entry: the
\* second form does not skip the phi nodes that come next.
BehindBase ==
    LET bases == {q \in Places : IsBase(At(q))}
    IN IF bases = {} THEN <<Entry, 1>>
       ELSE LET q == CHOOSE q \in bases : TRUE IN <<q[1], q[2] + 1>>

InsertionPoint ==
    <<BehindBase[1],
      Min({j \in BehindBase[2]..(Len(Code(BehindBase[1])) + 1) :
             j \in DOMAIN Code(BehindBase[1]) => ~IsPhiNode(Code(BehindBase[1])[j])})>>

\* The iterator stays at the load that is visited.
hoist ==
    /\ Searching /\ i <= Len(Code(bb))
    /\ IsLoad(Current) /\ HasUses(Current.name)
    /\ LET ip == InsertionPoint
       IN /\ prog' = [prog EXCEPT ![ip[1]].code = InsertAt(@, ip[2], LoadV(Len(Available) + 1))]
          /\ i' = i + (IF ip[1] = bb THEN 2 ELSE 1)
    /\ Available' = Append(Available, [b \in Block |-> None])
    /\ scan' = 1
    /\ UNCHANGED <<bb, runVars>>

This == Len(Available)

\* The walk over a block: V is what p holds as far as the block shows, subst
\* what the loads are replaced by.
\* It starts with nothing, or, mistaken, with what the block above has left.
BeforeCarried(b) == IF b = Entry THEN None ELSE Available[This][b - 1]

Before(b) == None

Walk(b) ==
    LET Visit(acc, I) ==
          LET ops == IF I.op = "store" /\ I.ops \in DOMAIN acc.subst
                     THEN acc.subst[I.ops] ELSE I.ops
          IN IF I.op = "store" THEN [acc EXCEPT !.V = ops]
             ELSE IF acc.V = None
             THEN IF I.name = Hoisted(This) THEN [acc EXCEPT !.V = I.name] ELSE acc
             ELSE IF IsLoad(I)
             THEN [acc EXCEPT !.subst = [x \in DOMAIN @ \cup {I.name} |->
                                           IF x = I.name THEN acc.V ELSE @[x]]]
             ELSE acc
    IN FoldLeft(Visit, [V |-> Before(b), subst |-> [x \in {} |-> None]], Code(b))

\* The operand that a use of x in block b has after a replacement.
Replaced(new, x, b) == IF <<x, b>> \in DOMAIN new THEN new[x, b] ELSE x

\* The uses of a phi are at the end of the blocks it is entered from, others in the
\* middle of theirs.
ReplaceUses(middle, end) ==
    [b \in Block |->
       [prog[b] EXCEPT !.code =
          [j \in DOMAIN Code(b) |->
             LET I == Code(b)[j]
             IN [I EXCEPT !.ops = IF IsPhi(I) THEN [c \in Block |-> Replaced(end, I.ops[c], c)]
                                  ELSE Replaced(middle, I.ops, b)]]]]

\* The phi nodes of earlier calls are among the uses; what this call has told
\* SSAUpdater is not.
ReplaceIncoming(end) ==
    [k \in Hoists |-> IF k = This THEN Available[k]
                      ELSE [b \in Block |-> Replaced(end, Available[k][b], b)]]

AddAvailableValue(map, b, V) == [map EXCEPT ![This][b] = V]

ScanBlock ==
    /\ scan \in Block
    /\ LET w == Walk(scan)
           new == [x \in DOMAIN w.subst, b \in Block |-> w.subst[x]]
       IN /\ prog' = ReplaceUses(new, new)
          /\ Available' = AddAvailableValue(ReplaceIncoming(new), scan, w.V)
    /\ scan' = scan + 1
    /\ UNCHANGED <<bb, i, runVars>>

\* The loads in the blocks up to the one that is visited, and all of them.
LoadsSoFar == {At(q).name : q \in {r \in Places : IsLoad(At(r)) /\ r[1] <= bb}}

Loads == {At(q).name : q \in {r \in Places : IsLoad(At(r))}}

\* What is left to SSAUpdater: every other use of a load of p.
RewriteUses ==
    /\ scan > NumBlocks
    /\ LET middle == [x \in Loads, b \in Block |-> GetValueInMiddleOfBlock(This, b)]
           end == [x \in Loads, b \in Block |-> GetValueAtEndOfBlock(This, b)]
       IN /\ prog' = ReplaceUses(middle, end)
          /\ Available' = ReplaceIncoming(end)
    /\ scan' = 0
    /\ UNCHANGED <<bb, i, runVars>>

----------------------------------------------------------------------------
(* An execution of both *)

Start ==
    /\ bb > NumBlocks /\ at = 0
    /\ at' = Entry
    /\ val' = [w \in {"was", "is"} |-> [x \in Values |-> mem[w]]]
    /\ ssa' = [k \in Hoists |-> [b \in Block |-> None]]
    /\ UNCHANGED <<passVars, pos, came, mem, older, left, exact>>

\* A phi node of SSAUpdater has kept what the variable held where it is.
Eval(w, x) ==
    IF x \in Val THEN x
    ELSE IF x \in Values THEN val[w][x]
    ELSE ssa[x[2]][x[3]]

Was(I) == IF IsPhi(I) THEN I.was[came] ELSE I.was
Is(I) == IF IsPhi(I) THEN I.ops[came] ELSE I.ops

Compute(x, was, is) ==
    val' = [val EXCEPT !.was[x] = was, !.is[x] = is]

\* The operand may be one the pass has mistaken for what p holds by now.
MayDiffer(I) == Was(I) \in left

\* base: p points to another place.  clobber: something else writes there.
Step ==
    /\ at # 0 /\ pos <= Len(Code(at))
    /\ LET I == Code(at)[pos] IN
         /\ CASE I.op = "load" -> Compute(I.name, mem.was, mem.is) /\ UNCHANGED mem
              [] I.op = "phi" ->
                   Compute(I.name, Eval("was", Was(I)), Eval("is", Is(I))) /\ UNCHANGED mem
              [] I.op = "store" ->
                   /\ mem' = [was |-> Eval("was", I.was), is |-> Eval("is", I.ops)]
                   /\ UNCHANGED val
              [] IsBase(I) \/ I.op = "clobber" ->
                   \E v \in Val : mem' = [was |-> v, is |-> v] /\ UNCHANGED val
              [] I.op = "use" -> UNCHANGED <<mem, val>>
         /\ older' = IF I.op = "store"
                     THEN Name \cap {At(q).name : q \in {r \in Places : At(r).op = "load"}}
                     ELSE older \ {I.name}
         /\ left' = left \ {I.name}
         /\ exact' = (exact /\ I.op # "clobber" /\ ~MayDiffer(I))
    /\ pos' = pos + 1
    /\ UNCHANGED <<passVars, at, came, ssa>>

Branch ==
    /\ at # 0 /\ pos > Len(Code(at))
    /\ \E k \in DOMAIN Succs(at) : at' = Succs(at)[k]
    /\ came' = at /\ pos' = 1
    /\ ssa' = [k \in Hoists |->
                [ssa[k] EXCEPT ![at'] = IF Available[k][at] = None THEN ssa[k][at]
                                        ELSE Eval("is", Available[k][at])]]
    /\ left' = left \cup older
    /\ UNCHANGED <<passVars, mem, val, older, exact>>

Return == at # 0 /\ pos > Len(Code(at)) /\ Succs(at) = <<>> /\ UNCHANGED vars

Next ==
    \/ Skip \/ hoist \/ ScanBlock \/ RewriteUses
    \/ Start \/ Step \/ Branch \/ Return

Spec == Init /\ [][Next]_vars

----------------------------------------------------------------------------
(* Properties *)

\* Every use of a loaded value, and every store of one, sees what it would have
\* seen, however often loops have defined the pointer anew; unless something
\* the pass does not look at has written to p, or the value was loaded before a
\* store whose block has been left since.
LoadsKeepTheirValue ==
    at # 0 /\ pos <= Len(Code(at)) =>
        LET I == Code(at)[pos]
        IN I.op \in {"use", "store", "phi"} /\ exact /\ ~MayDiffer(I) =>
              Eval("is", Is(I)) = Eval("was", Was(I))

\* The loads whose value the function stores back to p.
StoredBack == {x \in Loads : \E q \in Places : At(q).op = "store" /\ At(q).was = x}

\* However many loads of p there are, when the pass has ended nothing uses any but
\* those that are inserted and those whose value was stored back: SSAUpdater may
\* put these in the place of others.  Only they make the pass come back to p.
OnlyStoredLoadsStay ==
    /\ Len(Available) <= 1 + Cardinality(StoredBack)
    /\ bb > NumBlocks => \A x \in Loads : HasUses(x) => x \in StoredBack
=============================================================================
