--------------------------- MODULE RangeMeaning ---------------------------
(***************************************************************************)
(* What the ranges of RangePass are about: the values that the instructions  *)
(* of a program may yield and its identifiers may hold.  They are defined    *)
(* independently of the pass, by the concrete operations of the program over *)
(* all its modules; branches restrict nothing here.                          *)
(***************************************************************************)
EXTENDS Range

CONSTANT Steps  \* how many rounds of operations are followed

ASSUME MeaningAssumption == Steps \in Nat

ProgSites == UNION {Sites(m) : m \in ModuleNo}
FunctionOf(s) == prog.code[s[1]][s[2]]
Leaves == UNION {{prog.init[m][n] : n \in DOMAIN prog.init[m]} : m \in ModuleNo}

\* A call of kint_arg.iN, which AnnotationPass puts where an argument is read:
\* getValueId gives it the identifier of the argument.
ReadsArgument(J) == J.op = "call" /\ J.id.kind = <<"arg">>

\* The identifiers an instruction reads or writes, each with the width of what
\* it holds.
UsesAt(s) ==
    LET J == At(s)
    IN CASE J.op = "store" /\ IsInt(J.val) /\ J.id # NoId -> {<<J.id, J.val.w>>}
         [] J.op = "return" /\ IsInt(J.val) -> {<<RetId(FunctionOf(s).fn), J.val.w>>}
         [] J.op = "load" /\ J.w > 0 -> {<<J.id, J.w>>}
         [] J.op = "call" ->
               (UNION {{<<ArgId(J.callees[n], j - 1), J.args[j].w>> :
                         j \in {i \in DOMAIN J.args : IsInt(J.args[i])}} :
                      n \in DOMAIN J.callees})
                 \cup (IF J.w = 0 THEN {}
                       ELSE {<<J.id, J.w>>, <<J.retId, J.w>>}
                              \cup {<<RetId(J.callees[n]), J.w>> : n \in DOMAIN J.callees})
         [] OTHER -> {}

Uses == {<<l.id, l.w>> : l \in Leaves} \cup UNION {UsesAt(s) : s \in ProgSites}

ProgIds == {u[1] : u \in Uses}

----------------------------------------------------------------------------
(* One round.  P.at holds the values each site may yield, P.held those each  *)
(* identifier may hold.                                                      *)

\* The values of v, an operand in the function of site s.
Of(P, s, v) ==
    IF v.kind = "const" THEN {v.c % 2^v.w} ELSE P.at[<<s[1], s[2], v.b, v.i>>]

OfId(P, id, w) == IF id \in SourceIds THEN Ring(w) ELSE P.held[id]

Signed(w, a) == IF a >= 2^(w - 1) THEN a - 2^w ELSE a
Abs(a) == IF a < 0 THEN -a ELSE a
Quotient(w, a, b) ==
    LET q == Abs(Signed(w, a)) \div Abs(Signed(w, b))
    IN (IF (Signed(w, a) < 0) = (Signed(w, b) < 0) THEN q ELSE -q) % 2^w

\* The sign of a, v bits wide, is copied to the high ones of w bits.
SignExtended(v, w, a) == IF a < 2^(v - 1) THEN a ELSE a + (2^w - 2^v)

\* The operands of a phi that do not come over a back edge.
Entering(s) ==
    {n \in DOMAIN At(s).in : <<At(s).in[n].pred, s[3]>> \notin FunctionOf(s).back}

Computed(P, s) ==
    LET J == At(s)
        of(v) == Of(P, s, v)
    IN IF J.w = 0 THEN {} ELSE
       CASE J.op = "add" -> {(a + b) % 2^J.w : a \in of(J.l), b \in of(J.r)}
         [] J.op = "sub" -> {(a - b) % 2^J.w : a \in of(J.l), b \in of(J.r)}
         [] J.op = "sdiv" -> {Quotient(J.w, a, b) : a \in of(J.l), b \in of(J.r) \ {0}}
         [] J.op \in {"trunc", "zext"} -> {a % 2^J.w : a \in of(J.val)}
         [] J.op = "sext" -> {SignExtended(J.val.w, J.w, a) : a \in of(J.val)}
         [] J.op = "select" -> of(J.t) \cup of(J.f)
         [] J.op = "phi" -> UNION {of(J.in[n].val) : n \in Entering(s)}
         [] J.op = "load" -> OfId(P, J.id, J.w)
         [] J.op = "call" ->
               IF J.asm THEN {}
               ELSE IF ReadsArgument(J) THEN OfId(P, J.id, J.w)
               ELSE UNION {OfId(P, RetId(J.callees[n]), J.w) : n \in DOMAIN J.callees}
         [] OTHER -> Ring(J.w)

Written(P, s) ==
    LET J == At(s) IN
    CASE J.op = "store" /\ IsInt(J.val) /\ J.id # NoId -> {J.id} \X Of(P, s, J.val)
      [] J.op = "return" /\ IsInt(J.val) -> {RetId(FunctionOf(s).fn)} \X Of(P, s, J.val)
      [] J.op = "call" /\ ~J.asm ->
            UNION {UNION {{ArgId(J.callees[n], j - 1)} \X Of(P, s, J.args[j]) :
                          j \in {i \in DOMAIN J.args : IsInt(J.args[i])}} :
                   n \in {i \in DOMAIN J.callees : J.callees[i] \notin Opaque}}
      [] OTHER -> {}

\* What P becomes when every instruction is executed once more, those outside
\* of sites without a result.
Extended(P, sites) ==
    LET W == UNION {Written(P, s) : s \in ProgSites}
    IN [at |-> [s \in ProgSites |->
                  P.at[s] \cup IF s \in sites THEN Computed(P, s) ELSE {}],
        held |-> [x \in ProgIds |-> P.held[x] \cup {p[2] : p \in {q \in W : q[1] = x}}]]

\* Before the first round there are the initializers that are collected.
Initial ==
    [at |-> [s \in ProgSites |-> {}],
     held |-> [x \in ProgIds |->
                 {l.c % 2^l.w : l \in {k \in Leaves : k.id = x /\ Collected(k)}}]]

Reached(sites) ==
    LET after[n \in 0..Steps] == IF n = 0 THEN Initial ELSE Extended(after[n - 1], sites)
    IN after[Steps]

----------------------------------------------------------------------------
(* What the pass relies on *)

\* Block d is on every way from the entry to block b: no way leads into a set
\* that only d leads into.
Dominates(f, d, b) ==
    \E S \in SUBSET DOMAIN f.blocks :
        /\ b \in S
        /\ \A c \in S \ {d} :
              c # 1 /\ \A n \in DOMAIN f.blocks[c].preds : f.blocks[c].preds[n] \in S

\* A value that is there before instruction i of block b, and at its end.
AvailableAt(f, v, b, i) ==
    v.kind = "instr" =>
        (v.b = b /\ v.i < i) \/ (v.b # b /\ Dominates(f, v.b, b))

AvailableAfter(f, v, b) == v.kind = "instr" => Dominates(f, v.b, b)

\* The values an instruction that is no phi reads.
Reads(J) ==
    CASE J.op \in {"store", "return", "trunc", "zext", "sext"} -> {J.val}
      [] J.op \in {"add", "sub", "sdiv", "urem", "srem", "ashr", "xor"} -> {J.l, J.r}
      [] J.op = "select" -> {J.t, J.f}
      [] J.op = "call" -> {J.args[n] : n \in DOMAIN J.args}
      [] OTHER -> {}

\* LLVM's rules: a value is made before it is used.
Verified(f) ==
    \A b \in DOMAIN f.blocks :
        LET B == f.blocks[b] IN
        /\ b = 1 => B.preds = <<>>
        /\ \A i \in DOMAIN B.instrs :
             /\ \A v \in Reads(B.instrs[i]) : AvailableAt(f, v, b, i)
             /\ B.instrs[i].op = "phi" =>
                  \A n \in DOMAIN B.instrs[i].in :
                     LET e == B.instrs[i].in[n]
                     IN /\ \E k \in DOMAIN B.preds : B.preds[k] = e.pred
                        /\ AvailableAfter(f, e.val, e.pred)
        /\ B.term.op = "br" =>
             /\ Dominates(f, B.term.cb, b)
             /\ AvailableAfter(f, B.term.l, B.term.cb)
             /\ AvailableAfter(f, B.term.r, B.term.cb)
        /\ B.term.op = "switch" => AvailableAfter(f, B.term.val, b)

\* The blocks are visited as they are listed, once: only back edges may lead
\* to an earlier block, and every block but the entry has another edge.
Listed(f) ==
    \A b \in DOMAIN f.blocks :
        LET ps == f.blocks[b].preds IN
        /\ \A n \in DOMAIN ps : ps[n] < b \/ <<ps[n], b>> \in f.back
        /\ b = 1 \/ \E n \in DOMAIN ps : <<ps[n], b>> \notin f.back

\* An identifier holds values of one width, and a call has the identifier of
\* what is returned, unless it reads an argument.
Identified ==
    /\ \A u, v \in Uses : u[1] = v[1] /\ u[1] # NoId => u[2] = v[2]
    /\ \A s \in ProgSites :
         At(s).op = "call" => At(s).id = At(s).retId \/ ReadsArgument(At(s))

Regular ==
    /\ Identified
    /\ \A m \in ModuleNo : \A n \in DOMAIN prog.code[m] :
         Verified(prog.code[m][n]) /\ Listed(prog.code[m][n])

\* The pass does not claim to cover the operators marked FIXME, and knows
\* nothing of a place without an identifier.
Claimed(s) ==
    /\ At(s).op \notin {"urem", "srem", "ashr", "xor"}
    /\ At(s).op = "load" => At(s).id # NoId

\* Chains are followed but through the reading of an argument: its range is
\* asked for under the identifier of what the call of kint_arg returns.
Produced == Reached({s \in ProgSites : Claimed(s) /\ ~ReadsArgument(At(s))})

InRanges(P) ==
    \A x \in ProgIds \ {NoId} : P.held[x] # {} =>
        x \in DOMAIN IntRanges /\ P.held[x] \subseteq IntRanges[x].s

----------------------------------------------------------------------------
(* Properties *)

\* When the analysis ends, whatever any chain of stores, loads, calls, returns
\* and arithmetic over all the modules may leave in an identifier is in its
\* range; chains over back edges or through the reading of an argument aside.
RangesAreSound == phase = "done" /\ Regular => InRanges(Produced)

\* The range written on a load or a call holds of every value it may yield,
\* unless it reads a taint source: intck drops what lies outside.
MetadataIsSound ==
    phase = "done" /\ Regular =>
        \A s \in DOMAIN Meta :
            At(s).id \in SourceIds \/ Computed(Produced, s) \subseteq Meta[s].s
=============================================================================
