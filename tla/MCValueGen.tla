----------------------------- MODULE MCValueGen -----------------------------
(* Integers of three and of four bits.  Every operation under two traps, and *)
(* every trap on a load, a constant and two operations, with every kind of   *)
(* range.                                                                    *)
EXTENDS ValueGen

Op(o) == [op |-> o]
Binaries ==
    {Op(o) : o \in {"add", "sub", "mul", "udiv", "sdiv", "urem", "srem",
                    "shl", "lshr", "ashr", "and", "or", "xor"}}
Others(w) ==
    {[op |-> "select", pred |-> p] : p \in {"eq", "ult", "ule", "slt", "sle"}}
      \cup {[op |-> o, k |-> k] : o \in {"zext", "sext"}, k \in {1, w - 1}}
      \cup [op: {"extractvalue"}, of: {"add", "sub", "mul"}, signed: BOOLEAN, index: {0, 1}]

Var(size) == [const |-> FALSE, c |-> 0, size |-> size]
Const(c, size) == [const |-> TRUE, c |-> c, size |-> size]
Geps(w) ==
    {[op |-> "gep", k |-> k, idx |-> i] : k \in {w - 1, w},
        i \in {<<Var(1)>>, <<Const(-1, 2), Var(3)>>, <<Const(0, 3), Var(2), Const(3, 1)>>}}

Overflow(op, nsw) == [kind |-> "overflow", op |-> op, nsw |-> nsw]
Div(signed) == [kind |-> "div", signed |-> signed]
Array(dims) == [kind |-> "array", dims |-> dims]
Shift == [kind |-> "shift"]
Size == [kind |-> "size"]
EveryTrap ==
    {Overflow(op, nsw) : op \in {"add", "sub", "mul"}, nsw \in BOOLEAN}
      \cup {Div(TRUE), Div(FALSE), Shift, Size}
      \cup {Array(<<NotArray, 2>>), Array(<<NotArray, 1>>), Array(<<3, 2>>)}

Metas(w) ==
    {{}, {<<0, 2>>}, {<<2, 0>>}, {<<1, 3>>}, {<<2^w - 2, 2>>}, {<<2, 2>>}}

P(w, ptr, op, args, trap, metas, others) ==
    [w: {w}, ptr: {ptr}, meta: metas, op: op, args: args, c: {0, 2, 2^w - 1},
     trap: trap, other: others]

MCPrograms ==
    UNION {
        P(w, 4, Binaries \cup Others(w), {<<"x", "y">>, <<"x", "x">>, <<"c", "y">>},
          {Div(TRUE), Array(<<NotArray, 2>>)}, {{}}, {"x"})
        \cup P(w, 4, {Op("bitcast"), Op("sub")}, {<<"x", "c">>, <<"x", "x">>},
               EveryTrap, Metas(w), {"x", "y"})
        \cup UNION {P(w, ptr, Geps(w), {<<"x", "p">>}, {Div(FALSE)}, {{}, {<<1, 3>>}}, {"x"})
                    : ptr \in {3, 4}}
        : w \in {3, 4}}
=============================================================================
