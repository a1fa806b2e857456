---------------------------- MODULE MCIntRewrite ----------------------------
(* Functions of four blocks: an operation a in one of the first three, what *)
(* may depend on it, and what may be observed of that.                      *)
EXTENDS IntRewrite

I(name, op, ops) == [name |-> <<name>>, op |-> op, ops |-> ops, nsw |-> FALSE, ptr |-> FALSE]
Phi(name, x2, x3, x) == I(name, "phi", <<x, x2, x3, x>>)

Adds(ops) == {I("a", "add", ops), [I("a", "add", ops) EXCEPT !.nsw = TRUE]}

Br(ts, ops) == [op |-> "br", to |-> ts, ops |-> ops]
Ret(ops) == [op |-> "ret", to |-> <<>>, ops |-> ops]

Codes(b) ==
    CASE b = 1 -> {<<>>} \cup {<<x>> : x \in Adds({})}
      [] b = 2 ->
           {<<>>, <<I("d", "shift", {<<"a">>})>>, <<I("e2", "effect", {<<"a">>})>>,
            <<I("d", "add", {<<"a">>})>>, <<I("d", "add", {<<"a">>}), I("e2", "div", {<<"d">>})>>}
             \cup {<<x>> : x \in Adds({})}
             \cup {<<Phi("p", {<<"a">>}, {<<"d">>}, {}), x>> : x \in Adds({<<"p">>})}
      [] b = 3 ->
           {<<>>, <<I("d", "plain", {<<"a">>})>>, <<I("d", "plain", {<<"p">>})>>,
            <<I("d", "add", {<<"a">>}), I("e3", "effect", {<<"d">>})>>,
            <<I("a", "add", {}), [I("d", "add", {<<"a">>}) EXCEPT !.ptr = TRUE]>>}
      [] b = 4 ->
           {<<>>, <<I("e4", "effect", {<<"a">>})>>, <<I("e4", "effect", {<<"d">>})>>,
            <<Phi("q", {<<"a">>}, {<<"d">>}, {}), I("e4", "effect", {<<"q">>})>>}

Terms(b) ==
    CASE b = 1 -> {Br(<<2>>, {}), Br(<<3, 2>>, {}), Br(<<4, 3>>, {})}
      [] b = 2 -> {Br(<<3>>, {}), Br(<<4>>, {}), Br(<<2, 4>>, {<<"a">>}), Br(<<3, 4>>, {})}
      [] b = 3 -> {Br(<<4>>, {}), Br(<<2>>, {}), Br(<<2, 4>>, {}), Br(<<2, 4>>, {<<"d">>})}
      [] b = 4 -> {Ret({}), Ret({<<"d">>})}

Blocks(b) == [code: Codes(b), term: Terms(b)]

MCPrograms ==
    {<<b1, b2, b3, b4>> : b1 \in Blocks(1), b2 \in Blocks(2), b3 \in Blocks(3), b4 \in Blocks(4)}
=============================================================================
