--------------------------- MODULE MCLoadRewrite ---------------------------
(* Functions of four blocks that load p, store to it and use what they have *)
(* loaded, with p an argument or defined in a block of its own.             *)
EXTENDS LoadRewrite

N(x) == <<x>>
I(op, name, ops) == [op |-> op, name |-> name, vol |-> FALSE, was |-> ops, ops |-> ops]
Load(x) == I("load", N(x), None)
Volatile(x) == [Load(x) EXCEPT !.vol = TRUE]
Store(v) == I("store", None, N(v))
Use(v) == I("use", None, N(v))
Phi(x, v2, v3) == I("phi", N(x), <<N("0"), N(v2), N(v3), N("1")>>)
Base == I("base", N("p"), None)
BasePhi == I("basephi", N("p"), None)
Clobber == I("clobber", None, None)

MCName == {N(x) : x \in {"p", "x", "y", "z", "u", "v", "w"}}
MCVal == {N("0"), N("1")}

Codes(b) ==
    CASE b = 1 -> {<<>>, <<Base>>, <<Load("x"), Store("1"), Use("x")>>}
      [] b = 2 ->
           {<<>>, <<Base, Load("x")>>, <<Load("x"), Use("x")>>, <<Load("x"), Store("x")>>,
            <<Store("1"), Load("x"), Use("x")>>, <<Store("x")>>,
            <<Phi("z", "y", "y"), Load("x"), Store("z"), Use("x")>>,
            <<BasePhi, Phi("z", "y", "y"), Load("x"), Use("z")>>,
            <<Clobber, Load("x"), Use("x")>>}
      [] b = 3 ->
           {<<>>, <<Load("y")>>, <<Load("y"), Use("y"), Store("0")>>, <<Store("0"), Volatile("y"), Use("y")>>,
            <<Load("y"), Store("y")>>, <<Use("x"), Load("y"), Use("x")>>,
            <<Load("y"), Store("x"), Load("w"), Use("w")>>}
      [] b = 4 ->
           {<<Phi("v", "x", "y"), Use("v")>>, <<Load("u"), Use("u")>>, <<Use("x")>>}

Terms(b) ==
    CASE b = 1 -> {[to |-> <<2>>], [to |-> <<3, 2>>]}
      [] b = 2 -> {[to |-> <<3>>], [to |-> <<3, 4>>], [to |-> <<2, 3>>]}
      [] b = 3 -> {[to |-> <<4>>], [to |-> <<2, 4>>]}
      [] b = 4 -> {[to |-> <<>>]}

Blocks(b) == [code: Codes(b), term: Terms(b)]

MCPrograms ==
    {<<b1, b2, b3, b4>> : b1 \in Blocks(1), b2 \in Blocks(2), b3 \in Blocks(3), b4 \in Blocks(4)}
=============================================================================
