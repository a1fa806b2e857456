---------------------------- MODULE MCCallGraph ----------------------------
(* Small instances of CallGraph: two modules that share one function.        *)
EXTENDS CallGraph

MCStem == <<"a", "b">>

Gv(n, m, e, b) == [name |-> n, mod |-> m, ext |-> e, body |-> b]

\* Module 1 defines f, declares h and keeps g to itself; module 2 defines h
\* and declares f.
f1 == Gv("f", 1, TRUE, TRUE)
g1 == Gv("g", 1, FALSE, TRUE)
h1 == Gv("h", 1, TRUE, FALSE)
h2 == Gv("h", 2, TRUE, TRUE)
f2 == Gv("f", 2, TRUE, FALSE)
MCFns == {f1, g1, h1, h2, f2}

p == VarId(Gv("p", 1, TRUE, TRUE))
q == VarId(Gv("q", 1, TRUE, TRUE))
s0 == StructId([name |-> "s", anon |-> FALSE], 1, 0)

Fn(f) == [op |-> "fn", fn |-> f]
Arg(f, n) == [op |-> "arg", fn |-> f, no |-> n]
Ret(f) == [op |-> "ret", fn |-> f]
Load(i) == [op |-> "load", id |-> i]
Null == [op |-> "const"]

Store(i, v) == [op |-> "store", fp |-> TRUE, id |-> i, val |-> v]
Return(f, v) == [op |-> "return", fp |-> TRUE, fn |-> f, val |-> v]
Call(c, as) == [op |-> "call", skip |-> FALSE, callee |-> c, args |-> as]
Op(v) == [fp |-> TRUE, val |-> v]

\* Module 1 calls through q, stores what f is given, and copies between the
\* variables and the struct field; module 2 calls f, returns from h and writes
\* the struct field and q.
Pool1 == {Call({Load(q)}, <<Op({Fn(g1)}), Op({Load(p)})>>),
          Store(q, {Load(s0), Null}),
          Store(p, {Arg(f1, 0), Ret(h1)}),
          Call({Fn(h1)}, <<[fp |-> FALSE, val |-> {Null}], Op({Fn(f1)})>>),
          [op |-> "store", fp |-> FALSE, id |-> p, val |-> {Null}]}
Pool2 == {Call({Fn(f2)}, <<Op({Fn(h2), Load(p)})>>),
          Return(h2, {Arg(h2, 1), Load(q)}),
          Store(s0, {Fn(f2), Load(p)}),
          Store(q, {Fn(f2)}),
          [op |-> "return", fp |-> FALSE, fn |-> h2, val |-> {}],
          [op |-> "call", skip |-> TRUE, callee |-> {[op |-> "icall"]}, args |-> <<>>]}

Upto(S, n) == UNION {[1..i -> S] : i \in 0..n}

MCInit ==
    { << {}, {} >>,
      << {[path |-> <<"structs", "named">>, id |-> s0, fn |-> f1, cast |-> FALSE],
          [path |-> <<"literal">>, id |-> p, fn |-> g1, cast |-> FALSE]},
         {[path |-> <<>>, id |-> q, fn |-> h2, cast |-> FALSE],
          [path |-> <<>>, id |-> p, fn |-> g1, cast |-> TRUE]} >> }

MCPrograms == [init: MCInit, code: {<<a, b>> : a \in Upto(Pool1, 2), b \in Upto(Pool2, 2)}]
=============================================================================
