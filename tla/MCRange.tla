------------------------------ MODULE MCRange ------------------------------
(***************************************************************************)
(* Small instances of Range: two modules of one function each.              *)
(***************************************************************************)
EXTENDS RangeMeaning

MCStem == <<"a", "b">>

Gv(n, m, e, b) == [name |-> n, mod |-> m, ext |-> e, body |-> b]
f1 == Gv("f", 1, TRUE, TRUE)
g2 == Gv("g", 2, TRUE, TRUE)
argfn == Gv("kint_arg.i2", 2, TRUE, FALSE)
MCFns == {f1, g2, argfn}
MCOpaque == {argfn}

x == VarId(Gv("x", 1, TRUE, TRUE))
y == VarId(Gv("y", 1, TRUE, TRUE))
z == VarId(Gv("z", 2, TRUE, TRUE))
retp == [VarId(Gv("ops", 1, TRUE, TRUE)) EXCEPT !.kind = <<"ret", "var">>]
MCSourceIds == {z}

C(c, w) == [kind |-> "const", c |-> c, w |-> w]
V(b, i, w) == [kind |-> "instr", b |-> b, i |-> i, w |-> w]
Other == [kind |-> "other", w |-> 0]

Load(id, w) == [op |-> "load", w |-> w, id |-> id]
Store(id, v) == [op |-> "store", w |-> 0, id |-> id, val |-> v]
Return(v) == [op |-> "return", w |-> 0, val |-> v]
Bin(o, l, r) == [op |-> o, w |-> l.w, l |-> l, r |-> r]
Cast(o, v, w) == [op |-> o, w |-> w, val |-> v]
Select(t, f) == [op |-> "select", w |-> t.w, t |-> t, f |-> f]
CallOf(fs, id, w, args) ==
    [op |-> "call", w |-> w, id |-> id, retId |-> id, callees |-> fs,
     asm |-> FALSE, args |-> args]
ArgOf(f, n, w) ==
    [CallOf(<<argfn>>, ArgId(f, n), w, <<>>) EXCEPT !.retId = RetId(argfn)]

Ends == [op |-> "other"]
Branch(p, l, r, t, e) ==
    [op |-> "br", pred |-> p, l |-> l, r |-> r, cb |-> 1, then |-> t, else |-> e]
Block(ps, is, t) == [preds |-> ps, instrs |-> is, term |-> t]
Fn(f, bs, back) == [fn |-> f, blocks |-> bs, back |-> back]
Leaf(p, id, c, w) == [path |-> p, literal |-> FALSE, id |-> id, c |-> c, w |-> w]
Program(i1, c1, c2) == [init |-> <<i1, <<>>>>, code |-> <<c1, c2>>]

\* Straight-line code: values that go round through variables and returns.
Line1(a1, a2, a3) == <<Fn(f1, <<Block(<<>>, <<a1, a2, a3>>, Ends)>>, {})>>
Line2(b1, b2) == <<Fn(g2, <<Block(<<>>, <<b1, b2>>, Ends)>>, {})>>
MCPrograms ==
    {Program(<<Leaf(<<>>, x, 0, 2)>>, Line1(a1, a2, a3), Line2(b1, b2)) :
       a1 \in {Load(x, 2), Load(y, 2), CallOf(<<g2>>, RetId(g2), 2, <<C(1, 2)>>),
               CallOf(<<g2, argfn>>, retp, 2, <<Other, C(3, 2)>>)},
       a2 \in {Bin("add", V(1, 1, 2), C(1, 2)), Bin("sub", C(3, 2), V(1, 1, 2)),
               Bin("sdiv", V(1, 1, 2), V(1, 1, 2)), Select(V(1, 1, 2), C(2, 2))},
       a3 \in {Store(x, V(1, 2, 2)), Store(y, V(1, 2, 2)), Return(V(1, 2, 2)),
               CallOf(<<g2>>, RetId(g2), 2, <<V(1, 2, 2)>>)},
       b1 \in {Load(y, 2), Load(x, 2), CallOf(<<f1>>, RetId(f1), 2, <<>>)},
       b2 \in {Return(V(1, 1, 2)), Store(x, V(1, 1, 2))}}

\* Branches, switches, merges and loops, and the operators marked FIXME.
Body(i, t) == Block(<<1>>, i, t)
Entry(t) == Block(<<>>, <<Load(x, 2), Load(y, 2)>>, t)
Diamond(t, s, j) ==
    <<Fn(f1, <<Entry(t), Body(<<s>>, Ends), Block(<<1, 2>>, j, Ends)>>, {})>>
Merge(p, a, q, b) ==
    [op |-> "phi", w |-> 2,
     in |-> <<[pred |-> p, val |-> a], [pred |-> q, val |-> b]>>]
Phi(a, b) == Merge(1, a, 2, b)
Conditions ==
    {Branch(p, V(1, 1, 2), r, 2, 3) : p \in {"ult", "uge", "eq"}, r \in {C(1, 2), V(1, 2, 2)}}
      \cup {[op |-> "switch", val |-> V(1, 1, 2), default |-> d,
             cases |-> <<[c |-> 1, to |-> 2], [c |-> 2, to |-> 3]>>] : d \in {2, 3}}
BranchPrograms ==
    {Program(<<Leaf(<<"structs", "named">>, x, 0, 2), Leaf(p, z, 1, 2),
               Leaf(<<>>, y, 2, 2)>>,
             Diamond(t, s, <<Phi(V(1, 1, 2), u), Store(y, V(3, 1, 2))>>),
             Line2(Load(y, 2), Store(x, V(1, 1, 2)))) :
       t \in Conditions, u \in {V(2, 1, 2), C(3, 2)},
       p \in {<<"named">>, <<"named", "ints">>},
       s \in {Bin(o, V(1, 1, 2), C(3, 2)) : o \in {"add", "urem", "ashr"}}
               \cup {Load(z, 2), [op |-> "other", w |-> 2]}}

\* Two widths, and a loop over two blocks.
CastPrograms ==
    {Program(<<Leaf(<<"ints">>, x, 5, 3), Leaf(<<>>, y, 1, 2)>>,
             Line1(Load(x, 3), Cast("trunc", V(1, 1, 3), 2), Store(y, V(1, 2, 2))),
             Line2(Load(y, 2), b2)) : b2 \in {Return(Other), Return(V(1, 1, 2))}}
      \cup {Program(<<Leaf(<<>>, x, 3, 2)>>,
             Line1(Load(x, 2), Cast(o, V(1, 1, 2), 3), Store(y, V(1, 2, 3))),
             Line2(Load(y, 3), Store(z, V(1, 1, 3)))) : o \in {"zext", "sext"}}
LoopPrograms ==
    {Program(<<Leaf(<<>>, x, 0, 2)>>,
             <<Fn(f1, <<Block(<<>>, <<Load(x, 2)>>, Ends),
                        Block(<<1, 3>>, <<Merge(1, V(1, 1, 2), 3, a)>>, Ends),
                        Block(<<2>>, <<Bin("add", V(2, 1, 2), C(1, 2)), s>>, Ends)>>,
                  {<<3, 2>>})>>, <<>>) :
       a \in {V(3, 1, 2), C(3, 2)}, s \in {Store(y, V(3, 1, 2)), Return(V(2, 1, 2))}}

\* One identifier, of another width in each module.
MixedPrograms ==
    {Program(<<Leaf(<<>>, x, 1, w)>>,
             Line1(Load(x, 5 - w), Bin("add", V(1, 1, 5 - w), C(1, 5 - w)), Store(i, V(1, 2, 5 - w))),
             Line2(Load(i, w), Store(x, V(1, 1, w)))) : i \in {x, y}, w \in {2, 3}}

\* Indirect calls that have no identifier, and share its range.
NamelessPrograms ==
    {Program(<<Leaf(<<>>, x, 1, 2), Leaf(<<>>, y, 6, 3)>>,
             Line1(CallOf(<<g2>>, NoId, 2, <<>>), Load(y, 3), Return(V(1, 2, 3))),
             <<Fn(g2, <<Block(<<>>, <<Load(x, 2), CallOf(<<f1>>, NoId, 3, <<>>), s, Return(V(1, 1, 2))>>,
                              Ends)>>, {})>>) :
       s \in {Store(y, V(1, 2, 3)), Store(z, V(1, 2, 3))}}

\* A counter in a variable, over one module and over two.
WideCounter ==
    {Program(<<Leaf(<<>>, x, 0, 3)>>,
             Line1(Load(x, 3), Bin("add", V(1, 1, 3), C(1, 3)), Store(i, V(1, 2, 3))),
             Line2(Load(y, 3), Store(j, V(1, 1, 3)))) : i \in {x, y}, j \in {x, z}}

\* An argument that is stored.
ArgumentPrograms ==
    {Program(<<Leaf(<<>>, x, 0, 2)>>,
             Line1(Load(x, 2), Bin("add", V(1, 1, 2), C(1, 2)),
                   CallOf(<<g2>>, RetId(g2), 2, <<C(1, 2), V(1, 2, 2)>>)),
             Line2(ArgOf(g2, 1, 2), Store(y, V(1, 1, 2))))}

\* Initializers of every shape.
InitPrograms ==
    {Program(<<Leaf(p, x, 1, 2), Leaf(<<>>, y, 2, 2)>>,
             Line1(Load(x, 2), Load(y, 2), Return(V(1, 1, 2))), <<>>) :
       p \in {<<>>, <<"named">>, <<"anon">>, <<"structs", "named", "named">>, <<"ints">>,
              <<"data">>, <<"named", "ints">>, <<"array", "ints">>}}

AllPrograms ==
    MCPrograms \cup BranchPrograms \cup CastPrograms \cup LoopPrograms
      \cup MixedPrograms \cup NamelessPrograms \cup WideCounter \cup ArgumentPrograms \cup InitPrograms

=============================================================================
