------------------------------ MODULE MCCmpSat ------------------------------
(* All functions of four blocks over three values: x is read in the entry,  *)
(* y is a phi of block 2, z is read in block 3.                             *)
EXTENDS CmpSat, TLC

Br(t) == [op |-> "br", to |-> <<t>>]
If(v, c, t, f) == [op |-> "condbr", v |-> v, c |-> c, to |-> <<t, f>>]
Switch(v, cs, ts) == [op |-> "switch", v |-> v, cases |-> cs, to |-> ts]
Ret == [op |-> "ret", to |-> <<>>]

Pairs == {<<2, 3>>, <<3, 4>>, <<4, 2>>, <<3, 2>>}

Terms(b) ==
    CASE b = 1 ->
           {Br(2), Br(3)} \cup {If("x", 0, t[1], t[2]) : t \in Pairs}
             \cup {Switch("x", <<0>>, <<4, 2>>), Switch("x", <<0, 1>>, <<2, 3, 4>>),
                   Switch("x", <<0, 1>>, <<4, 2, 2>>),
                   [op |-> "indirectbr", to |-> <<2, 3>>]}
      [] b = 2 ->
           {Br(3), Br(4), If("x", 1, 4, 3)} \cup {If("y", 0, t[1], t[2]) : t \in Pairs}
      [] b = 3 ->
           {Br(2), Br(4), If("y", 1, 2, 4), If("x", 0, 2, 4)}
             \cup {If("z", 0, t[1], t[2]) : t \in Pairs}
      [] b = 4 -> {Ret, Br(2), Br(3)}

Const(c) == [op |-> "const", c |-> c]
Vr(v) == [op |-> "var", v |-> v]
Phi(back) == "y" :> <<Const(0), Vr("y"), back, [op |-> "any"]>>

NoPhi == [x \in {} |-> {}]

MCPrograms ==
    {<<[phis |-> NoPhi, defs |-> {"x"}, term |-> t1],
       [phis |-> Phi(back), defs |-> {}, term |-> t2],
       [phis |-> NoPhi, defs |-> {"z"}, term |-> t3],
       [phis |-> NoPhi, defs |-> {}, term |-> t4]>> :
     t1 \in Terms(1), t2 \in Terms(2), t3 \in Terms(3), t4 \in Terms(4),
     back \in {Const(1), Vr("z")}}
=============================================================================
