------------------------------ MODULE MCIntSat ------------------------------
(***************************************************************************)
(* Small instances of IntSat: a function of three traps and one of one      *)
(* trap over two conditions, with queries that hang.                         *)
(***************************************************************************)
EXTENDS IntSat

CONSTANTS v1, v2

T(v, a) == [v |-> v, constant |-> FALSE, loc |-> TRUE, bug |-> TRUE, answer |-> a]

Pool(answers) ==
    {T(v, a) : v \in {v1, v2}, a \in answers}
      \cup {[T(v1, SMT_SAT) EXCEPT !.constant = TRUE], [T(v2, SMT_SAT) EXCEPT !.loc = FALSE],
            [T(v2, SMT_SAT) EXCEPT !.bug = FALSE]}

MCPrograms ==
    {<<<<a, b, c>>, <<T(v1, SMT_SAT)>>>> : a, b, c \in Pool({SMT_UNSAT, SMT_SAT, Hang})}
=============================================================================
