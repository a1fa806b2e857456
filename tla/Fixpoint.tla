------------------------------ MODULE Fixpoint ------------------------------
(***************************************************************************)
(* What an iterative whole-program analysis of intglobal promises.  The     *)
(* program under analysis is a set of rules, each deriving a conclusion     *)
(* from facts.  The analysis may apply rules in any order and grouping but  *)
(* it never retracts a fact, never invents one, and it may stop only when   *)
(* no rule derives anything new.  Hence what it stops with is the least set *)
(* of facts closed under the rules, whatever the order of modules,          *)
(* functions and instructions (CallGraphProofs).                            *)
(***************************************************************************)
VARIABLES
    rules,   \* the constraints of the program: fixed during the analysis
    facts,   \* what has been derived
    done     \* the analysis has stopped

vars == <<rules, facts, done>>

\* What one application of the rules derives from the facts X.
Consequences(R, X) == {r.con : r \in {q \in R : q.pre \subseteq X}}

Closed(R, X) == Consequences(R, X) \subseteq X

Init ==
    /\ facts = {}
    /\ done = FALSE

Derive ==
    /\ ~done
    /\ facts \subseteq facts'
    /\ facts' \subseteq facts \cup Consequences(rules, facts)
    /\ UNCHANGED <<rules, done>>

Stop ==
    /\ ~done
    /\ Closed(rules, facts)
    /\ done' = TRUE
    /\ UNCHANGED <<rules, facts>>

Next == Derive \/ Stop

Spec == Init /\ [][Next]_vars
=============================================================================
