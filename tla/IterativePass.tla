--------------------------- MODULE IterativePass ---------------------------
(***************************************************************************)
(* IterativeModulePass::run (src/src/IntGlobal.cc), the driver CallGraphPass,*)
(* TaintPass and RangePass run under: doInitialization on every module, then *)
(* sweeps of doModulePass over all modules until a whole sweep reports that  *)
(* nothing changed, then doFinalization on every module.  A pass EXTENDS     *)
(* this module and conjoins its own work to these actions.                   *)
(***************************************************************************)
EXTENDS Ids

VARIABLES
    phase,    \* the loop of run() that is executing
    mod,      \* the module iterator of that loop, NumModules + 1 at its end
    changed   \* how many modules this sweep has changed

driverVars == <<phase, mod, changed>>

Phase == {"init", "pass", "final", "done"}

DriverTypeOK ==
    /\ phase \in Phase
    /\ mod \in 1..(NumModules + 1)
    /\ changed \in Nat

DriverInit == phase = "init" /\ mod = 1 /\ changed = 1

\* One iteration of the loops around doInitialization and doFinalization.
ForModule(p) ==
    /\ phase = p
    /\ mod <= NumModules
    /\ mod' = mod + 1
    /\ UNCHANGED <<phase, changed>>

\* The driver is inside doModulePass of module mod.
InModulePass == phase = "pass" /\ mod <= NumModules

\* A driver that forgets to count the module as changed.
EndModulePassUncounted(r) ==
    /\ InModulePass
    /\ mod' = mod + 1
    /\ UNCHANGED <<phase, changed>>

\* A driver that counts every module as changed.
EndModulePassCounted(r) ==
    /\ InModulePass
    /\ mod' = mod + 1
    /\ changed' = changed + 1
    /\ UNCHANGED phase

\* doModulePass returned r.
EndModulePass(r) ==
    /\ InModulePass
    /\ mod' = mod + 1
    /\ changed' = IF r THEN changed + 1 ELSE changed
    /\ UNCHANGED phase

\* while (changed): another sweep over all modules.
BeginSweep ==
    /\ phase \in {"init", "pass"}
    /\ mod > NumModules
    /\ changed # 0
    /\ phase' = "pass" /\ mod' = 1 /\ changed' = 0

\* A sweep changed nothing: postprocessing.
BeginFinal ==
    /\ phase = "pass"
    /\ mod > NumModules
    /\ changed = 0
    /\ phase' = "final" /\ mod' = 1
    /\ UNCHANGED changed

Finish ==
    /\ phase = "final"
    /\ mod > NumModules
    /\ phase' = "done"
    /\ UNCHANGED <<mod, changed>>
=============================================================================
