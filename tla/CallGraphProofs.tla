-------------------------- MODULE CallGraphProofs --------------------------
(***************************************************************************)
(* Proofs about CallGraph: its type invariant, and that the pass leaves the  *)
(* driver's loop only at a fixpoint, for any number of modules, any          *)
(* functions and any program.                                               *)
(***************************************************************************)
EXTENDS CallGraph, TLAPS

----------------------------------------------------------------------------
(* Identifiers *)

\* The qualifier of a global value's identifiers is a stem or none.
LEMMA ScopeStemType ==
    ASSUME NEW gv \in GlobalValue
    PROVE  ScopeStem(gv) \in STRING \cup {NoStem}
<1>1. gv.mod \in 1..NumModules
  BY DEF GlobalValue, ModuleNo
<1>2. Stem[gv.mod] \in STRING
  BY <1>1, IdsAssumption
<1> QED
  BY <1>2 DEF ScopeStem

\* An argument identifier is an identifier, for any argument number.
LEMMA ArgIdType ==
    ASSUME NEW f \in GlobalValue, NEW n \in Nat
    PROVE  ArgId(f, n) \in Id
<1>1. ScopeStem(f) \in STRING \cup {NoStem}
  BY ScopeStemType
<1>2. <<"arg">> \in Seq({"var", "arg", "ret", "struct"})
  OBVIOUS
<1> QED
  BY <1>1, <1>2 DEF ArgId, Id, GlobalValue

\* So is a return identifier.
LEMMA RetIdType ==
    ASSUME NEW f \in GlobalValue
    PROVE  RetId(f) \in Id
<1>1. ScopeStem(f) \in STRING \cup {NoStem}
  BY ScopeStemType
<1>2. <<"ret">> \in Seq({"var", "arg", "ret", "struct"})
  OBVIOUS
<1> QED
  BY <1>1, <1>2 DEF RetId, Id, GlobalValue

----------------------------------------------------------------------------
(* The driver *)

\* The loops around doInitialization and doFinalization.
LEMMA ForModuleType ==
    ASSUME DriverTypeOK, NEW p, ForModule(p)
    PROVE  DriverTypeOK' /\ mod \in ModuleNo /\ phase' = phase /\ phase = p
  BY IdsAssumption DEF DriverTypeOK, ForModule, ModuleNo

\* The driver's own steps start from the end of a loop.
LEMMA DriveType ==
    ASSUME DriverTypeOK, BeginSweep \/ BeginFinal \/ Finish
    PROVE  DriverTypeOK' /\ mod > NumModules
<1>1. CASE BeginSweep
  BY <1>1, IdsAssumption DEF BeginSweep, DriverTypeOK, Phase
<1>2. CASE BeginFinal
  BY <1>2, IdsAssumption DEF BeginFinal, DriverTypeOK, Phase
<1>3. CASE Finish
  BY <1>3 DEF Finish, DriverTypeOK, Phase
<1> QED
  BY <1>1, <1>2, <1>3

----------------------------------------------------------------------------
(* Values *)

\* findFunctions returns Function objects of the loaded modules.
LEMMA FindFunctionsType ==
    ASSUME TypeOK, NEW val \in SUBSET Leaf
    PROVE  findFunctions(val) \subseteq Fns
<1>1. \A v \in Leaf : v.op = "fn" => v.fn \in Fns
  BY DEF Leaf
<1>2. \A f \in Fns : Resolve(f) \in Fns
  BY DEF Resolve, TypeOK
<1>3. \A v \in Leaf : LeafFunctions(v) \subseteq Fns
  BY <1>1, <1>2 DEF LeafFunctions, Held
<1> QED
  BY <1>3 DEF findFunctions

\* The instruction the pass stands at is an instruction of the program.
LEMMA CurrentType ==
    ASSUME TypeOK, InModulePass, k <= Len(Code)
    PROVE  /\ Code \in Seq(Instr)
           /\ k \in DOMAIN Code
           /\ Current \in Instr
<1>1. mod \in ModuleNo
  BY IdsAssumption DEF TypeOK, DriverTypeOK, InModulePass, ModuleNo
<1>2. prog.code \in [ModuleNo -> Seq(Instr)]
  BY CallGraphAssumption DEF TypeOK, Program
<1>3. Code \in Seq(Instr)
  BY <1>1, <1>2 DEF Code
<1>4. k \in 1..Len(Code)
  BY <1>3 DEF TypeOK
<1> QED
  BY <1>3, <1>4 DEF Current

----------------------------------------------------------------------------
(* Type correctness *)

TypeInv == TypeOK /\ CallInProgress

\* The initial states.
LEMMA TypeInvInit == Init => TypeInv
<1> SUFFICES ASSUME Init PROVE TypeInv
  OBVIOUS
<1>1. DriverTypeOK
  BY IdsAssumption DEF Init, DriverInit, DriverTypeOK, Phase
<1>2. CallInProgress
  BY DEF Init, CallInProgress
<1>3. /\ DOMAIN Funcs \subseteq {f.name : f \in Fns}
      /\ \A n \in DOMAIN Funcs : Funcs[n] \in Fns
      /\ \A s \in DOMAIN Callees : Callees[s] \subseteq Fns
  BY DEF Init
<1>4. FuncPtrs \subseteq Id \X Fns /\ FS \subseteq Fns
  BY DEF Init
<1>5. k \in Nat \ {0} /\ no \in Nat
  BY DEF Init
<1>b. Changed \in BOOLEAN /\ ret \in BOOLEAN
  BY Zenon DEF Init
<1>6. prog \in Programs
  BY DEF Init
<1>7. TypeOK
  BY <1>1, <1>3, <1>4, <1>5, <1>b, <1>6 DEF TypeOK
<1> QED
  BY <1>2, <1>7 DEF TypeInv

\* At the end of a module, and between modules, no call is being visited.
LEMMA IdleAtEnd ==
    ASSUME TypeInv, AtEnd \/ mod > NumModules
    PROVE  FS = {}
<1>1. CASE AtEnd
  <2> SUFFICES ASSUME FS # {} PROVE FALSE
    OBVIOUS
  <2>1. InModulePass /\ k <= Len(Code)
    BY DEF TypeInv, CallInProgress
  <2>2. Code \in Seq(Instr) /\ k \in Nat
    BY <2>1, CurrentType DEF TypeInv, TypeOK
  <2> QED
    BY <1>1, <2>1, <2>2 DEF AtEnd
<1>2. CASE mod > NumModules
  BY <1>2, IdsAssumption
  DEF TypeInv, TypeOK, DriverTypeOK, CallInProgress, InModulePass
<1> QED
  BY <1>1, <1>2

\* Every step of the pass and of the driver keeps the types.
LEMMA TypeInvStep == TypeInv /\ [Next]_vars => TypeInv'
<1> SUFFICES ASSUME TypeInv, [Next]_vars
             PROVE  TypeInv'
  OBVIOUS
<1> USE DEF driverVars, passVars
<1>a. TypeOK
  BY DEF TypeInv
<1>1. CASE doInitialization
  <2>1. mod \in ModuleNo /\ DriverTypeOK'
    BY <1>1, <1>a, IdsAssumption
    DEF doInitialization, ForModule, TypeOK, DriverTypeOK, ModuleNo
  <2>2. prog.init[mod] \in SUBSET InitLeaf
    BY <1>a, <2>1, CallGraphAssumption DEF TypeOK, Program
  <2>3. InitialFacts(prog, mod) \subseteq Id \X Fns
    BY <2>2 DEF InitialFacts, InitLeaf
  <2>4. /\ DOMAIN Funcs' \subseteq {f.name : f \in Fns}
        /\ \A n \in DOMAIN Funcs' : Funcs'[n] \in Fns
    BY <1>1, <1>a DEF doInitialization, ExternalDefinitions, TypeOK
  <2>5. FS' = {}
    BY <1>1 DEF doInitialization, ForModule, TypeInv, CallInProgress, InModulePass
  <2> QED
    BY <1>1, <1>a, <2>1, <2>3, <2>4, <2>5
    DEF doInitialization, TypeInv, TypeOK, CallInProgress
<1>2. CASE VisitStore
  <2>1. Current.id \in Id /\ Current.val \in SUBSET Leaf
    BY <1>2, <1>a, CurrentType DEF VisitStore, At, Instr
  <2>2. FuncPtrs' \subseteq Id \X Fns
    BY <1>2, <1>a, <2>1, FindFunctionsType DEF VisitStore, Merge, TypeOK
  <2> QED
    BY <1>2, <1>a, <2>2
    DEF VisitStore, At, Merge, NextInstruction, TypeInv, TypeOK, DriverTypeOK,
        CallInProgress
<1>3. CASE VisitReturn
  <2>1. Current.fn \in Fns /\ Current.val \in SUBSET Leaf
    BY <1>3, <1>a, CurrentType DEF VisitReturn, At, Instr
  <2>2. FuncPtrs' \subseteq Id \X Fns
    BY <1>3, <1>a, <2>1, RetIdType, FindFunctionsType, CallGraphAssumption
    DEF VisitReturn, Merge, TypeOK
  <2> QED
    BY <1>3, <1>a, <2>2
    DEF VisitReturn, At, Merge, NextInstruction, TypeInv, TypeOK, DriverTypeOK,
        CallInProgress
<1>4. CASE VisitCall
  <2>1. Current \in Instr /\ Current.op = "call" /\ Current' = Current
    BY <1>4, <1>a, CurrentType DEF VisitCall, At, Current, Code
  <2>2. Current.callee \in SUBSET Leaf /\ Current.args \in Seq(Operand)
    BY <2>1 DEF Instr
  <2>3. FS' \subseteq Fns
    BY <1>4, <1>a, <2>2, FindFunctionsType DEF VisitCall
  <2>4. TypeOK'
    BY <1>4, <1>a, <2>3 DEF VisitCall, TypeOK, DriverTypeOK
  <2>5. 0 <= Len(Current.args)
    BY <2>2
  <2> QED
    BY <1>4, <2>1, <2>4, <2>5
    DEF VisitCall, At, TypeInv, CallInProgress, InModulePass, Code
<1>5. CASE VisitArgument
  <2>1. Current \in Instr /\ Current.op = "call" /\ ~Current.skip
    BY <1>5, <1>a, CurrentType DEF VisitArgument, TypeInv, CallInProgress
  <2>2. Current.args \in Seq(Operand)
    BY <2>1 DEF Instr
  <2>3. Current.args[no + 1] \in Operand
    BY <1>5, <1>a, <2>2 DEF VisitArgument, TypeOK
  <2>4. Current.args[no + 1].val \in SUBSET Leaf
    BY <2>3 DEF Operand
  <2>5. {ArgId(f, no) : f \in FS} \subseteq Id
    BY <1>a, ArgIdType, CallGraphAssumption DEF TypeOK
  <2>6. findFunctions(Current.args[no + 1].val) \subseteq Fns
    BY <1>a, <2>4, FindFunctionsType
  <2>7. FuncPtrs' \subseteq Id \X Fns /\ Changed' \in BOOLEAN
    BY <1>5, <1>a, <2>5, <2>6 DEF VisitArgument, Merge, TypeOK
  <2>8. TypeOK' /\ no + 1 <= Len(Current.args)
    BY <1>5, <1>a, <2>2, <2>7 DEF VisitArgument, TypeOK, DriverTypeOK
  <2> QED
    BY <1>5, <2>8
    DEF VisitArgument, TypeInv, CallInProgress, InModulePass, Code, Current
<1>6. CASE EndCall
  BY <1>6, <1>a DEF EndCall, TypeInv, TypeOK, DriverTypeOK, CallInProgress
<1>7. CASE Skip
  BY <1>7, <1>a
  DEF Skip, At, NextInstruction, TypeInv, TypeOK, DriverTypeOK, CallInProgress
<1>8. CASE SweepAgain
  <2>1. FS = {}
    BY <1>8, IdleAtEnd DEF SweepAgain
  <2>2. Changed' \in BOOLEAN /\ ret' \in BOOLEAN
    BY <1>8, Zenon DEF SweepAgain
  <2> QED
    BY <1>8, <1>a, <2>1, <2>2
    DEF SweepAgain, TypeInv, TypeOK, DriverTypeOK, CallInProgress
<1>9. CASE ReturnFromModule
  <2>1. FS = {}
    BY <1>9, IdleAtEnd DEF ReturnFromModule
  <2>2. Changed' \in BOOLEAN /\ ret' \in BOOLEAN
    BY <1>9, <1>a, Zenon DEF ReturnFromModule, TypeOK
  <2>3. DriverTypeOK'
    BY <1>9, <1>a, IdsAssumption
    DEF ReturnFromModule, AtEnd, InModulePass, EndModulePass, TypeOK, DriverTypeOK
  <2> QED
    BY <1>9, <1>a, <2>1, <2>2, <2>3
    DEF ReturnFromModule, TypeInv, TypeOK, CallInProgress
<1>10. CASE doFinalization
  <2>1. mod \in ModuleNo /\ DriverTypeOK' /\ FS = {}
    BY <1>10, <1>a, IdsAssumption
    DEF doFinalization, ForModule, TypeInv, TypeOK, DriverTypeOK, ModuleNo,
        CallInProgress, InModulePass
  <2>2. \A s \in CallSites(mod) : prog.code[s[1]][s[2]].callee \in SUBSET Leaf
    <3>1. prog.code[mod] \in Seq(Instr)
      BY <1>a, <2>1, CallGraphAssumption DEF TypeOK, Program
    <3>2. \A i \in DOMAIN prog.code[mod] :
            prog.code[mod][i].op = "call" => prog.code[mod][i].callee \in SUBSET Leaf
      BY <3>1 DEF Instr
    <3> QED
      BY <3>2 DEF CallSites
  <2>3. \A s \in CallSites(mod) :
          findFunctions(prog.code[s[1]][s[2]].callee) \subseteq Fns
    BY <1>a, <2>2, FindFunctionsType
  <2>4. \A s \in DOMAIN Callees' : Callees'[s] \subseteq Fns
    BY <1>10, <1>a, <2>3 DEF doFinalization, TypeOK
  <2> QED
    BY <1>10, <1>a, <2>1, <2>4 DEF doFinalization, TypeInv, TypeOK, CallInProgress
<1>11. CASE Drive
  <2>1. FS = {}
    BY <1>11, IdleAtEnd DEF Drive, BeginSweep, BeginFinal, Finish
  <2> QED
    BY <1>11, <1>a, <2>1, IdsAssumption
    DEF Drive, BeginSweep, BeginFinal, Finish, TypeInv, TypeOK, DriverTypeOK,
        Phase, CallInProgress
<1>12. CASE UNCHANGED vars
  BY <1>12, <1>a
  DEF vars, TypeInv, TypeOK, DriverTypeOK, CallInProgress, InModulePass, Code, Current
<1> QED
  BY <1>1, <1>2, <1>3, <1>4, <1>5, <1>6, <1>7, <1>8, <1>9, <1>10, <1>11, <1>12
  DEF Next, ModulePass, Done

\* Every state of the pass has its types: identifiers are identifiers, and
\* whatever is recorded for them is a function of a loaded module.
THEOREM TypeCorrect == Spec => []TypeOK
<1>1. TypeInv => TypeOK
  BY DEF TypeInv
<1> QED
  BY <1>1, TypeInvInit, TypeInvStep, PTL DEF Spec

----------------------------------------------------------------------------
(* The fixpoint *)

Inv == TypeInv /\ FixpointInv

\* A step that adds no fact changes the meaning of no constraint.
LEMMA SatisfiedStable ==
    ASSUME UNCHANGED <<prog, FuncPtrs, Funcs>>
    PROVE  /\ \A val : findFunctions(val)' = findFunctions(val)
           /\ \A i : Satisfied(i)' <=> Satisfied(i)
           /\ \A m : AllSatisfied(m)' <=> AllSatisfied(m)
<1>1. \A val : findFunctions(val)' = findFunctions(val)
  BY DEF findFunctions, LeafFunctions, Resolve, Held
<1>2. \A f, n : ArgId(f, n)' = ArgId(f, n)
  OBVIOUS
<1>3. \A i : Satisfied(i)' <=> Satisfied(i)
  BY <1>1, <1>2 DEF Satisfied
<1> QED
  BY <1>1, <1>3 DEF AllSatisfied

\* A merge that leaves the flag down found every fact already there.
LEMMA MergeUnchanged ==
    ASSUME NEW ids, NEW fs, Merge(ids, fs), ~Changed'
    PROVE  ~Changed /\ ids \X fs \subseteq FuncPtrs /\ FuncPtrs' = FuncPtrs
  BY DEF Merge

\* An instruction is left behind: it is satisfied, or the flag is up.
LEMMA PrefixGrows ==
    ASSUME TypeInv, FixpointInv, InModulePass, k <= Len(Code),
           k' = k + 1, UNCHANGED <<driverVars, prog, Funcs, ret>>,
           ~Changed' => ~Changed /\ FuncPtrs' = FuncPtrs /\ Satisfied(Current)
    PROVE  PrefixSatisfied' /\ ModulesSatisfied' /\ FlagsDown' /\ AtFixpoint'
<1> USE DEF driverVars
<1>1. Code' = Code /\ InModulePass'
  BY DEF Code, InModulePass
<1>2. k \in Nat
  BY DEF TypeInv, TypeOK
<1>3. Code \in Seq(Instr)
  BY CurrentType DEF TypeInv
<1>4. PrefixSatisfied'
  <2> SUFFICES ASSUME ~Changed', NEW i \in DOMAIN Code, i < k + 1
               PROVE  Satisfied(Code[i])'
    BY <1>1 DEF PrefixSatisfied
  <2>1. ~Changed /\ FuncPtrs' = FuncPtrs /\ Satisfied(Code[k])
    BY DEF Current
  <2>2. i < k \/ i = k
    BY <1>2, <1>3
  <2>3. Satisfied(Code[i])
    BY <2>1, <2>2 DEF FixpointInv, PrefixSatisfied
  <2> QED
    BY <1>1, <2>1, <2>3, SatisfiedStable
<1>5. ModulesSatisfied'
  BY SatisfiedStable DEF FixpointInv, ModulesSatisfied
<1> QED
  BY <1>1, <1>4, <1>5 DEF FlagsDown, AtFixpoint, InModulePass

\* The three facts of the invariant, in the initial states and under a step.
LEMMA FixpointInvInit == Init => FixpointInv
<1> SUFFICES ASSUME Init PROVE FixpointInv
  OBVIOUS
<1>1. phase = "init" /\ k = 1 /\ FS = {} /\ ~Changed /\ ~ret /\ ~InModulePass
  BY DEF Init, DriverInit, InModulePass
<1> QED
  BY <1>1
  DEF FixpointInv, CallInProgress, PrefixSatisfied, ArgumentsSatisfied,
      ModulesSatisfied, FlagsDown, AtFixpoint

LEMMA FixpointInvStep == Inv /\ [Next]_vars => FixpointInv'
<1> SUFFICES ASSUME TypeInv, FixpointInv, [Next]_vars
             PROVE  FixpointInv'
  BY DEF Inv
<1> USE DEF driverVars, passVars
<1>a. TypeOK /\ CallInProgress'
  BY TypeInvStep DEF TypeInv
<1>1. CASE doInitialization
  <2>1. phase = "init" /\ phase' = "init" /\ FS = {} /\ FS' = {}
    BY <1>1
    DEF doInitialization, ForModule, TypeInv, CallInProgress, InModulePass
  <2> QED
    BY <1>1, <1>a, <2>1
    DEF doInitialization, FixpointInv, PrefixSatisfied, ArgumentsSatisfied,
        ModulesSatisfied, FlagsDown, AtFixpoint, InModulePass
<1>2. CASE VisitStore
  <2>1. ~Changed' => ~Changed /\ FuncPtrs' = FuncPtrs /\ Satisfied(Current)
    BY <1>2, MergeUnchanged DEF VisitStore, At, Satisfied
  <2>2. FS' = {}
    BY <1>2 DEF VisitStore, At, NextInstruction
  <2>3. PrefixSatisfied' /\ ModulesSatisfied' /\ FlagsDown' /\ AtFixpoint'
    BY <1>2, <2>1, PrefixGrows DEF VisitStore, At, NextInstruction
  <2> QED
    BY <1>a, <2>2, <2>3 DEF FixpointInv, ArgumentsSatisfied
<1>3. CASE VisitReturn
  <2>1. ~Changed' => ~Changed /\ FuncPtrs' = FuncPtrs /\ Satisfied(Current)
    BY <1>3, MergeUnchanged DEF VisitReturn, At, Satisfied
  <2>2. FS' = {}
    BY <1>3 DEF VisitReturn, At, NextInstruction
  <2>3. PrefixSatisfied' /\ ModulesSatisfied' /\ FlagsDown' /\ AtFixpoint'
    BY <1>3, <2>1, PrefixGrows DEF VisitReturn, At, NextInstruction
  <2> QED
    BY <1>a, <2>2, <2>3 DEF FixpointInv, ArgumentsSatisfied
<1>4. CASE VisitCall
  <2>1. UNCHANGED <<driverVars, prog, FuncPtrs, Funcs, Callees, k, Changed, ret>>
    BY <1>4 DEF VisitCall
  <2>2. Code' = Code /\ Current' = Current /\ InModulePass' = InModulePass
    BY <2>1 DEF Code, Current, InModulePass
  <2>3. PrefixSatisfied' /\ ModulesSatisfied' /\ FlagsDown' /\ AtFixpoint'
    BY <2>1, <2>2, SatisfiedStable
    DEF FixpointInv, PrefixSatisfied, ModulesSatisfied, FlagsDown, AtFixpoint
  <2>4. ArgumentsSatisfied'
    <3>1. Current \in Instr /\ Current.op = "call"
      BY <1>4, <1>a, CurrentType DEF VisitCall, At
    <3>2. Current.args \in Seq(Operand)
      BY <3>1 DEF Instr
    <3>3. \A j \in DOMAIN Current.args : ~(j <= 0)
      BY <3>2
    <3> QED
      BY <1>4, <2>1, <2>2, <3>3, SatisfiedStable DEF VisitCall, ArgumentsSatisfied
  <2> QED
    BY <1>a, <2>3, <2>4 DEF FixpointInv
<1>5. CASE VisitArgument
  <2>1. UNCHANGED <<driverVars, prog, Funcs, Callees, k, FS, ret>>
    BY <1>5 DEF VisitArgument
  <2>2. /\ Code' = Code /\ Current' = Current
        /\ InModulePass /\ InModulePass'
    BY <1>5, <2>1 DEF VisitArgument, Code, Current, InModulePass
  <2>3. k <= Len(Code) /\ Current \in Instr /\ Current.op = "call"
    BY <1>5, <1>a, CurrentType DEF VisitArgument, TypeInv, CallInProgress
  <2>4. Current.args \in Seq(Operand) /\ no \in Nat
    BY <2>3, <1>a DEF Instr, TypeOK
  <2>5. ~Changed' =>
          /\ ~Changed /\ FuncPtrs' = FuncPtrs
          /\ Current.args[no + 1].fp =>
               {ArgId(f, no) : f \in FS}
                 \X findFunctions(Current.args[no + 1].val) \subseteq FuncPtrs
    BY <1>5, MergeUnchanged DEF VisitArgument
  <2>6. PrefixSatisfied' /\ ModulesSatisfied' /\ FlagsDown' /\ AtFixpoint'
    BY <2>1, <2>2, <2>5, SatisfiedStable
    DEF FixpointInv, PrefixSatisfied, ModulesSatisfied, FlagsDown, AtFixpoint,
        InModulePass
  <2>7. ArgumentsSatisfied'
    <3> SUFFICES ASSUME FS # {}, ~Changed'
                 PROVE  /\ FS = findFunctions(Current.callee)'
                        /\ \A j \in DOMAIN Current.args :
                             j <= no + 1 /\ Current.args[j].fp =>
                               ({ArgId(f, j - 1) : f \in FS}
                                  \X findFunctions(Current.args[j].val)')
                                 \subseteq FuncPtrs
      BY <1>5, <2>1, <2>2, <2>5 DEF VisitArgument, ArgumentsSatisfied
    <3>1. /\ FS = findFunctions(Current.callee)
          /\ \A j \in DOMAIN Current.args : j <= no /\ Current.args[j].fp =>
               {ArgId(f, j - 1) : f \in FS}
                 \X findFunctions(Current.args[j].val) \subseteq FuncPtrs
      BY <2>5 DEF FixpointInv, ArgumentsSatisfied
    <3>2. \A val : findFunctions(val)' = findFunctions(val)
      BY <2>1, <2>5, SatisfiedStable
    <3>3. \A j \in DOMAIN Current.args : j <= no + 1 => j <= no \/ j = no + 1
      BY <2>4
    <3>4. (no + 1) - 1 = no
      BY <2>4
    <3> QED
      BY <2>2, <2>5, <3>1, <3>2, <3>3, <3>4
  <2> QED
    BY <1>a, <2>6, <2>7 DEF FixpointInv
<1>6. CASE EndCall
  <2>1. UNCHANGED <<driverVars, prog, FuncPtrs, Funcs, Callees, Changed, ret>>
    BY <1>6 DEF EndCall
  <2>2. InModulePass /\ k <= Len(Code) /\ Current \in Instr /\ Current.op = "call"
    BY <1>6, <1>a, CurrentType DEF EndCall, TypeInv, CallInProgress
  <2>3. ~Changed => Satisfied(Current)
    <3> SUFFICES ASSUME ~Changed PROVE Satisfied(Current)
      OBVIOUS
    <3>1. Current.args \in Seq(Operand) /\ no = Len(Current.args) /\ FS # {}
      BY <1>6, <2>2 DEF EndCall, Instr
    <3>2. \A j \in DOMAIN Current.args : j <= no
      BY <3>1
    <3> QED
      BY <2>2, <3>1, <3>2 DEF FixpointInv, ArgumentsSatisfied, Satisfied
  <2>4. PrefixSatisfied' /\ ModulesSatisfied' /\ FlagsDown' /\ AtFixpoint'
    BY <1>6, <2>1, <2>2, <2>3, PrefixGrows DEF EndCall
  <2> QED
    BY <1>6, <1>a, <2>4 DEF EndCall, FixpointInv, ArgumentsSatisfied
<1>7. CASE Skip
  <2>1. InModulePass /\ k <= Len(Code) /\ FS = {} /\ Current \in Instr
    BY <1>7, <1>a, CurrentType DEF Skip, At
  <2>2. Satisfied(Current)
    <3>1. CASE Current.op = "call" /\ ~Current.skip
      <4>1. findFunctions(Current.callee) = {}
        BY <1>7, <3>1 DEF Skip, At
      <4> QED
        BY <3>1, <4>1 DEF Satisfied
    <3>2. CASE ~(Current.op = "call" /\ ~Current.skip)
      BY <1>7, <3>2 DEF Skip, At, Satisfied
    <3> QED
      BY <3>1, <3>2
  <2>3. PrefixSatisfied' /\ ModulesSatisfied' /\ FlagsDown' /\ AtFixpoint'
    BY <1>7, <2>1, <2>2, PrefixGrows DEF Skip, NextInstruction
  <2> QED
    BY <1>7, <1>a, <2>1, <2>3 DEF Skip, NextInstruction, FixpointInv, ArgumentsSatisfied
<1>8. CASE SweepAgain
  <2>1. FS = {} /\ UNCHANGED <<driverVars, prog, FuncPtrs, Funcs, FS>>
    BY <1>8, IdleAtEnd DEF SweepAgain
  <2>2. InModulePass /\ InModulePass' /\ Code' = Code /\ k' = 1 /\ ret'
    BY <1>8, <2>1 DEF SweepAgain, AtEnd, InModulePass, Code
  <2>3. Code \in Seq(Instr)
    <3>1. mod \in ModuleNo /\ prog.code \in [ModuleNo -> Seq(Instr)]
      BY <1>a, <2>2, CallGraphAssumption, IdsAssumption
      DEF TypeOK, DriverTypeOK, InModulePass, ModuleNo, Program
    <3> QED
      BY <3>1 DEF Code
  <2>4. \A i \in DOMAIN Code : ~(i < 1)
    BY <2>3
  <2> QED
    BY <1>a, <2>1, <2>2, <2>4
    DEF FixpointInv, PrefixSatisfied, ArgumentsSatisfied, ModulesSatisfied,
        FlagsDown, AtFixpoint, InModulePass
<1>9. CASE ReturnFromModule
  <2>1. FS = {} /\ InModulePass /\ k > Len(Code) /\ ~Changed
    BY <1>9, IdleAtEnd DEF ReturnFromModule, AtEnd
  <2>2. /\ UNCHANGED <<prog, FuncPtrs, Funcs, FS, Changed, phase>>
        /\ k' = 1 /\ ~ret' /\ mod' = mod + 1
        /\ changed' = IF ret THEN changed + 1 ELSE changed
    BY <1>9 DEF ReturnFromModule, EndModulePass
  <2>3. mod \in ModuleNo /\ changed \in Nat /\ \A m \in ModuleNo : DOMAIN prog.code[m] = 1..Len(prog.code[m])
    BY <1>a, <2>1, CallGraphAssumption, IdsAssumption
    DEF TypeOK, DriverTypeOK, InModulePass, ModuleNo, Program
  <2>4. AllSatisfied(mod)
    <3>1. \A i \in DOMAIN Code : i < k
      BY <1>a, <2>1, <2>3, CallGraphAssumption DEF Code, TypeOK, Program
    <3>2. \A i \in DOMAIN Code : Satisfied(Code[i])
      BY <2>1, <3>1 DEF FixpointInv, PrefixSatisfied
    <3> QED
      BY <3>2 DEF AllSatisfied, Code
  <2>5. PrefixSatisfied'
    <3> SUFFICES ASSUME InModulePass', NEW i \in DOMAIN Code', i < 1
                 PROVE  FALSE
      BY <2>2 DEF PrefixSatisfied
    <3>1. mod' \in ModuleNo
      BY <1>a, <2>2, <2>3, IdsAssumption DEF InModulePass, ModuleNo
    <3>2. DOMAIN Code' = 1..Len(Code')
      BY <2>2, <2>3, <3>1 DEF Code
    <3> QED
      BY <3>2
  <2>6. ModulesSatisfied'
    <3> SUFFICES ASSUME changed' = 0, NEW m \in ModuleNo, m < mod'
                 PROVE  AllSatisfied(m)
      BY <2>2, SatisfiedStable DEF ModulesSatisfied
    <3>1. ~ret /\ changed = 0
      BY <2>2, <2>3
    <3>2. m < mod \/ m = mod
      BY <2>2, <2>3 DEF ModuleNo
    <3>3. CASE m < mod
      BY <2>1, <3>1, <3>3 DEF FixpointInv, ModulesSatisfied, InModulePass
    <3> QED
      BY <2>4, <3>2, <3>3
  <2>7. FlagsDown' /\ AtFixpoint' /\ ArgumentsSatisfied'
    BY <2>1, <2>2 DEF FlagsDown, AtFixpoint, ArgumentsSatisfied, InModulePass
  <2> QED
    BY <1>a, <2>5, <2>6, <2>7 DEF FixpointInv
<1>10. CASE doFinalization
  <2>1. /\ phase = "final" /\ phase' = "final" /\ FS = {} /\ FS' = {}
        /\ UNCHANGED <<prog, FuncPtrs, Funcs, k, Changed, ret>>
    BY <1>10
    DEF doFinalization, ForModule, TypeInv, CallInProgress, InModulePass
  <2> QED
    BY <1>a, <2>1, SatisfiedStable
    DEF FixpointInv, PrefixSatisfied, ArgumentsSatisfied, ModulesSatisfied,
        FlagsDown, AtFixpoint, InModulePass
<1>11. CASE Drive
  <2>1. /\ UNCHANGED <<prog, FuncPtrs, Funcs, k, FS, Changed, ret>>
        /\ mod > NumModules
        /\ ~InModulePass
    BY <1>11, <1>a, IdsAssumption
    DEF Drive, BeginSweep, BeginFinal, Finish, TypeOK, DriverTypeOK, InModulePass
  <2>2. /\ FS = {} /\ FS' = {} /\ k = 1 /\ k' = 1
        /\ ~Changed /\ ~Changed' /\ ~ret /\ ~ret'
    BY <2>1, IdleAtEnd DEF FixpointInv, FlagsDown
  <2>3. CASE BeginSweep
    <3>1. phase' = "pass" /\ mod' = 1
      BY <2>3 DEF BeginSweep
    <3>2. PrefixSatisfied'
      <4> SUFFICES ASSUME InModulePass', NEW i \in DOMAIN Code', i < k'
                   PROVE  FALSE
        BY DEF PrefixSatisfied
      <4>1. k' = 1
        BY <2>1 DEF FixpointInv, FlagsDown
      <4>2. mod' \in ModuleNo
        BY <3>1, IdsAssumption DEF InModulePass, ModuleNo
      <4>3. prog'.code \in [ModuleNo -> Seq(Instr)]
        BY <1>a, <2>1, CallGraphAssumption DEF TypeOK, Program
      <4>4. DOMAIN Code' = 1..Len(Code')
        BY <4>2, <4>3 DEF Code
      <4> QED
        BY <4>1, <4>4
    <3>3. \A m \in ModuleNo : ~(m < 1)
      BY DEF ModuleNo
    <3> QED
      BY <1>a, <2>2, <3>1, <3>2, <3>3
      DEF FixpointInv, ArgumentsSatisfied, ModulesSatisfied, FlagsDown, AtFixpoint
  <2>4. CASE BeginFinal
    <3>1. phase = "pass" /\ phase' = "final" /\ changed = 0
      BY <2>4 DEF BeginFinal
    <3>2. \A m \in ModuleNo : AllSatisfied(m)
      BY <1>a, <2>1, <2>2, <3>1, IdsAssumption
      DEF FixpointInv, ModulesSatisfied, ModuleNo, TypeOK, DriverTypeOK
    <3>3. \A m \in ModuleNo : AllSatisfied(m)'
      BY <2>1, <3>2, SatisfiedStable
    <3> QED
      BY <1>a, <2>2, <3>1, <3>3
      DEF FixpointInv, PrefixSatisfied, ArgumentsSatisfied, ModulesSatisfied,
          FlagsDown, AtFixpoint, InModulePass
  <2>5. CASE Finish
    <3>1. phase = "final" /\ phase' = "done"
      BY <2>5 DEF Finish
    <3>2. \A m \in ModuleNo : AllSatisfied(m)'
      BY <2>1, <3>1, SatisfiedStable DEF FixpointInv, AtFixpoint
    <3> QED
      BY <1>a, <2>2, <3>1, <3>2
      DEF FixpointInv, PrefixSatisfied, ArgumentsSatisfied, ModulesSatisfied,
          FlagsDown, AtFixpoint, InModulePass
  <2> QED
    BY <1>11, <2>3, <2>4, <2>5 DEF Drive
<1>12. CASE UNCHANGED vars
  <2>1. UNCHANGED <<driverVars, prog, FuncPtrs, Funcs, k, FS, no, Changed, ret>>
    BY <1>12 DEF vars
  <2>2. Code' = Code /\ Current' = Current /\ InModulePass' = InModulePass
    BY <2>1 DEF Code, Current, InModulePass
  <2> QED
    BY <1>a, <2>1, <2>2, SatisfiedStable
    DEF FixpointInv, PrefixSatisfied, ArgumentsSatisfied, ModulesSatisfied,
        FlagsDown, AtFixpoint
<1> QED
  BY <1>1, <1>2, <1>3, <1>4, <1>5, <1>6, <1>7, <1>8, <1>9, <1>10, <1>11, <1>12
  DEF Next, ModulePass, Done

\* The invariant of the whole pass.
THEOREM Invariant == Spec => []Inv
<1>1. Init => Inv
  BY TypeInvInit, FixpointInvInit DEF Inv
<1>2. Inv /\ [Next]_vars => Inv'
  BY TypeInvStep, FixpointInvStep DEF Inv
<1> QED
  BY <1>1, <1>2, PTL DEF Spec

\* When the driver leaves its loop every instruction of every module is
\* satisfied: the flags of one quiet sweep are enough to know it.
THEOREM FixpointReached == Spec => []AtFixpoint
<1>1. Inv => AtFixpoint
  BY DEF Inv, FixpointInv
<1> QED
  BY <1>1, Invariant, PTL

----------------------------------------------------------------------------
(* Callees *)

\* What doFinalization has recorded for the modules behind it.
CalleesInv ==
    /\ phase = "done" => mod > NumModules
    /\ phase \in {"final", "done"} =>
         \A m \in ModuleNo : m < mod =>
            \A s \in CallSites(m) :
               /\ s \in DOMAIN Callees
               /\ Callees[s] = findFunctions(prog.code[s[1]][s[2]].callee)

\* The steps of doModulePass stay inside it.
LEMMA ModulePassStays ==
    ASSUME ModulePass
    PROVE  /\ phase = "pass" /\ phase' = "pass" /\ mod <= NumModules
           /\ prog' = prog /\ Funcs' = Funcs /\ FuncPtrs \subseteq FuncPtrs'
  BY DEF ModulePass, VisitStore, VisitReturn, VisitCall, VisitArgument, EndCall, Skip, SweepAgain,
         ReturnFromModule, EndModulePass, At, AtEnd, InModulePass, NextInstruction, Merge,
         driverVars

LEMMA CalleesInvStep ==
    ASSUME TypeInv, CalleesInv, [Next]_vars
    PROVE  CalleesInv'
<1>1. TypeOK /\ mod \in 1..(NumModules + 1)
  BY DEF TypeInv, TypeOK, DriverTypeOK
<1>2. CASE doInitialization \/ ModulePass
  BY <1>2, ModulePassStays DEF doInitialization, ForModule, CalleesInv
<1>3. CASE doFinalization
  <2>1. /\ phase = "final" /\ phase' = "final" /\ mod' = mod + 1
        /\ UNCHANGED <<prog, FuncPtrs, Funcs>>
    BY <1>3 DEF doFinalization, ForModule
  <2>2. /\ DOMAIN Callees' = DOMAIN Callees \cup CallSites(mod)
        /\ \A s \in CallSites(mod) :
             Callees'[s] = findFunctions(prog.code[s[1]][s[2]].callee)
        /\ \A s \in DOMAIN Callees \ CallSites(mod) : Callees'[s] = Callees[s]
    BY <1>3 DEF doFinalization
  <2>3. /\ \A val : findFunctions(val)' = findFunctions(val)
        /\ \A m : CallSites(m)' = CallSites(m)
    BY <2>1, SatisfiedStable DEF CallSites
  <2>4. ASSUME NEW m \in ModuleNo, m < mod + 1, NEW s \in CallSites(m)
        PROVE  /\ s \in DOMAIN Callees'
               /\ Callees'[s] = findFunctions(prog.code[s[1]][s[2]].callee)
    <3>1. CASE m = mod
      BY <2>2, <2>4, <3>1
    <3>2. CASE m # mod
      <4>1. m < mod
        BY <1>1, <2>4, <3>2 DEF ModuleNo
      <4>2. s \in DOMAIN Callees /\ Callees[s] = findFunctions(prog.code[s[1]][s[2]].callee)
        BY <2>1, <4>1 DEF CalleesInv
      <4>3. s \notin CallSites(mod)
        BY <3>2 DEF CallSites
      <4> QED
        BY <2>2, <4>2, <4>3
    <3> QED
      BY <3>1, <3>2
  <2> QED
    BY <2>1, <2>3, <2>4 DEF CalleesInv
<1>4. CASE Drive
  <2>1. UNCHANGED <<prog, FuncPtrs, Funcs, Callees>> /\ mod > NumModules
    BY <1>4, DriveType DEF Drive, passVars, TypeInv, TypeOK
  <2>2. /\ \A val : findFunctions(val)' = findFunctions(val)
        /\ \A m : CallSites(m)' = CallSites(m)
    BY <2>1, SatisfiedStable DEF CallSites
  <2>3. CASE BeginSweep
    BY <2>3 DEF BeginSweep, CalleesInv
  <2>4. CASE BeginFinal
    BY <2>4 DEF BeginFinal, CalleesInv, ModuleNo
  <2>5. CASE Finish
    BY <2>1, <2>2, <2>5 DEF Finish, CalleesInv
  <2> QED
    BY <1>4, <2>3, <2>4, <2>5 DEF Drive
<1>5. CASE UNCHANGED vars
  <2>1. UNCHANGED <<phase, mod, prog, FuncPtrs, Funcs, Callees>>
    BY <1>5 DEF vars, driverVars, passVars
  <2>2. /\ \A val : findFunctions(val)' = findFunctions(val)
        /\ \A m : CallSites(m)' = CallSites(m)
    BY <2>1, SatisfiedStable DEF CallSites
  <2> QED
    BY <2>1, <2>2 DEF CalleesInv
<1> QED
  BY <1>2, <1>3, <1>4, <1>5 DEF Next, Done

\* At the end Callees and FuncPtrs agree on every call of every program: what a
\* call passes is held by the arguments of all functions listed for it.
THEOREM CalleesAgree == Spec => []CalleesReceiveArguments
<1>1. Init => CalleesInv
  BY DEF Init, DriverInit, CalleesInv
<1>2. Inv /\ CalleesInv /\ [Next]_vars => CalleesInv'
  BY CalleesInvStep DEF Inv
<1>3. Inv /\ CalleesInv => CalleesReceiveArguments
  <2> SUFFICES ASSUME Inv, CalleesInv, phase = "done",
                      NEW m \in ModuleNo, NEW i \in DOMAIN prog.code[m],
                      prog.code[m][i].op = "call", ~prog.code[m][i].skip
               PROVE  /\ <<m, i>> \in DOMAIN Callees
                      /\ \A f \in Callees[<<m, i>>], j \in DOMAIN prog.code[m][i].args :
                           prog.code[m][i].args[j].fp =>
                             findFunctions(prog.code[m][i].args[j].val) \subseteq
                               Held(ArgId(f, j - 1))
    BY DEF CalleesReceiveArguments
  <2>1. <<m, i>> \in CallSites(m)
    BY DEF CallSites
  <2>2. m < mod
    BY IdsAssumption DEF CalleesInv, Inv, TypeInv, TypeOK, DriverTypeOK, ModuleNo
  <2>3. /\ <<m, i>> \in DOMAIN Callees
        /\ Callees[<<m, i>>] = findFunctions(prog.code[m][i].callee)
    BY <2>1, <2>2 DEF CalleesInv
  <2>4. Satisfied(prog.code[m][i])
    BY DEF Inv, FixpointInv, AtFixpoint, AllSatisfied
  <2>5. FuncPtrs \subseteq Id \X Fns
    BY DEF Inv, TypeInv, TypeOK
  <2>6. ASSUME NEW f \in Callees[<<m, i>>], NEW j \in DOMAIN prog.code[m][i].args,
               prog.code[m][i].args[j].fp,
               NEW g \in findFunctions(prog.code[m][i].args[j].val)
        PROVE  g \in Held(ArgId(f, j - 1))
    <3>1. <<ArgId(f, j - 1), g>> \in FuncPtrs
      BY <2>3, <2>4, <2>6 DEF Satisfied
    <3> QED
      BY <2>5, <3>1 DEF Held
  <2> QED
    BY <2>3, <2>6
<1>4. Init => Inv
  BY TypeInvInit, FixpointInvInit DEF Inv
<1>5. Inv /\ [Next]_vars => Inv'
  BY TypeInvStep, FixpointInvStep DEF Inv
<1> QED
  BY <1>1, <1>2, <1>3, <1>4, <1>5, PTL DEF Spec

----------------------------------------------------------------------------
(* The pass as a fixpoint computation *)

\* doInitialization has been through the modules before this one.
Loaded == IF phase = "init" THEN mod ELSE NumModules + 1

Defines(g, n) == g.ext /\ g.body /\ g.name = n /\ g.mod < Loaded

\* Funcs holds, of the definitions of a name, the one of the last module.
FuncsInv ==
    /\ \A g \in Fns : Defines(g, g.name) => g.name \in DOMAIN Funcs
    /\ \A n \in DOMAIN Funcs :
         /\ Funcs[n] \in Fns /\ Defines(Funcs[n], n)
         /\ \A h \in Fns : Defines(h, n) => h.mod <= Funcs[n].mod

\* The facts of the initializers have been collected.
FactsInv == \A m \in ModuleNo : m < Loaded => InitialFacts(prog, m) \subseteq FuncPtrs

\* The callees of the call that is being visited are still among those that
\* would be found now.
CalleesFound == FS # {} => FS \subseteq findFunctions(Current.callee)

LoadInv == FuncsInv /\ FactsInv /\ CalleesFound

\* Once all modules are loaded a function stands for what Definition says,
\* whatever the order of the modules.
LEMMA ResolveIsDefinition ==
    ASSUME FuncsInv, Loaded = NumModules + 1, NEW f \in Fns
    PROVE  Resolve(f) = Definition(f)
<1> DEFINE defs == {g \in Fns : g.ext /\ g.body /\ g.name = f.name}
           last(g) == \A h \in defs : h.mod <= g.mod
<1>1. \A g \in Fns : g.mod \in Nat /\ g.mod < Loaded
  BY CallGraphAssumption, IdsAssumption DEF GlobalValue, ModuleNo
<1>2. \A g \in defs : Defines(g, f.name)
  BY <1>1 DEF Defines
<1>3. Definition(f) = IF f.body \/ defs = {} THEN f ELSE CHOOSE g \in defs : last(g)
  BY DEF Definition
<1>4. CASE f.body
  BY <1>3, <1>4 DEF Resolve
<1>5. CASE ~f.body /\ defs = {}
  <2>1. f.name \notin DOMAIN Funcs
    BY <1>5 DEF FuncsInv, Defines
  <2> QED
    BY <1>3, <1>5, <2>1 DEF Resolve
<1>6. CASE ~f.body /\ defs # {}
  <2>1. f.name \in DOMAIN Funcs
    BY <1>2, <1>6 DEF FuncsInv
  <2> DEFINE d == Funcs[f.name]
  <2>2. d \in defs /\ last(d)
    BY <1>2, <2>1 DEF FuncsInv, Defines
  <2>3. ASSUME NEW g \in defs, last(g) PROVE g = d
    <3>1. g.mod <= d.mod /\ d.mod <= g.mod
      BY <2>2, <2>3
    <3>2. g.mod = d.mod
      BY <1>1, <2>2, <3>1
    <3> QED
      BY <2>2, <3>2, CallGraphAssumption
  <2> HIDE DEF d, defs, last
  <2>4. (CHOOSE g \in defs : last(g)) = d
    BY <2>2, <2>3
  <2>5. Resolve(f) = d
    BY <1>6, <2>1 DEF Resolve, d
  <2> QED
    BY <1>3, <1>6, <2>4, <2>5
<1> QED
  BY <1>4, <1>5, <1>6

\* What findFunctions finds is what the premises of the rules allow.
LEMMA FoundByPremises ==
    ASSUME FuncsInv, Loaded = NumModules + 1, NEW val \in SUBSET Leaf, NEW f \in Fns
    PROVE  f \in findFunctions(val) <=> \E P \in Premises(val, f) : P \subseteq FuncPtrs
<1>1. \A v \in val : v.op = "fn" => Resolve(v.fn) = Definition(v.fn)
  <2>1. \A v \in Leaf : v.op = "fn" => v.fn \in Fns
    BY DEF Leaf
  <2> QED
    BY <2>1, ResolveIsDefinition
<1>2. \A v \in val :
        f \in LeafFunctions(v) <=>
          \/ v.op = "fn" /\ Definition(v.fn) = f
          \/ v.op \in {"arg", "ret", "load"} /\ <<LeafId(v), f>> \in FuncPtrs
  BY <1>1 DEF LeafFunctions, Held
<1>3. f \in findFunctions(val) <=> \E v \in val : f \in LeafFunctions(v)
  BY DEF findFunctions
<1>4. (\E P \in Premises(val, f) : P \subseteq FuncPtrs) <=>
        \E v \in val :
          \/ v.op = "fn" /\ Definition(v.fn) = f
          \/ v.op \in {"arg", "ret", "load"} /\ <<LeafId(v), f>> \in FuncPtrs
  <2> DEFINE direct == {u \in val : u.op = "fn" /\ Definition(u.fn) = f}
             held == {u \in val : u.op \in {"arg", "ret", "load"}}
  <2>1. Premises(val, f) = {{} : v \in direct} \cup {{<<LeafId(v), f>>} : v \in held}
    BY DEF Premises
  <2>2. (\E P \in Premises(val, f) : P \subseteq FuncPtrs) <=>
          direct # {} \/ \E v \in held : <<LeafId(v), f>> \in FuncPtrs
    <3>1. (\E P \in {{} : v \in direct} : P \subseteq FuncPtrs) <=> direct # {}
      OBVIOUS
    <3>2. (\E P \in {{<<LeafId(v), f>>} : v \in held} : P \subseteq FuncPtrs) <=>
            \E v \in held : <<LeafId(v), f>> \in FuncPtrs
      <4>1. ASSUME NEW v \in held, <<LeafId(v), f>> \in FuncPtrs
            PROVE  \E P \in {{<<LeafId(w), f>>} : w \in held} : P \subseteq FuncPtrs
        <5>1. {<<LeafId(v), f>>} \in {{<<LeafId(w), f>>} : w \in held}
          OBVIOUS
        <5> QED
          BY <4>1, <5>1
      <4>2. ASSUME NEW P \in {{<<LeafId(w), f>>} : w \in held}, P \subseteq FuncPtrs
            PROVE  \E v \in held : <<LeafId(v), f>> \in FuncPtrs
        <5>1. PICK v \in held : P = {<<LeafId(v), f>>}
          OBVIOUS
        <5> QED
          BY <4>2, <5>1
      <4> QED
        BY <4>1, <4>2
    <3> HIDE DEF direct, held
    <3> QED
      BY <2>1, <3>1, <3>2
  <2> QED
    BY <2>2
<1> QED
  BY <1>2, <1>3, <1>4

\* More facts, more functions.
LEMMA FindFunctionsMonotone ==
    ASSUME Funcs' = Funcs, FuncPtrs \subseteq FuncPtrs', NEW val
    PROVE  findFunctions(val) \subseteq findFunctions(val)'
<1>1. \A v : LeafFunctions(v) \subseteq LeafFunctions(v)'
  BY DEF LeafFunctions, Held, Resolve
<1> QED
  BY <1>1 DEF findFunctions

LEMMA LoadInvInit == Init => LoadInv
<1> SUFFICES ASSUME Init PROVE LoadInv
  OBVIOUS
<1>1. phase = "init" /\ Loaded = 1 /\ DOMAIN Funcs = {} /\ FS = {}
  BY DEF Init, DriverInit, Loaded
<1>2. \A f \in Fns : ~(f.mod < 1)
  BY CallGraphAssumption DEF GlobalValue, ModuleNo
<1> QED
  BY <1>1, <1>2 DEF LoadInv, FuncsInv, FactsInv, CalleesFound, Defines, ModuleNo

\* Loading a module.
LEMMA LoadStep ==
    ASSUME TypeInv, LoadInv, doInitialization
    PROVE  FuncsInv' /\ FactsInv'
<1>1. /\ phase = "init" /\ phase' = "init" /\ mod' = mod + 1 /\ prog' = prog
      /\ mod \in ModuleNo /\ Loaded = mod /\ Loaded' = mod + 1
      /\ FuncPtrs' = FuncPtrs \cup InitialFacts(prog, mod)
  BY ForModuleType DEF doInitialization, ForModule, Loaded, TypeInv, TypeOK
<1> DEFINE defs == ExternalDefinitions(mod)
           names == {f.name : f \in defs}
<1>2. /\ DOMAIN Funcs' = DOMAIN Funcs \cup names
      /\ \A n \in names : Funcs'[n] \in defs /\ Funcs'[n].name = n
      /\ \A n \in DOMAIN Funcs \ names : Funcs'[n] = Funcs[n]
  BY DEF doInitialization
<1>3. \A g \in Fns : g.mod \in Nat /\ (g.mod < mod + 1 <=> g.mod < mod \/ g.mod = mod)
  BY <1>1, CallGraphAssumption, IdsAssumption DEF GlobalValue, ModuleNo
<1>4. \A g \in Fns : \A n :
        Defines(g, n)' <=> Defines(g, n) \/ (g \in defs /\ g.name = n)
  BY <1>1, <1>3 DEF Defines, ExternalDefinitions
<1>5. \A g \in defs : g \in Fns /\ g.mod = mod
  BY DEF ExternalDefinitions
<1>6. \A g \in defs : g.name \in names
  OBVIOUS
<1> HIDE DEF defs, names
<1>7. ASSUME NEW g \in Fns, Defines(g, g.name)' PROVE g.name \in DOMAIN Funcs'
  BY <1>2, <1>4, <1>6, <1>7 DEF LoadInv, FuncsInv
<1>8. ASSUME NEW n \in DOMAIN Funcs'
      PROVE  /\ Funcs'[n] \in Fns /\ Funcs'[n].ext /\ Funcs'[n].body /\ Funcs'[n].name = n
             /\ Funcs'[n].mod < mod + 1
             /\ \A h \in Fns : Defines(h, n)' => h.mod <= Funcs'[n].mod
  <2>1. CASE n \in names
    <3>1. Funcs'[n] \in defs /\ Funcs'[n].name = n /\ Funcs'[n].mod = mod
      BY <1>2, <1>5, <2>1
    <3>2. \A h \in Fns : Defines(h, n)' => h.mod <= mod
      BY <1>1, <1>3 DEF Defines, ModuleNo
    <3>3. Funcs'[n].ext /\ Funcs'[n].body
      BY <3>1 DEF defs, ExternalDefinitions
    <3> QED
      BY <1>3, <1>5, <3>1, <3>2, <3>3
  <2>2. CASE n \notin names
    <3>1. n \in DOMAIN Funcs /\ Funcs'[n] = Funcs[n]
      BY <1>2, <2>2
    <3>2. \A h \in Fns : Defines(h, n)' => Defines(h, n)
      BY <1>4, <1>6, <2>2
    <3>3. /\ Funcs[n] \in Fns /\ Defines(Funcs[n], n)
          /\ \A h \in Fns : Defines(h, n) => h.mod <= Funcs[n].mod
      BY <3>1 DEF LoadInv, FuncsInv
    <3>4. Funcs[n].ext /\ Funcs[n].body /\ Funcs[n].name = n /\ Funcs[n].mod < mod + 1
      BY <1>1, <1>3, <3>3 DEF Defines
    <3> QED
      BY <3>1, <3>2, <3>3, <3>4
  <2> QED
    BY <2>1, <2>2
<1>9. FactsInv'
  BY <1>1 DEF LoadInv, FactsInv, ModuleNo
<1> QED
  BY <1>1, <1>7, <1>8, <1>9 DEF FuncsInv, Defines

LEMMA LoadInvStep ==
    ASSUME TypeInv, LoadInv, [Next]_vars
    PROVE  LoadInv'
<1>1. CASE doInitialization
  <2>1. FS = {} /\ FS' = FS
    BY <1>1 DEF doInitialization, ForModule, TypeInv, CallInProgress, InModulePass
  <2> QED
    BY <1>1, <2>1, LoadStep DEF LoadInv, CalleesFound
<1>2. ASSUME phase # "init" \/ mod = NumModules + 1, phase' # "init",
             prog' = prog, Funcs' = Funcs, FuncPtrs \subseteq FuncPtrs'
      PROVE  FuncsInv' /\ FactsInv'
  <2>1. Loaded' = Loaded
    BY <1>2 DEF Loaded
  <2> QED
    BY <1>2, <2>1 DEF LoadInv, FuncsInv, FactsInv, Defines
<1>3. CASE ModulePass
  <2>1. FuncsInv' /\ FactsInv' /\ Funcs' = Funcs /\ FuncPtrs \subseteq FuncPtrs' /\ prog' = prog
    BY <1>2, <1>3, ModulePassStays
  <2>2. CASE VisitCall
    <3>1. FS' = findFunctions(Current.callee) /\ Current' = Current
      BY <2>2 DEF VisitCall, driverVars, Current, Code
    <3> QED
      BY <2>1, <3>1, FindFunctionsMonotone DEF LoadInv, CalleesFound
  <2>3. CASE VisitArgument
    <3>1. FS' = FS /\ Current' = Current
      BY <2>3 DEF VisitArgument, driverVars, Current, Code
    <3> QED
      BY <2>1, <3>1, FindFunctionsMonotone DEF LoadInv, CalleesFound
  <2>4. CASE VisitStore \/ VisitReturn \/ EndCall \/ Skip \/ SweepAgain \/ ReturnFromModule
    <3>1. FS' = {}
      BY <2>4, IdleAtEnd DEF VisitStore, VisitReturn, EndCall, Skip, SweepAgain, ReturnFromModule,
         At, NextInstruction
    <3> QED
      BY <2>1, <3>1 DEF LoadInv, CalleesFound
  <2> QED
    BY <1>3, <2>2, <2>3, <2>4 DEF ModulePass
<1>4. CASE Drive
  <2>1. mod > NumModules /\ FS = {} /\ UNCHANGED <<prog, FuncPtrs, Funcs, FS>>
    BY <1>4, DriveType, IdleAtEnd DEF Drive, passVars, TypeInv, TypeOK
  <2>2. mod = NumModules + 1 /\ phase' # "init"
    BY <1>4, <2>1, IdsAssumption DEF Drive, BeginSweep, BeginFinal, Finish, TypeInv, TypeOK, DriverTypeOK
  <2> QED
    BY <1>2, <2>1, <2>2 DEF LoadInv, CalleesFound
<1>5. CASE doFinalization
  <2>1. FS = {} /\ UNCHANGED <<prog, FuncPtrs, Funcs, FS>> /\ phase = "final" /\ phase' = "final"
    BY <1>5 DEF doFinalization, ForModule, TypeInv, CallInProgress, InModulePass
  <2> QED
    BY <1>2, <2>1 DEF LoadInv, CalleesFound
<1>6. CASE UNCHANGED vars
  <2>1. UNCHANGED <<phase, mod, prog, FuncPtrs, Funcs, FS, k>>
    BY <1>6 DEF vars, driverVars, passVars
  <2>2. Loaded' = Loaded /\ Current' = Current
    BY <2>1 DEF Loaded, Current, Code
  <2> QED
    BY <2>1, <2>2, FindFunctionsMonotone
    DEF LoadInv, FuncsInv, FactsInv, Defines, CalleesFound
<1> QED
  BY <1>1, <1>3, <1>4, <1>5, <1>6 DEF Next, Done

\* A rule whose premises are facts.
LEMMA RuleApplies ==
    ASSUME NEW r \in Rules, r.pre \subseteq FuncPtrs
    PROVE  r.con \in Analysis!Consequences(Rules, FuncPtrs)
  BY DEF Analysis!Consequences

\* The rules of an instruction are rules of the program.
LEMMA RulesOfCurrent ==
    ASSUME TypeOK, InModulePass, k <= Len(Code)
    PROVE  InstrRules(Current) \subseteq Rules
<1>1. k \in DOMAIN prog.code[mod] /\ mod \in ModuleNo
  BY CurrentType, IdsAssumption DEF Code, TypeOK, DriverTypeOK, InModulePass, ModuleNo
<1> DEFINE R(m) == UNION {InstrRules(prog.code[m][i]) : i \in DOMAIN prog.code[m]}
<1>2. InstrRules(Current) \subseteq R(mod)
  BY <1>1 DEF Current, Code
<1>3. Rules = (UNION {InitRules(m) : m \in ModuleNo}) \cup (UNION {R(m) : m \in ModuleNo})
  BY Zenon DEF Rules
<1> HIDE DEF R
<1> QED
  BY <1>1, <1>2, <1>3

\* What flows to an identifier by its value is derived by a rule.
LEMMA FlowDerives ==
    ASSUME FuncsInv, Loaded = NumModules + 1, TypeOK, NEW id, NEW val \in SUBSET Leaf,
           Flow(id, val) \subseteq Rules
    PROVE  {id} \X findFunctions(val) \subseteq Analysis!Consequences(Rules, FuncPtrs)
<1> SUFFICES ASSUME NEW f \in findFunctions(val)
             PROVE  <<id, f>> \in Analysis!Consequences(Rules, FuncPtrs)
  OBVIOUS
<1>1. f \in Fns
  BY FindFunctionsType
<1>2. PICK P \in Premises(val, f) : P \subseteq FuncPtrs
  BY <1>1, FoundByPremises
<1> DEFINE r == [pre |-> P, con |-> <<id, f>>]
<1>3. r \in Flow(id, val)
  BY <1>1 DEF Flow
<1>4. r \in Rules /\ r.pre \subseteq FuncPtrs /\ r.con = <<id, f>>
  BY <1>2, <1>3
<1> HIDE DEF r
<1> QED
  BY <1>4, RuleApplies

\* So is what is passed to callees that are found.
LEMMA PassDerives ==
    ASSUME FuncsInv, Loaded = NumModules + 1, TypeOK, NEW n,
           NEW callee \in SUBSET Leaf, NEW val \in SUBSET Leaf,
           Pass(callee, n, val) \subseteq Rules,
           NEW F, F \subseteq findFunctions(callee)
    PROVE  {ArgId(f, n) : f \in F} \X findFunctions(val)
             \subseteq Analysis!Consequences(Rules, FuncPtrs)
<1> SUFFICES ASSUME NEW f \in F, NEW g \in findFunctions(val)
             PROVE  <<ArgId(f, n), g>> \in Analysis!Consequences(Rules, FuncPtrs)
  OBVIOUS
<1>1. f \in Fns /\ g \in Fns /\ f \in findFunctions(callee)
  BY FindFunctionsType
<1>2. PICK P \in Premises(callee, f) : P \subseteq FuncPtrs
  BY <1>1, FoundByPremises
<1>3. PICK Q \in Premises(val, g) : Q \subseteq FuncPtrs
  BY <1>1, FoundByPremises
<1> DEFINE r == [pre |-> P \cup Q, con |-> <<ArgId(f, n), g>>]
<1>4. r \in Pass(callee, n, val)
  <2> DEFINE rule(fg, p, q) == [pre |-> p \cup q, con |-> <<ArgId(fg[1], n), fg[2]>>]
             S(fg) == {rule(fg, p, q) : p \in Premises(callee, fg[1]), q \in Premises(val, fg[2])}
  <2>1. PICK x \in Fns \X Fns : x[1] = f /\ x[2] = g
    <3>1. <<f, g>> \in Fns \X Fns /\ <<f, g>>[1] = f /\ <<f, g>>[2] = g
      BY <1>1
    <3> QED
      BY <3>1
  <2>2. r = rule(x, P, Q)
    BY <2>1
  <2>3. Pass(callee, n, val) = UNION {S(fg) : fg \in Fns \X Fns}
    BY DEF Pass
  <2> HIDE DEF r, rule
  <2>4. r \in S(x)
    BY <2>1, <2>2
  <2> HIDE DEF S
  <2> QED
    BY <2>3, <2>4
<1>5. r \in Rules /\ r.pre \subseteq FuncPtrs /\ r.con = <<ArgId(f, n), g>>
  BY <1>2, <1>3, <1>4
<1> HIDE DEF r
<1> QED
  BY <1>5, RuleApplies

\* Satisfied instructions and loaded initializers leave nothing to derive.
LEMMA SatisfiedIsClosed ==
    ASSUME TypeOK, LoadInv, Loaded = NumModules + 1, \A m \in ModuleNo : AllSatisfied(m)
    PROVE  Analysis!Closed(Rules, FuncPtrs)
<1> SUFFICES ASSUME NEW r \in Rules, r.pre \subseteq FuncPtrs PROVE r.con \in FuncPtrs
  BY DEF Analysis!Closed, Analysis!Consequences
<1>1. FuncsInv
  BY DEF LoadInv
<1>2. ASSUME NEW m \in ModuleNo, r \in InitRules(m) PROVE r.con \in FuncPtrs
  <2>1. InitialFacts(prog, m) \subseteq FuncPtrs
    BY IdsAssumption DEF LoadInv, FactsInv, ModuleNo
  <2> QED
    BY <1>2, <2>1 DEF InitRules
<1>3. ASSUME NEW id, NEW val \in SUBSET Leaf, r \in Flow(id, val),
             {id} \X findFunctions(val) \subseteq FuncPtrs
      PROVE  r.con \in FuncPtrs
  <2>1. PICK f \in Fns : r \in {[pre |-> P, con |-> <<id, f>>] : P \in Premises(val, f)}
    BY <1>3 DEF Flow
  <2>2. PICK P \in Premises(val, f) : r = [pre |-> P, con |-> <<id, f>>]
    BY <2>1
  <2>3. f \in findFunctions(val)
    BY <1>1, <2>2, FoundByPremises
  <2> QED
    BY <1>3, <2>2, <2>3
<1>4. ASSUME NEW n, NEW callee \in SUBSET Leaf, NEW val \in SUBSET Leaf, r \in Pass(callee, n, val),
             {ArgId(f, n) : f \in findFunctions(callee)} \X findFunctions(val) \subseteq FuncPtrs
      PROVE  r.con \in FuncPtrs
  <2>1. PICK fg \in Fns \X Fns :
          r \in {[pre |-> P \cup Q, con |-> <<ArgId(fg[1], n), fg[2]>>] :
                   P \in Premises(callee, fg[1]), Q \in Premises(val, fg[2])}
    BY <1>4 DEF Pass
  <2>2. PICK P \in Premises(callee, fg[1]), Q \in Premises(val, fg[2]) :
          r = [pre |-> P \cup Q, con |-> <<ArgId(fg[1], n), fg[2]>>]
    BY <2>1
  <2>3. fg[1] \in findFunctions(callee)
    BY <1>1, <2>2, FoundByPremises
  <2>4. fg[2] \in findFunctions(val)
    BY <1>1, <2>2, FoundByPremises
  <2> QED
    BY <1>4, <2>2, <2>3, <2>4
<1>5. ASSUME NEW m \in ModuleNo, NEW i \in DOMAIN prog.code[m], r \in InstrRules(prog.code[m][i])
      PROVE  r.con \in FuncPtrs
  <2> DEFINE I == prog.code[m][i]
  <2>1. I \in Instr
    <3>1. prog.code \in [ModuleNo -> Seq(Instr)]
      BY CallGraphAssumption DEF TypeOK, Program
    <3> QED
      BY <3>1
  <2>2. Satisfied(I)
    BY DEF AllSatisfied
  <2>3. r \in InstrRules(I)
    BY <1>5
  <2> HIDE DEF I
  <2>4. CASE I.op = "store"
    <3>1. I.fp /\ I.id # NoId /\ r \in Flow(I.id, I.val) /\ I.val \in SUBSET Leaf
      BY <2>1, <2>3, <2>4 DEF InstrRules, Instr
    <3> QED
      BY <1>3, <2>2, <2>4, <3>1 DEF Satisfied
  <2>5. CASE I.op = "return"
    <3>1. I.fp /\ r \in Flow(RetId(I.fn), I.val) /\ I.val \in SUBSET Leaf
      BY <2>1, <2>3, <2>5 DEF InstrRules, Instr
    <3> QED
      BY <1>3, <2>2, <2>5, <3>1 DEF Satisfied
  <2>6. CASE I.op = "call"
    <3>1. /\ ~I.skip /\ I.callee \in SUBSET Leaf /\ I.args \in Seq(Operand)
          /\ r \in UNION {Pass(I.callee, j - 1, I.args[j].val) :
                            j \in {n \in DOMAIN I.args : I.args[n].fp}}
      BY <2>1, <2>3, <2>6 DEF InstrRules, Instr
    <3>2. PICK j \in DOMAIN I.args : I.args[j].fp /\ r \in Pass(I.callee, j - 1, I.args[j].val)
      BY <3>1
    <3>3. I.args[j].val \in SUBSET Leaf
      <4>1. I.args[j] \in Operand
        BY <3>1, <3>2
      <4> QED
        BY <4>1 DEF Operand
    <3>4. {ArgId(f, j - 1) : f \in findFunctions(I.callee)} \X findFunctions(I.args[j].val)
            \subseteq FuncPtrs
      BY <2>2, <2>6, <3>1, <3>2 DEF Satisfied
    <3> QED
      BY <1>4, <3>1, <3>2, <3>3, <3>4
  <2> QED
    BY <2>1, <2>4, <2>5, <2>6 DEF Instr
<1>6. \/ \E m \in ModuleNo : r \in InitRules(m)
      \/ \E m \in ModuleNo : \E i \in DOMAIN prog.code[m] : r \in InstrRules(prog.code[m][i])
  <2> DEFINE R(m) == UNION {InstrRules(prog.code[m][i]) : i \in DOMAIN prog.code[m]}
  <2>1. Rules = (UNION {InitRules(m) : m \in ModuleNo}) \cup (UNION {R(m) : m \in ModuleNo})
    BY Zenon DEF Rules
  <2>2. ASSUME NEW m \in ModuleNo, r \in R(m)
        PROVE  \E i \in DOMAIN prog.code[m] : r \in InstrRules(prog.code[m][i])
    BY <2>2
  <2> HIDE DEF R
  <2> QED
    BY <2>1, <2>2
<1> QED
  BY <1>2, <1>5, <1>6

LEMMA RulesKept == prog' = prog => Rules' = Rules
<1> SUFFICES ASSUME prog' = prog PROVE Rules' = Rules
  OBVIOUS
<1>1. \A m : InitRules(m)' = InitRules(m)
  BY DEF InitRules
<1> QED
  BY <1>1 DEF Rules

\* A visit adds what the rules of the instruction derive.
LEMMA VisitsDerive ==
    ASSUME TypeInv, LoadInv, ModulePass
    PROVE  FuncPtrs' \subseteq FuncPtrs \cup Analysis!Consequences(Rules, FuncPtrs)
<1>1. FuncsInv /\ Loaded = NumModules + 1 /\ TypeOK
  BY ModulePassStays DEF LoadInv, Loaded, TypeInv
<1>2. CASE VisitStore
  <2>1. /\ Current.op = "store" /\ Current.fp /\ Current.id # NoId
        /\ FuncPtrs' = FuncPtrs \cup ({Current.id} \X findFunctions(Current.val))
        /\ InModulePass /\ k <= Len(Code)
    BY <1>2 DEF VisitStore, At, Merge
  <2>2. Current \in Instr /\ InstrRules(Current) \subseteq Rules
    BY <1>1, <2>1, CurrentType, RulesOfCurrent
  <2>3. Current.val \in SUBSET Leaf /\ Flow(Current.id, Current.val) \subseteq Rules
    BY <2>1, <2>2 DEF Instr, InstrRules
  <2> QED
    BY <1>1, <2>1, <2>3, FlowDerives
<1>3. CASE VisitReturn
  <2>1. /\ Current.op = "return" /\ Current.fp
        /\ FuncPtrs' = FuncPtrs \cup ({RetId(Current.fn)} \X findFunctions(Current.val))
        /\ InModulePass /\ k <= Len(Code)
    BY <1>3 DEF VisitReturn, At, Merge
  <2>2. Current \in Instr /\ InstrRules(Current) \subseteq Rules
    BY <1>1, <2>1, CurrentType, RulesOfCurrent
  <2>3. Current.val \in SUBSET Leaf /\ Flow(RetId(Current.fn), Current.val) \subseteq Rules
    BY <2>1, <2>2 DEF Instr, InstrRules
  <2> QED
    BY <1>1, <2>1, <2>3, FlowDerives
<1>4. CASE VisitArgument
  <2> DEFINE a == Current.args[no + 1]
  <2>1. /\ InModulePass /\ FS # {} /\ no < Len(Current.args)
        /\ FuncPtrs' = FuncPtrs \cup ((IF a.fp THEN {ArgId(f, no) : f \in FS} ELSE {})
                                        \X findFunctions(a.val))
    BY <1>4 DEF VisitArgument, Merge
  <2>2. k <= Len(Code) /\ Current.op = "call" /\ ~Current.skip
    BY <2>1 DEF TypeInv, CallInProgress
  <2>3. Current \in Instr /\ InstrRules(Current) \subseteq Rules
    BY <1>1, <2>1, <2>2, CurrentType, RulesOfCurrent
  <2>4. Current.callee \in SUBSET Leaf /\ Current.args \in Seq(Operand) /\ no \in Nat
    BY <1>1, <2>2, <2>3 DEF Instr, TypeOK
  <2>5. no + 1 \in DOMAIN Current.args /\ a \in Operand /\ (no + 1) - 1 = no
    BY <2>1, <2>4
  <2>6. a.val \in SUBSET Leaf
    BY <2>5 DEF Operand
  <2> HIDE DEF a
  <2>7. CASE a.fp
    <3> DEFINE P(j) == Pass(Current.callee, j - 1, Current.args[j].val)
    <3>1. InstrRules(Current) = UNION {P(j) : j \in {n \in DOMAIN Current.args : Current.args[n].fp}}
      BY <2>2 DEF InstrRules
    <3>2. P(no + 1) = Pass(Current.callee, no, a.val) /\ Current.args[no + 1].fp
      BY <2>5, <2>7 DEF a
    <3> HIDE DEF P
    <3>3. Pass(Current.callee, no, a.val) \subseteq Rules
      BY <2>3, <2>5, <3>1, <3>2
    <3>4. FS \subseteq findFunctions(Current.callee)
      BY <2>1 DEF LoadInv, CalleesFound
    <3>5. {ArgId(f, no) : f \in FS} \X findFunctions(a.val)
            \subseteq Analysis!Consequences(Rules, FuncPtrs)
      BY <1>1, <2>4, <2>6, <3>3, <3>4, PassDerives
    <3> QED
      BY <2>1, <2>7, <3>5
  <2>8. CASE ~a.fp
    BY <2>1, <2>8
  <2> QED
    BY <2>7, <2>8
<1>5. CASE VisitCall \/ EndCall \/ Skip \/ SweepAgain \/ ReturnFromModule
  BY <1>5 DEF VisitCall, EndCall, Skip, SweepAgain, ReturnFromModule
<1> QED
  BY <1>2, <1>3, <1>4, <1>5 DEF ModulePass

\* A step of the pass is a step of the analysis or changes nothing in it.
LEMMA AnalysisStep ==
    ASSUME Inv, LoadInv, [Next]_vars
    PROVE  [Analysis!Next]_(Analysis!vars)
<1>1. TypeInv /\ TypeOK
  BY DEF Inv, TypeInv
<1>2. ASSUME phase \notin {"final", "done"}, phase' \notin {"final", "done"}, prog' = prog,
             FuncPtrs \subseteq FuncPtrs',
             FuncPtrs' \subseteq FuncPtrs \cup Analysis!Consequences(Rules, FuncPtrs)
      PROVE  Analysis!Next
  BY <1>2, RulesKept DEF Analysis!Next, Analysis!Derive
<1>3. ASSUME UNCHANGED <<prog, FuncPtrs>>,
             phase \in {"final", "done"} <=> phase' \in {"final", "done"}
      PROVE  UNCHANGED Analysis!vars
  BY <1>3, RulesKept DEF Analysis!vars
<1>4. CASE doInitialization
  <2>1. /\ phase = "init" /\ phase' = "init" /\ prog' = prog /\ mod \in ModuleNo
        /\ FuncPtrs' = FuncPtrs \cup InitialFacts(prog, mod)
    BY <1>1, <1>4, ForModuleType DEF doInitialization, TypeOK
  <2>2. ASSUME NEW x \in InitialFacts(prog, mod)
        PROVE  x \in Analysis!Consequences(Rules, FuncPtrs)
    <3> DEFINE r == [pre |-> {}, con |-> x]
    <3>1. r \in InitRules(mod)
      BY DEF InitRules
    <3>2. r \in Rules /\ r.pre \subseteq FuncPtrs /\ r.con = x
      BY <2>1, <3>1 DEF Rules
    <3> HIDE DEF r
    <3> QED
      BY <3>2, RuleApplies
  <2> QED
    BY <1>2, <2>1, <2>2
<1>5. CASE ModulePass
  BY <1>1, <1>2, <1>5, ModulePassStays, VisitsDerive
<1>6. CASE Drive
  <2>1. mod > NumModules /\ UNCHANGED <<prog, FuncPtrs>>
    BY <1>1, <1>6, DriveType DEF Drive, passVars, TypeOK
  <2>2. CASE BeginSweep
    BY <1>3, <2>1, <2>2 DEF BeginSweep
  <2>3. CASE BeginFinal
    <3>1. phase = "pass" /\ phase' = "final" /\ changed = 0 /\ Loaded = NumModules + 1
      BY <2>3 DEF BeginFinal, Loaded
    <3>2. \A m \in ModuleNo : AllSatisfied(m)
      BY <1>1, <2>1, <3>1, IdsAssumption
      DEF Inv, FixpointInv, FlagsDown, ModulesSatisfied, InModulePass, ModuleNo, TypeOK, DriverTypeOK
    <3>3. Analysis!Closed(Rules, FuncPtrs)
      BY <1>1, <3>1, <3>2, SatisfiedIsClosed
    <3> QED
      BY <2>1, <3>1, <3>3, RulesKept DEF Analysis!Next, Analysis!Stop
  <2>4. CASE Finish
    BY <1>3, <2>1, <2>4 DEF Finish
  <2> QED
    BY <1>6, <2>2, <2>3, <2>4 DEF Drive
<1>7. CASE doFinalization \/ UNCHANGED vars
  BY <1>3, <1>7 DEF doFinalization, ForModule, vars, driverVars, passVars
<1> QED
  BY <1>4, <1>5, <1>6, <1>7 DEF Next, Done

\* The pass implements the abstract analysis, for every program and in every
\* order of its modules and instructions: it derives only by the rules, drops
\* nothing, and stops only when no rule derives more.
THEOREM Refinement == Spec => ImplementsFixpoint
<1>1. Init => Inv /\ LoadInv /\ Analysis!Init
  <2>1. Init => Analysis!Init
    BY DEF Init, DriverInit, Analysis!Init
  <2> QED
    BY <2>1, TypeInvInit, FixpointInvInit, LoadInvInit DEF Inv
<1>2. Inv /\ LoadInv /\ [Next]_vars => Inv' /\ LoadInv'
  BY TypeInvStep, FixpointInvStep, LoadInvStep DEF Inv
<1>3. Inv /\ LoadInv /\ [Next]_vars => [Analysis!Next]_(Analysis!vars)
  BY AnalysisStep
<1> QED
  BY <1>1, <1>2, <1>3, PTL DEF Spec, ImplementsFixpoint, Analysis!Spec

\* The derived facts lie below every solution ...
BelowEverySolution == \A X : Analysis!Closed(Rules, X) => FuncPtrs \subseteq X

\* ... and are one when the analysis has stopped.
StopsAtSolution == phase \in {"final", "done"} => Analysis!Closed(Rules, FuncPtrs)

\* Nothing is derived without a rule, in whatever order Fixpoint applies its
\* rules: each set closed under them contains all that has been derived.
THEOREM Sound == Analysis!Spec => []BelowEverySolution
<1>1. Analysis!Init => BelowEverySolution
  BY DEF Analysis!Init, BelowEverySolution
<1>2. BelowEverySolution /\ [Analysis!Next]_(Analysis!vars) => BelowEverySolution'
  <2> SUFFICES ASSUME BelowEverySolution, [Analysis!Next]_(Analysis!vars)
               PROVE  BelowEverySolution'
    OBVIOUS
  <2>1. Rules' = Rules /\ FuncPtrs' \subseteq FuncPtrs \cup Analysis!Consequences(Rules, FuncPtrs)
    BY DEF Analysis!Next, Analysis!Derive, Analysis!Stop, Analysis!vars
  <2>2. ASSUME NEW X, Analysis!Closed(Rules, X) PROVE FuncPtrs' \subseteq X
    <3>1. FuncPtrs \subseteq X
      BY <2>2 DEF BelowEverySolution
    <3>2. Analysis!Consequences(Rules, FuncPtrs) \subseteq X
      BY <2>2, <3>1 DEF Analysis!Closed, Analysis!Consequences
    <3> QED
      BY <2>1, <3>1, <3>2
  <2> QED
    BY <2>1, <2>2 DEF BelowEverySolution, Analysis!Closed, Analysis!Consequences
<1> QED
  BY <1>1, <1>2, PTL DEF Analysis!Spec

\* Fixpoint stops only when no rule has anything left to derive.
THEOREM Complete == Analysis!Spec => []StopsAtSolution
<1>1. Analysis!Init => StopsAtSolution
  BY DEF Analysis!Init, StopsAtSolution
<1>2. StopsAtSolution /\ [Analysis!Next]_(Analysis!vars) => StopsAtSolution'
  <2> SUFFICES ASSUME StopsAtSolution, [Analysis!Next]_(Analysis!vars)
               PROVE  StopsAtSolution'
    OBVIOUS
  <2>1. /\ Rules' = Rules
        /\ phase' \in {"final", "done"} =>
             FuncPtrs' = FuncPtrs /\ (phase \in {"final", "done"} \/ Analysis!Closed(Rules, FuncPtrs))
    BY DEF Analysis!Next, Analysis!Derive, Analysis!Stop, Analysis!vars
  <2> QED
    BY <2>1 DEF StopsAtSolution, Analysis!Closed, Analysis!Consequences
<1> QED
  BY <1>1, <1>2, PTL DEF Analysis!Spec

\* What the pass stops with is therefore the least set of facts that is closed
\* under the rules of the program, the same whatever the order.
THEOREM LeastSolution == Spec => [](BelowEverySolution /\ StopsAtSolution)
<1>1. Spec => Analysis!Spec
  BY Refinement DEF ImplementsFixpoint
<1> QED
  BY <1>1, Sound, Complete, PTL
=============================================================================
