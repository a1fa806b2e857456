---------------------------- MODULE IntSatProofs ----------------------------
(***************************************************************************)
(* Proofs about IntSat, for every module, set of conditions and timeout.    *)
(***************************************************************************)
EXTENDS IntSat, SequenceTheorems, TLAPS

\* What has been written when query() is where it is.  A result of SMT_SAT is
\* the last thing a child produces: its report is whole by then.
ReportedFirst ==
    /\ query # "none" => AtTrap
    /\ query \in {"none", "solving"} => Res # SMT_SAT
    /\ query = "returned" /\ Res = SMT_SAT => Wrote(fn, n, "stack")
    /\ query = "joining" /\ wait = SMT_SAT => SMTTimeoutOpt /\ Wrote(fn, n, "stack")

Inv == TypeOK /\ ReportedFirst /\ SuppressedIsReported

\* A function of the module is a sequence of traps.
LEMMA ProgramType ==
    ASSUME prog \in Programs, fn \in DOMAIN prog
    PROVE  /\ prog[fn] \in Seq(Trap)
           /\ Len(prog[fn]) \in Nat
           /\ \A i \in 1..Len(prog[fn]) : prog[fn][i] \in Trap
<1>1. prog \in Seq(Seq(Trap))
  BY IntSatAssumption
<1>2. prog[fn] \in Seq(Trap)
  BY <1>1
<1> QED
  BY <1>2

\* Writing a part of a report adds it and keeps what has been written.
LEMMA WriteAdds ==
    ASSUME TypeOK, NEW part \in Part, NEW next, Write(part, next)
    PROVE  /\ Wrote(fn, n, part)'
           /\ \A f, i, p : Wrote(f, i, p) => Wrote(f, i, p)'
<1>1. /\ Output \in Seq([f: Nat, n: Nat, part: Part])
      /\ Output' = Append(Output, [f |-> fn, n |-> n, part |-> part])
      /\ fn' = fn /\ n' = n
  BY DEF TypeOK, Write
<1>2. /\ Len(Output) \in Nat
      /\ DOMAIN Output = 1..Len(Output)
      /\ DOMAIN Output' = 1..(Len(Output) + 1)
      /\ \A j \in 1..Len(Output) : Output'[j] = Output[j]
      /\ Output'[Len(Output) + 1] = [f |-> fn, n |-> n, part |-> part]
  BY <1>1
<1>3. Wrote(fn, n, part)'
  BY <1>1, <1>2 DEF Wrote
<1>4. ASSUME NEW f, NEW i, NEW p, Wrote(f, i, p)
      PROVE  Wrote(f, i, p)'
  <2>1. PICK j \in DOMAIN Output : Output[j] = [f |-> f, n |-> i, part |-> p]
    BY <1>4 DEF Wrote
  <2>2. j \in DOMAIN Output' /\ Output'[j] = [f |-> f, n |-> i, part |-> p]
    BY <2>1, <1>2
  <2> QED
    BY <2>2 DEF Wrote
<1> QED
  BY <1>3, <1>4

LEMMA InvInit == Init => Inv
<1> SUFFICES ASSUME Init PROVE Inv
  OBVIOUS
<1>1. TypeOK
  <2>1. prog \in Seq(Seq(Trap)) /\ Len(prog) \in Nat
    BY IntSatAssumption DEF Init, InitAt
  <2> QED
    BY <2>1 DEF Init, InitAt, TypeOK, Part, SMT_TIMEOUT, SMT_UNDEF, SMT_UNSAT, SMT_SAT,
                Killed
<1> QED
  BY <1>1 DEF Init, InitAt, Inv, ReportedFirst, SuppressedIsReported, SMT_UNDEF, SMT_SAT

\* Every step keeps the variables in their types.
LEMMA TypeStep == TypeOK /\ ReportedFirst /\ [Next]_vars => TypeOK'
<1> SUFFICES ASSUME TypeOK, ReportedFirst, [Next]_vars
             PROVE  TypeOK'
  OBVIOUS
<1> USE DEF TypeOK, input, Part, SMT_TIMEOUT, SMT_UNDEF, SMT_UNSAT, SMT_SAT, Killed
<1>0. prog \in Seq(Seq(Trap)) /\ Len(prog) \in Nat
  BY IntSatAssumption
<1>1. CASE Skip
  BY <1>1 DEF Skip
<1>2. CASE SMTFork
  BY <1>2 DEF SMTFork
<1>3. CASE Solve
  <2>1. I \in Trap /\ I.answer # Hang
    BY <1>3, ProgramType DEF Solve, ReportedFirst, AtTrap, InFunction, I
  <2>2. I.answer \in {SMT_UNDEF, SMT_UNSAT, SMT_SAT}
    BY <2>1 DEF Trap
  <2> QED
    BY <2>2, <1>3 DEF Solve
<1>4. CASE Report
  <2>1. ASSUME NEW part \in Part, NEW next \in Part \cup {"returned"}, Write(part, next)
        PROVE  TypeOK'
    <3>1. fn \in Nat /\ n \in Nat
      BY <1>0
    <3>2. [f |-> fn, n |-> n, part |-> part] \in [f: Nat, n: Nat, part: Part]
      BY <3>1
    <3>3. Output' \in Seq([f: Nat, n: Nat, part: Part])
      BY <3>2, <2>1 DEF Write
    <3> QED
      BY <3>3, <2>1 DEF Write
  <2> QED
    BY <2>1, <1>4 DEF Report
<1>5. CASE Exit
  <2>1. Res % 256 \in 0..255
    OBVIOUS
  <2> QED
    BY <2>1, <1>5 DEF Exit
<1>6. CASE Timer
  BY <1>6 DEF Timer
<1>7. CASE SMTJoin
  <2>1. I.v \in Val
    BY <1>7, ProgramType DEF SMTJoin, Joined, ReportedFirst, AtTrap, InFunction, I, Trap
  <2>2. ReportedBugs' \subseteq Val
    BY <2>1, <1>7 DEF SMTJoin, Joined
  <2> QED
    BY <2>2, <1>7 DEF SMTJoin, Joined
<1>8. CASE NextFunction
  BY <1>8, <1>0 DEF NextFunction, InFunction
<1>9. CASE UNCHANGED vars
  BY <1>9 DEF vars
<1> QED
  BY <1>1, <1>2, <1>3, <1>4, <1>5, <1>6, <1>7, <1>8, <1>9 DEF Next, Done

\* A result that makes the parent give a condition up comes with its report.
LEMMA SatIsReported ==
    ASSUME TypeOK, ReportedFirst, SMTJoin, Status = SMT_SAT
    PROVE  Wrote(fn, n, "stack")
<1>1. CASE SMTTimeoutOpt
  BY <1>1 DEF SMTJoin, Joined, Status, ReportedFirst, Killed, SMT_SAT, SMT_TIMEOUT
<1>2. CASE ~SMTTimeoutOpt
  <2>1. Status = Res
    BY <1>2 DEF Status
  <2>2. query = "returned"
    BY <1>2 DEF SMTJoin, Joined
  <2> QED
    BY <2>1, <2>2 DEF ReportedFirst
<1> QED
  BY <1>1, <1>2

LEMMA ReportedStep ==
    Inv /\ [Next]_vars => ReportedFirst' /\ SuppressedIsReported'
<1> SUFFICES ASSUME TypeOK, ReportedFirst, SuppressedIsReported, [Next]_vars
             PROVE  ReportedFirst' /\ SuppressedIsReported'
  BY DEF Inv
<1> USE DEF ReportedFirst, SuppressedIsReported, AtTrap, InFunction, input
<1>0. n \in Nat /\ n' - 1 \in Int
  BY TypeStep DEF TypeOK
<1>1. CASE Skip
  BY <1>1, <1>0 DEF Skip, Wrote
<1>2. CASE SMTFork
  BY <1>2 DEF SMTFork, Wrote
<1>3. CASE Solve
  BY <1>3 DEF Solve, Wrote, SMT_SAT
<1>4. CASE Report
  <2>1. ASSUME NEW part \in Part, NEW next \in Part \cup {"returned"}, Write(part, next),
               next = "returned" => part = "stack"
        PROVE  ReportedFirst' /\ SuppressedIsReported'
    <3>1. /\ Wrote(fn, n, part)'
          /\ \A f, i, p : Wrote(f, i, p) => Wrote(f, i, p)'
      BY <2>1, WriteAdds
    <3>2. /\ query = part /\ query' = next
          /\ UNCHANGED <<input, fn, n, ReportedBugs, Res, wait>>
      BY <2>1 DEF Write
    <3>3. SuppressedIsReported'
      BY <3>1, <3>2
    <3>4. ReportedFirst'
      BY <3>1, <3>2, <2>1 DEF Part
    <3> QED
      BY <3>3, <3>4
  <2> QED
    BY <2>1, <1>4 DEF Report, Part
<1>5. CASE Exit
  <2>1. Res % 256 = SMT_SAT => Res = SMT_SAT
    BY DEF TypeOK, SMT_TIMEOUT, SMT_UNDEF, SMT_UNSAT, SMT_SAT
  <2> QED
    BY <2>1, <1>5 DEF Exit, Wrote
<1>6. CASE Timer
  BY <1>6 DEF Timer, Wrote, Part, Killed, SMT_SAT
<1>7. CASE SMTJoin
  <2>1. /\ UNCHANGED <<input, fn, Output>>
        /\ query' = "none" /\ Res' = SMT_UNDEF /\ n' = n + 1
        /\ query # "none"
    BY <1>7 DEF SMTJoin, Joined
  <2>2. ASSUME NEW v \in ReportedBugs'
        PROVE  \E i \in 1..(n' - 1) : prog[fn][i].v = v /\ Wrote(fn, i, "stack")
    <3>1. CASE v \in ReportedBugs
      BY <3>1, <2>1, <1>0
    <3>2. CASE v \notin ReportedBugs
      <4>1. v = prog[fn][n].v /\ Status = SMT_SAT
        BY <3>2, <2>2, <1>7 DEF SMTJoin, Joined, I
      <4>2. Wrote(fn, n, "stack")
        BY <4>1, <1>7, SatIsReported
      <4>3. n \in 1..(n' - 1)
        BY <2>1, <1>0 DEF TypeOK
      <4> QED
        BY <4>1, <4>2, <4>3
    <3> QED
      BY <3>1, <3>2
  <2>3. SuppressedIsReported'
    BY <2>1, <2>2 DEF Wrote
  <2>4. ReportedFirst'
    BY <2>1 DEF SMT_UNDEF, SMT_SAT
  <2> QED
    BY <2>3, <2>4
<1>8. CASE NextFunction
  <2>1. fn \in DOMAIN prog /\ Len(prog[fn]) \in Nat
    <3>1. fn \in 1..Len(prog) /\ prog \in Seq(Seq(Trap))
      BY <1>8, IntSatAssumption DEF NextFunction, TypeOK
    <3> QED
      BY <3>1
  <2>2. query = "none"
    BY <2>1, <1>0, <1>8 DEF NextFunction
  <2> QED
    BY <2>2, <1>8 DEF NextFunction
<1>9. CASE UNCHANGED vars
  BY <1>9 DEF vars, Wrote
<1> QED
  BY <1>1, <1>2, <1>3, <1>4, <1>5, <1>6, <1>7, <1>8, <1>9 DEF Next, Done

THEOREM Invariant == Spec => []Inv
<1>1. Init => Inv
  BY InvInit
<1>2. Inv /\ [Next]_vars => Inv'
  BY TypeStep, ReportedStep DEF Inv
<1> QED
  BY <1>1, <1>2, PTL DEF Spec

\* The variables of IntSat keep their types.
THEOREM TypeCorrect == Spec => []TypeOK
<1>1. Inv => TypeOK
  BY DEF Inv
<1> QED
  BY <1>1, Invariant, PTL

\* Whenever the parent suppresses later warnings about a condition, a whole
\* report of it has been written, wherever the timer strikes.
THEOREM NeverSuppressedUnseen == Spec => []SuppressedIsReported
<1>1. Inv => SuppressedIsReported
  BY DEF Inv
<1> QED
  BY <1>1, Invariant, PTL

----------------------------------------------------------------------------
(* Without a timeout: every bug is reported, and once *)

\* The result of query() is the solver's answer, SMT_SAT while it reports, and
\* the condition is not one of those that are not to be asked again.
AnswerKept ==
    /\ query \in Part \cup {"returned"} => Res = I.answer
    /\ query \in Part => Res = SMT_SAT
    /\ query # "none" => I.v \notin ReportedBugs

\* The traps that are to be reported, and those that have been: by themselves or
\* by an earlier trap of the function on the condition.
Bug(T) == T.answer = SMT_SAT /\ ~T.constant /\ T.loc /\ T.bug

Covered(f, i) == \E j \in 1..i : prog[f][j].v = prog[f][i].v /\ Wrote(f, j, "stack")

Visited(f, i) == f < fn \/ (f = fn /\ i < n)

VisitedAreCovered ==
    ~SMTTimeoutOpt =>
        \A f \in DOMAIN prog : \A i \in DOMAIN prog[f] :
            Visited(f, i) /\ Bug(prog[f][i]) => Covered(f, i)

\* What has been reported of the current function is not to be asked again, the
\* bug that is being reported excepted.
BeingReported(o) ==
    o.n = n /\ query \in {"taint", "stack", "returned"} /\ Res = SMT_SAT

ReportedAreSuppressed ==
    ~SMTTimeoutOpt =>
        \A j \in DOMAIN Output :
            /\ Output[j].f <= fn
            /\ Output[j].f = fn /\ Output[j].part = "kind" =>
                 prog[fn][Output[j].n].v \in ReportedBugs \/ BeingReported(Output[j])

NoTimeoutInv == Inv /\ AnswerKept /\ VisitedAreCovered /\ ReportedAreSuppressed /\ ReportsOnce

\* Nothing that has been written is ever taken back.
LEMMA WroteStays ==
    ASSUME TypeOK, [Next]_vars
    PROVE  \A f, i, p : Wrote(f, i, p) => Wrote(f, i, p)'
<1>1. CASE Report
  <2>1. ASSUME NEW part \in Part, NEW next, Write(part, next)
        PROVE  \A f, i, p : Wrote(f, i, p) => Wrote(f, i, p)'
    BY <2>1, WriteAdds
  <2> QED
    BY <1>1, <2>1 DEF Report, Part
<1>2. CASE UNCHANGED Output
  BY <1>2 DEF Wrote
<1> QED
  BY <1>1, <1>2 DEF Next, vars, Skip, SMTFork, Solve, Exit, Timer, SMTJoin, Joined,
                    NextFunction, Done

LEMMA AnswerKeptStep == NoTimeoutInv /\ [Next]_vars => AnswerKept'
<1> SUFFICES ASSUME TypeOK, ReportedFirst, AnswerKept, [Next]_vars
             PROVE  AnswerKept'
  BY DEF NoTimeoutInv, Inv
<1> USE DEF AnswerKept, I, input, Part
<1>1. CASE Skip
  BY <1>1 DEF Skip
<1>2. CASE SMTFork
  BY <1>2 DEF SMTFork, Ignored
<1>3. CASE Solve
  BY <1>3 DEF Solve
<1>4. CASE Report
  BY <1>4 DEF Report, Write
<1>5. CASE Exit
  BY <1>5 DEF Exit
<1>6. CASE Timer
  BY <1>6 DEF Timer
<1>7. CASE SMTJoin
  BY <1>7 DEF SMTJoin, Joined
<1>8. CASE NextFunction
  <2>1. fn \in DOMAIN prog /\ Len(prog[fn]) \in Nat /\ n \in Nat
    BY <1>8, IntSatAssumption, ProgramType DEF NextFunction, InFunction, TypeOK
  <2>2. query = "none"
    BY <2>1, <1>8 DEF NextFunction, ReportedFirst, AtTrap
  <2> QED
    BY <2>2, <1>8 DEF NextFunction
<1>9. CASE UNCHANGED vars
  BY <1>9 DEF vars
<1> QED
  BY <1>1, <1>2, <1>3, <1>4, <1>5, <1>6, <1>7, <1>8, <1>9 DEF Next, Done

\* Whether a trap is dealt with at the end of check(): a skipped bug has been
\* reported by another trap, one that was asked has been reported itself.
LEMMA CurrentCovered ==
    ASSUME NoTimeoutInv, [Next]_vars, ~SMTTimeoutOpt, Skip \/ SMTJoin, Bug(I),
           NEW f, NEW i, f = fn, i = n
    PROVE  Covered(f, i)'
<1>1. n \in Nat \ {0} /\ prog' = prog
  BY DEF NoTimeoutInv, Inv, TypeOK, Skip, SMTJoin, Joined, input
<1>2. CASE Skip
  <2>1. I.v \in ReportedBugs /\ fn' = fn /\ Output' = Output
    BY <1>2 DEF Skip, Ignored, Bug
  <2>2. PICK j \in 1..(n - 1) : prog[fn][j].v = I.v /\ Wrote(fn, j, "stack")
    BY <2>1 DEF NoTimeoutInv, Inv, SuppressedIsReported
  <2> QED
    BY <1>1, <2>1, <2>2 DEF Covered, Wrote, I
<1>3. CASE SMTJoin
  <2>1. query = "returned" /\ Output' = Output /\ fn' = fn
    BY <1>3 DEF SMTJoin, Joined
  <2>2. Wrote(fn, n, "stack")
    BY <2>1 DEF NoTimeoutInv, Inv, AnswerKept, ReportedFirst, Bug
  <2> QED
    BY <1>1, <2>1, <2>2 DEF Covered, Wrote
<1> QED
  BY <1>2, <1>3

\* A report goes to the place in its function that is being visited; what has
\* been covered stays so.
LEMMA VisitedStep == NoTimeoutInv /\ [Next]_vars => VisitedAreCovered'
<1> SUFFICES ASSUME NoTimeoutInv, [Next]_vars
             PROVE  VisitedAreCovered'
  OBVIOUS
<1>0. prog' = prog /\ SMTTimeoutOpt' = SMTTimeoutOpt
  BY DEF Next, vars, input, Skip, SMTFork, Solve, Report, Write, Exit, Timer, SMTJoin,
         Joined, NextFunction, Done
<1> SUFFICES ASSUME ~SMTTimeoutOpt, NEW f \in DOMAIN prog, NEW i \in DOMAIN prog[f],
                    Visited(f, i)', Bug(prog[f][i])
             PROVE  Covered(f, i)'
  BY <1>0 DEF VisitedAreCovered, Bug
<1>1. Covered(f, i) => Covered(f, i)'
  <2>1. \A g, j, p : Wrote(g, j, p) => Wrote(g, j, p)'
    BY WroteStays DEF NoTimeoutInv, Inv
  <2> QED
    BY <1>0, <2>1 DEF Covered
<1>2. Visited(f, i) => Covered(f, i)
  BY DEF NoTimeoutInv, VisitedAreCovered
<1>3. /\ prog \in Seq(Seq(Trap)) /\ f \in Nat /\ fn \in Nat /\ n \in Nat
      /\ Len(prog[f]) \in Nat /\ DOMAIN prog[f] = 1..Len(prog[f]) /\ i \in Nat
  BY IntSatAssumption DEF NoTimeoutInv, Inv, TypeOK
<1>4. CASE Skip \/ SMTJoin
  <2>1. fn' = fn /\ n' = n + 1
    BY <1>4 DEF Skip, SMTJoin, Joined
  <2>2. Visited(f, i) \/ (f = fn /\ i = n)
    BY <2>1, <1>3 DEF Visited
  <2>3. CASE f = fn /\ i = n
    BY <1>4, <2>3, CurrentCovered DEF I
  <2> QED
    BY <1>1, <1>2, <2>2, <2>3
<1>5. CASE NextFunction
  <2>1. fn' = fn + 1 /\ n' = 1 /\ n > Len(prog[fn])
    BY <1>5 DEF NextFunction
  <2>2. Visited(f, i)
    BY <2>1, <1>3 DEF Visited
  <2> QED
    BY <1>1, <1>2, <2>2
<1>6. CASE UNCHANGED <<fn, n>>
  BY <1>6, <1>1, <1>2 DEF Visited
<1> QED
  BY <1>4, <1>5, <1>6 DEF Next, vars, SMTFork, Solve, Report, Write, Exit, Timer, Done

\* What a write appends, element by element.
LEMMA Appended ==
    ASSUME TypeOK, NEW part \in Part, NEW next, Write(part, next)
    PROVE  LET o == [f |-> fn, n |-> n, part |-> part] IN
           /\ DOMAIN Output' = DOMAIN Output \cup {Len(Output) + 1}
           /\ Len(Output) + 1 \notin DOMAIN Output
           /\ \A j \in DOMAIN Output : Output'[j] = Output[j]
           /\ Output'[Len(Output) + 1] = o
           /\ o.f = fn /\ o.n = n /\ o.part = part
<1>1. /\ Output \in Seq([f: Nat, n: Nat, part: Part])
      /\ Output' = Append(Output, [f |-> fn, n |-> n, part |-> part])
  BY DEF TypeOK, Write
<1>2. /\ Len(Output) \in Nat
      /\ DOMAIN Output = 1..Len(Output)
      /\ DOMAIN Output' = 1..(Len(Output) + 1)
  BY <1>1
<1> QED
  BY <1>1, <1>2

LEMMA SuppressedStep == NoTimeoutInv /\ [Next]_vars => ReportedAreSuppressed'
<1> SUFFICES ASSUME NoTimeoutInv, [Next]_vars, ~SMTTimeoutOpt
             PROVE  ReportedAreSuppressed'
  BY DEF ReportedAreSuppressed, Next, vars, input, Skip, SMTFork, Solve, Report, Write, Exit,
         Timer, SMTJoin, Joined, NextFunction, Done
<1> USE DEF NoTimeoutInv, Inv, ReportedAreSuppressed, BeingReported, input
<1>1. CASE Skip
  BY <1>1 DEF Skip
<1>2. CASE SMTFork
  BY <1>2 DEF SMTFork
<1>3. CASE Solve
  BY <1>3 DEF Solve
<1>4. CASE Report
  <2>1. ASSUME NEW part \in Part, NEW next, Write(part, next),
               next \in {"taint", "stack", "returned"}
        PROVE  ReportedAreSuppressed'
    <3>1. /\ query = part /\ query' = next /\ Res = SMT_SAT
          /\ UNCHANGED <<input, fn, n, ReportedBugs, Res>>
      BY <2>1 DEF Write, AnswerKept
    <3>2. fn \in Nat
      BY IntSatAssumption DEF TypeOK
    <3>3. /\ DOMAIN Output' = DOMAIN Output \cup {Len(Output) + 1}
          /\ \A j \in DOMAIN Output : Output'[j] = Output[j]
          /\ LET o == Output'[Len(Output) + 1] IN o.f = fn /\ o.n = n
      BY <2>1, Appended
    <3>4. ASSUME NEW j \in DOMAIN Output
          PROVE  /\ Output[j].f <= fn
                 /\ Output[j].f = fn /\ Output[j].part = "kind" =>
                      prog[fn][Output[j].n].v \in ReportedBugs \/ BeingReported(Output[j])'
      BY <2>1, <3>1, <3>3
    <3> QED
      BY <2>1, <3>1, <3>2, <3>3, <3>4
  <2> QED
    BY <1>4, <2>1 DEF Report, Part
<1>5. CASE SMTJoin
  <2>1. /\ query = "returned" /\ fn' = fn /\ prog' = prog /\ Output' = Output
        /\ ReportedBugs' = IF Res = SMT_SAT THEN ReportedBugs \cup {prog[fn][n].v}
                           ELSE ReportedBugs
    BY <1>5 DEF SMTJoin, Joined, Status, I
  <2> QED
    BY <2>1
<1>6. CASE NextFunction
  <2>1. fn' = fn + 1 /\ prog' = prog /\ Output' = Output /\ fn \in Nat
    BY <1>6, IntSatAssumption DEF NextFunction, TypeOK
  <2>2. \A j \in DOMAIN Output : Output[j].f \in Nat
    <3>1. Output \in Seq([f: Nat, n: Nat, part: Part])
      BY DEF TypeOK
    <3>2. DOMAIN Output = 1..Len(Output)
      BY <3>1
    <3>3. \A j \in DOMAIN Output : Output[j] \in [f: Nat, n: Nat, part: Part]
      BY <3>1, <3>2, ElementOfSeq
    <3> QED
      BY <3>3
  <2> QED
    BY <2>1, <2>2
<1>7. CASE UNCHANGED vars
  BY <1>7 DEF vars
<1> QED
  BY <1>1, <1>2, <1>3, <1>4, <1>5, <1>6, <1>7 DEF Next, Done, Exit, Timer

LEMMA OnceStep == NoTimeoutInv /\ [Next]_vars => ReportsOnce'
<1> SUFFICES ASSUME NoTimeoutInv, [Next]_vars
             PROVE  ReportsOnce'
  OBVIOUS
<1>1. prog' = prog /\ SMTTimeoutOpt' = SMTTimeoutOpt
  BY DEF Next, vars, input, Skip, SMTFork, Solve, Report, Write, Exit, Timer, SMTJoin,
         Joined, NextFunction, Done
<1>2. CASE UNCHANGED Output
  BY <1>1, <1>2 DEF NoTimeoutInv, ReportsOnce
<1>3. ASSUME NEW part \in Part, NEW next, Write(part, next)
      PROVE  ReportsOnce'
  <2> SUFFICES ASSUME ~SMTTimeoutOpt, NEW i \in DOMAIN Output', NEW j \in DOMAIN Output',
                      i # j, Output'[i].f = Output'[j].f,
                      Output'[i].part = "kind", Output'[j].part = "kind"
               PROVE  prog[Output'[i].f][Output'[i].n].v # prog[Output'[j].f][Output'[j].n].v
    BY <1>1 DEF ReportsOnce
  <2> DEFINE new == Len(Output) + 1
  <2>1. /\ DOMAIN Output' = DOMAIN Output \cup {new} /\ new \notin DOMAIN Output
        /\ \A k \in DOMAIN Output : Output'[k] = Output[k]
        /\ Output'[new].f = fn /\ Output'[new].n = n /\ Output'[new].part = part
    BY <1>3, Appended DEF NoTimeoutInv, Inv
  <2>2. query = part
    BY <1>3 DEF Write
  <2> HIDE DEF new
  <2>3. ASSUME NEW k \in DOMAIN Output, Output[k].f = fn, Output[k].part = "kind",
               part = "kind"
        PROVE  prog[fn][Output[k].n].v # prog[fn][n].v
    <3>1. prog[fn][Output[k].n].v \in ReportedBugs
      BY <2>2, <2>3 DEF NoTimeoutInv, ReportedAreSuppressed, BeingReported
    <3>2. prog[fn][n].v \notin ReportedBugs
      BY <2>2, <2>3 DEF NoTimeoutInv, AnswerKept, I
    <3> QED
      BY <3>1, <3>2
  <2>4. CASE i \in DOMAIN Output /\ j \in DOMAIN Output
    BY <2>1, <2>4 DEF NoTimeoutInv, ReportsOnce
  <2>5. CASE i = new /\ j \in DOMAIN Output
    BY <2>1, <2>3, <2>5
  <2>6. CASE j = new /\ i \in DOMAIN Output
    BY <2>1, <2>3, <2>6
  <2> QED
    BY <2>1, <2>4, <2>5, <2>6
<1> QED
  BY <1>2, <1>3 DEF Next, vars, Skip, SMTFork, Solve, Report, Part, Exit, Timer, SMTJoin,
                    Joined, NextFunction, Done

THEOREM NoTimeoutInvariant == Spec => []NoTimeoutInv
<1>1. Init => NoTimeoutInv
  <2> SUFFICES ASSUME Init PROVE NoTimeoutInv
    OBVIOUS
  <2>1. Inv
    BY InvInit
  <2>2. AnswerKept
    BY DEF Init, InitAt, AnswerKept, Part
  <2>3. VisitedAreCovered
    <3>1. prog \in Seq(Seq(Trap))
      BY IntSatAssumption DEF Init, InitAt
    <3>2. \A f \in DOMAIN prog : f \in Nat \ {0} /\ \A i \in DOMAIN prog[f] : i \in Nat \ {0}
      BY <3>1
    <3> QED
      BY <3>2 DEF Init, InitAt, VisitedAreCovered, Visited
  <2>4. ReportedAreSuppressed /\ ReportsOnce
    BY DEF Init, InitAt, ReportedAreSuppressed, ReportsOnce
  <2> QED
    BY <2>1, <2>2, <2>3, <2>4 DEF NoTimeoutInv
<1>2. NoTimeoutInv /\ [Next]_vars => NoTimeoutInv'
  <2> SUFFICES ASSUME NoTimeoutInv, [Next]_vars PROVE NoTimeoutInv'
    OBVIOUS
  <2>1. Inv'
    BY TypeStep, ReportedStep DEF NoTimeoutInv, Inv
  <2>2. AnswerKept' /\ VisitedAreCovered'
    BY AnswerKeptStep, VisitedStep
  <2>3. ReportedAreSuppressed' /\ ReportsOnce'
    BY SuppressedStep, OnceStep
  <2> QED
    BY <2>1, <2>2, <2>3 DEF NoTimeoutInv
<1> QED
  BY <1>1, <1>2, PTL DEF Spec

\* Without a timeout every bug the solver finds in any module is reported by the
\* end of its function, itself or by an earlier trap on the same condition.
THEOREM EveryBugReported == Spec => []NothingLost
<1>1. NoTimeoutInv => NothingLost
  <2> SUFFICES ASSUME NoTimeoutInv, ~SMTTimeoutOpt, ~InFunction,
                      NEW f \in DOMAIN prog, NEW i \in DOMAIN prog[f], Bug(prog[f][i])
               PROVE  Covered(f, i)
    BY DEF NothingLost, Bug, Covered
  <2>1. prog \in Seq(Seq(Trap)) /\ fn \in Nat /\ fn > Len(prog)
    BY IntSatAssumption DEF NoTimeoutInv, Inv, TypeOK, InFunction
  <2>2. Visited(f, i)
    BY <2>1 DEF Visited
  <2> QED
    BY <2>2 DEF NoTimeoutInv, VisitedAreCovered
<1> QED
  BY <1>1, NoTimeoutInvariant, PTL

\* Without a timeout no condition of a function is reported twice.
THEOREM NeverReportedTwice == Spec => []ReportsOnce
<1>1. NoTimeoutInv => ReportsOnce
  BY DEF NoTimeoutInv
<1> QED
  BY <1>1, NoTimeoutInvariant, PTL
=============================================================================
