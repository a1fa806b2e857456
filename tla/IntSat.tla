------------------------------- MODULE IntSat -------------------------------
(***************************************************************************)
(* The checking of int.sat traps (src/src/IntSat.cc) in a process of its    *)
(* own (SMTFork and SMTJoin of src/src/SMTSolver.cc).  With -smt-timeout    *)
(* every query runs in a forked child that writes its report to the shared, *)
(* unbuffered stderr and passes its result on as an exit status, while a    *)
(* timer may kill it at any point.  The parent only sees how it ended.      *)
(***************************************************************************)
EXTENDS Integers, Sequences, FiniteSets

CONSTANTS
    Val,       \* the conditions the traps test
    Programs   \* the modules the pass may be run on

\* SMTStatus
SMT_TIMEOUT == -1
SMT_UNDEF == 0
SMT_UNSAT == 1
SMT_SAT == 2

\* A query that does not end by itself.
Hang == 3

\* A call to int.sat: its condition, whether that is a constant, whether the
\* call has a location and a kind of bug, and what the solver makes of it.
Trap ==
    [v: Val, constant: BOOLEAN, loc: BOOLEAN, bug: BOOLEAN,
     answer: {Hang, SMT_UNDEF, SMT_UNSAT, SMT_SAT}]

ASSUME IntSatAssumption == Programs \subseteq Seq(Seq(Trap))

----------------------------------------------------------------------------
VARIABLES
    prog,          \* the functions of the module, each its traps in order
    SMTTimeoutOpt, \* a timeout is given on the command line
    fn, n,         \* the function and the trap being visited
    ReportedBugs,  \* the conditions of this function not to be asked again
    query,         \* how far query() is, in the child if there is one
    Res,           \* what it returns
    wait,          \* what waitpid finds: an exit status, or Killed
    Output         \* the parts of reports written: [f, n, part]

input == <<prog, SMTTimeoutOpt>>
vars == <<input, fn, n, ReportedBugs, query, Res, wait, Output>>

\* What query() writes of a bug, one write after the other: its kind and
\* status, its taint and sink, its stack.
Part == {"kind", "taint", "stack"}

Killed == -2

TypeOK ==
    /\ prog \in Programs
    /\ SMTTimeoutOpt \in BOOLEAN
    /\ fn \in 1..(Len(prog) + 1)
    /\ n \in Nat \ {0}
    /\ ReportedBugs \subseteq Val
    /\ query \in {"none", "solving", "returned", "joining"} \cup Part
    /\ Res \in {SMT_TIMEOUT, SMT_UNDEF, SMT_UNSAT, SMT_SAT}
    /\ wait \in {Killed} \cup 0..255
    /\ Output \in Seq([f: Nat, n: Nat, part: Part])

InitAt(first) ==
    /\ prog \in Programs
    /\ SMTTimeoutOpt \in BOOLEAN
    /\ fn = 1 /\ n = first
    /\ ReportedBugs = {}
    /\ query = "none" /\ Res = SMT_UNDEF /\ wait = 0
    /\ Output = <<>>

\* Counting the traps from 0, and from 1.
InitZero == InitAt(0)

Init == InitAt(1)

----------------------------------------------------------------------------
(* check() *)

InFunction == fn <= Len(prog)
AtTrap == InFunction /\ n <= Len(prog[fn])
I == prog[fn][n]

\* The early returns of check().
Ignored ==
    I.constant \/ I.v \in ReportedBugs \/ ~I.loc \/ ~I.bug

Skip ==
    /\ AtTrap /\ query = "none" /\ Ignored
    /\ n' = n + 1
    /\ UNCHANGED <<input, fn, ReportedBugs, query, Res, wait, Output>>

\* SMTFork: from here on query() runs, in a child if there is a timeout.
SMTFork ==
    /\ AtTrap /\ query = "none" /\ ~Ignored
    /\ query' = "solving"
    /\ UNCHANGED <<input, fn, n, ReportedBugs, Res, wait, Output>>

\* The solver returns.
Solve ==
    /\ query = "solving" /\ I.answer # Hang
    /\ Res' = I.answer
    /\ query' = IF I.answer = SMT_SAT THEN "kind" ELSE "returned"
    /\ UNCHANGED <<input, fn, n, ReportedBugs, wait, Output>>

Write(part, next) ==
    /\ query = part
    /\ Output' = Append(Output, [f |-> fn, n |-> n, part |-> part])
    /\ query' = next
    /\ UNCHANGED <<input, fn, n, ReportedBugs, Res, wait>>

Report == Write("kind", "taint") \/ Write("taint", "stack") \/ Write("stack", "returned")

\* SMTJoin in the child: _exit keeps the low eight bits of the status.
Exit ==
    /\ query = "returned" /\ SMTTimeoutOpt
    /\ wait' = Res % 256
    /\ query' = "joining"
    /\ UNCHANGED <<input, fn, n, ReportedBugs, Res, Output>>

\* SIGVTALRM, from the timer SMTFork sets, ends the child wherever it is.
Timer ==
    /\ SMTTimeoutOpt
    /\ query \in Part \cup {"solving", "returned"}
    /\ wait' = Killed
    /\ query' = "joining"
    /\ UNCHANGED <<input, fn, n, ReportedBugs, Res, Output>>

\* *status after waitpid of a child that did not exit by itself is -1; and
\* without the test, when the result the child has computed is taken instead.
StatusUnchecked == Res

Status ==
    IF ~SMTTimeoutOpt THEN Res
    ELSE IF wait = Killed THEN SMT_TIMEOUT ELSE wait

\* A parent that asks again what has timed out, one that forgets what has been
\* reported, and SMTJoin in the parent with the end of check().
Joined(sat, next) ==
    /\ query = IF SMTTimeoutOpt THEN "joining" ELSE "returned"
    /\ ReportedBugs' = IF sat THEN ReportedBugs \cup {I.v} ELSE ReportedBugs
    /\ query' = "none" /\ Res' = SMT_UNDEF /\ wait' = 0
    /\ n' = next
    /\ UNCHANGED <<input, fn, Output>>

SMTJoinRetries ==
    Joined(Status = SMT_SAT, IF Status = SMT_TIMEOUT THEN n ELSE n + 1)

SMTJoinForgets == Joined(FALSE, n + 1)

SMTJoin == Joined(Status = SMT_SAT, n + 1)

\* The end of runOnFunction and the start of the next, first without the
\* clear() of ReportedBugs.
NextFunctionKeeps ==
    /\ InFunction /\ n > Len(prog[fn])
    /\ fn' = fn + 1 /\ n' = 1
    /\ UNCHANGED <<input, ReportedBugs, query, Res, wait, Output>>

NextFunction ==
    /\ InFunction /\ n > Len(prog[fn])
    /\ fn' = fn + 1 /\ n' = 1
    /\ ReportedBugs' = {}
    /\ UNCHANGED <<input, query, Res, wait, Output>>

\* Without a timeout a query that hangs is waited for.
Hung == query = "solving" /\ I.answer = Hang /\ ~SMTTimeoutOpt

Done == (~InFunction \/ Hung) /\ UNCHANGED vars

Next ==
    \/ Skip \/ SMTFork \/ Solve \/ Report \/ Exit \/ Timer \/ SMTJoin
    \/ NextFunction \/ Done

Spec == Init /\ [][Next]_vars

\* A child either ends by itself or uses up its time.
FairSpec == Spec /\ WF_vars(Next)

----------------------------------------------------------------------------
(* Properties *)

Wrote(f, i, part) == [f |-> f, n |-> i, part |-> part] \in {Output[j] : j \in DOMAIN Output}

\* A condition is given up only after a whole report of it has been written:
\* the parent infers that from the exit status alone.
SuppressedIsReported ==
    \A v \in ReportedBugs : \E i \in 1..(n - 1) :
        prog[fn][i].v = v /\ Wrote(fn, i, "stack")

\* Without a timeout every bug that is to be reported is reported, itself or
\* by an earlier trap of its function on the same condition.
NothingLost ==
    ~SMTTimeoutOpt /\ ~InFunction =>
        \A f \in DOMAIN prog : \A i \in DOMAIN prog[f] :
            LET T == prog[f][i] IN
            T.answer = SMT_SAT /\ ~T.constant /\ T.loc /\ T.bug
            => \E j \in 1..i : prog[f][j].v = T.v /\ Wrote(f, j, "stack")

\* "Save to suppress furture warnings" (IntSat.cc:105): no two reports of one
\* condition of a function.  With a timeout that is not so: a child that is
\* killed while it reports is taken for one that has not answered.
ReportsOnce ==
    ~SMTTimeoutOpt =>
        \A i, j \in DOMAIN Output :
            LET a == Output[i]
                b == Output[j]
            IN i # j /\ a.f = b.f /\ a.part = "kind" /\ b.part = "kind"
               => prog[a.f][a.n].v # prog[b.f][b.n].v

\* With a timeout every module is checked to its end, though a query may hang.
Terminates == SMTTimeoutOpt => <>(~InFunction)
=============================================================================
