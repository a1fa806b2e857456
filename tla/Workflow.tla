------------------------------ MODULE Workflow ------------------------------
(***************************************************************************)
(* main() of intglobal (src/src/IntGlobal.cc) and the files it works on.    *)
(* The annotated modules are printed over the files they were read from,    *)
(* once after loading and once after each of TaintPass and RangePass; the   *)
(* program may be killed at any point and run again on what it has left.    *)
(***************************************************************************)
EXTENDS Integers, FiniteSets

CONSTANTS
    NumFiles,     \* the number of files on the command line
    MaxCrashes    \* bound: how often the program is killed

ASSUME WorkflowAssumption ==
    NumFiles \in Nat /\ MaxCrashes \in Nat

Files == 1..NumFiles

\* The annotations a module may carry.
Mark == {"id", "taint", "intrange"}

\* A file holds a whole module, a part of its text, nothing at all, or is gone.
Whole(marks) == [text |-> "whole", marks |-> marks]
Torn(text) == [text |-> text, marks |-> {}]

Content == [text: {"whole"}, marks: SUBSET Mark]
             \cup [text: {"partial", "empty", "gone"}, marks: {{}}]

VARIABLES
    NoWriteback,  \* the option -p
    file,     \* file -> what it holds
    stage,    \* where main() is
    cur,      \* the file of the loop that is executing
    Modules,  \* the files that have been loaded ...
    mem,      \* ... and what their modules hold in memory
    out,      \* doWriteback has opened the current file
    skipped,  \* the files that could not be opened when last to be written
    crashes   \* how often the program was killed

vars == <<NoWriteback, file, stage, cur, Modules, mem, out, skipped, crashes>>

Stage == {"stopped", "load", "CallGraph", "Taint", "Range", "exit"}

TypeOK ==
    /\ NoWriteback \in BOOLEAN
    /\ file \in [Files -> Content]
    /\ stage \in Stage
    /\ cur \in 1..(NumFiles + 1)
    /\ Modules \subseteq Files
    /\ mem \in [Files -> Content]
    /\ out \in BOOLEAN /\ skipped \subseteq Files
    /\ crashes \in 0..MaxCrashes

Nothing == [f \in Files |-> Torn("gone")]

Init ==
    /\ NoWriteback \in BOOLEAN
    /\ file = [f \in Files |-> Whole({})]
    /\ stage = "stopped" /\ cur = 1
    /\ Modules = {} /\ mem = Nothing
    /\ out = FALSE /\ skipped = {}
    /\ crashes = 0

----------------------------------------------------------------------------
(* doWriteback *)

\* F_Binary without append: opening the file truncates it.
Open ==
    /\ out' = TRUE
    /\ file' = [file EXCEPT ![cur] = Torn("empty")]
    /\ UNCHANGED <<cur, skipped>>

\* It cannot be opened: nothing is written, and main is not told.
CannotOpen ==
    /\ skipped' = skipped \cup {cur}
    /\ cur' = cur + 1
    /\ UNCHANGED <<file, out>>

\* M->print has written a part of the text.
PrintPart ==
    /\ out
    /\ file[cur].text = "empty" /\ mem[cur].text # "empty"
    /\ file' = [file EXCEPT ![cur] = Torn("partial")]
    /\ UNCHANGED <<NoWriteback, stage, cur, Modules, mem, out, skipped, crashes>>

Printed == mem[cur].text # "empty" => file[cur].text = "partial"

\* A doWriteback without keep(): the file is removed when out goes away.
KeepForgotten ==
    /\ out /\ Printed
    /\ file' = [file EXCEPT ![cur] = Torn("gone")]
    /\ out' = FALSE /\ skipped' = skipped \ {cur}
    /\ cur' = cur + 1
    /\ UNCHANGED <<NoWriteback, stage, Modules, mem, crashes>>

\* The text is complete and kept.
Keep ==
    /\ out /\ Printed
    /\ file' = [file EXCEPT ![cur] = mem[cur]]
    /\ out' = FALSE /\ skipped' = skipped \ {cur}
    /\ cur' = cur + 1
    /\ UNCHANGED <<NoWriteback, stage, Modules, mem, crashes>>

\* What main() and run() do after a module has been marked: with -p nothing.
Writeback ==
    IF NoWriteback THEN cur' = cur + 1 /\ UNCHANGED <<file, out, skipped>>
    ELSE Open \/ CannotOpen

----------------------------------------------------------------------------
(* main() *)

\* A pass that marks what is not there, one that drops the marks of others,
\* and the marking of a module that has not lost its text.
AddMarkAny(mark) == mem' = [mem EXCEPT ![cur].marks = @ \cup {mark}]

AddMarkOnly(mark) ==
    mem' = [mem EXCEPT ![cur].marks = IF mem[cur].text = "whole" THEN {mark} ELSE @]

AddMark(mark) ==
    mem' = [mem EXCEPT ![cur].marks = IF mem[cur].text = "whole" THEN @ \cup {mark} ELSE @]

Start ==
    /\ stage = "stopped"
    /\ stage' = "load"
    /\ UNCHANGED <<NoWriteback, file, cur, Modules, mem, out, skipped, crashes>>

\* ParseIRFile takes no text for a module without functions; a part of a text
\* may be one, short of what was cut off, or an error.
MayLoad == file[cur].text \in {"whole", "empty", "partial"}
MayFail == file[cur].text \in {"partial", "gone"}

\* The error is reported and the file left out, or the program insists on it.
LoadRetries ==
    /\ stage = "load" /\ cur <= NumFiles /\ ~out
    /\ MayFail
    /\ UNCHANGED vars

LoadFails ==
    /\ stage = "load" /\ cur <= NumFiles /\ ~out
    /\ MayFail
    /\ cur' = cur + 1
    /\ UNCHANGED <<NoWriteback, file, stage, Modules, mem, out, skipped, crashes>>

\* The module is loaded, annotated with identifiers and written back.
Load ==
    /\ stage = "load" /\ cur <= NumFiles /\ ~out
    /\ MayLoad
    /\ mem' = [mem EXCEPT ![cur] =
                 IF file[cur].text = "whole" THEN Whole(file[cur].marks \cup {"id"})
                 ELSE file[cur]]
    /\ Modules' = Modules \cup {cur}
    /\ Writeback
    /\ UNCHANGED <<NoWriteback, stage, crashes>>

\* CGPass.run writes nothing; before the files of a stage are finalized, the
\* sweeps of its pass over all the modules have ended.
NextStage ==
    /\ stage \in {"load", "CallGraph", "Taint", "Range"}
    /\ ~out
    /\ cur > NumFiles \/ stage = "CallGraph"
    /\ stage' = CASE stage = "load" -> "CallGraph"
                  [] stage = "CallGraph" -> "Taint"
                  [] stage = "Taint" -> "Range"
                  [] stage = "Range" -> "exit"
    /\ cur' = 1
    /\ UNCHANGED <<NoWriteback, file, Modules, mem, out, skipped, crashes>>

\* doFinalization of TaintPass or RangePass, which clears and sets the marks
\* of the module, and the writeback of it.
Finalize ==
    /\ stage \in {"Taint", "Range"} /\ cur \in Modules /\ ~out
    /\ AddMark(IF stage = "Taint" THEN "taint" ELSE "intrange")
    /\ Writeback
    /\ UNCHANGED <<NoWriteback, stage, Modules, crashes>>

NotLoaded ==
    /\ stage \in {"Taint", "Range"} /\ cur \in Files \ Modules
    /\ cur' = cur + 1
    /\ UNCHANGED <<NoWriteback, file, stage, Modules, mem, out, skipped, crashes>>

\* The program ends by a signal that tool_output_file catches and then removes
\* the file it has open, or by one that it cannot catch.
Crash ==
    /\ stage \in {"load", "CallGraph", "Taint", "Range"}
    /\ crashes < MaxCrashes
    /\ stage' = "stopped" /\ out' = FALSE /\ cur' = 1
    /\ crashes' = crashes + 1
    /\ \/ out /\ file' = [file EXCEPT ![cur] = Torn("gone")]
       \/ UNCHANGED file
    /\ Modules' = {} /\ mem' = Nothing
    /\ UNCHANGED <<NoWriteback, skipped>>

Exited == stage = "exit" /\ UNCHANGED vars

Run == Start \/ Load \/ LoadFails \/ NextStage \/ Finalize \/ NotLoaded \/ PrintPart \/ Keep

Next == Run \/ Crash \/ Exited

Spec == Init /\ [][Next]_vars

\* The user runs the program again when it was killed.
FairSpec == Spec /\ WF_vars(Run)

----------------------------------------------------------------------------
(* Properties *)

Damaged == {f \in Files : file[f].text # "whole"}

\* A crash costs at most the one file that is being written: no second file
\* is touched before the first is whole again.  With -p it costs none.
OneFilePerCrash ==
    Cardinality(Damaged \ (IF out THEN {cur} ELSE {})) <= IF NoWriteback THEN 0 ELSE crashes

\* Whatever was interrupted and run again, and whatever could not be written on
\* the way, a file that the program could write last has been through all the
\* passes when it exits.
ExitIsComplete ==
    stage = "exit" /\ ~NoWriteback =>
        \A f \in Files \ skipped : file[f].text = "whole" => file[f].marks = Mark

\* Run again often enough, the program comes to its end.
Exits == <>(stage = "exit")
=============================================================================
