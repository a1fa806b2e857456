--------------------------- MODULE WorkflowProofs ---------------------------
(***************************************************************************)
(* Proofs about Workflow, for any number of files and of crashes: what a    *)
(* crash costs, and what a run that reaches its end leaves behind.          *)
(***************************************************************************)
EXTENDS Workflow, FiniteSetTheorems, TLAPS

\* The file is being written: what is in it is on its way to what is in memory.
Writing(f) == out /\ f = cur

\* doWriteback runs only where main() calls it, and never with -p.
WritebackInPlace ==
    /\ out => cur \in Modules /\ ~NoWriteback /\ stage \in {"load", "Taint", "Range"}
    /\ stage = "stopped" => cur = 1

\* The passes mark a module and leave its text alone.
SameText ==
    \A f \in Modules : Writing(f) \/ mem[f].text = file[f].text

\* The files of which a part of the text is lost for good: one that is being
\* written is not, as long as the whole text is in memory.
Lost == {f \in Files : IF Writing(f) THEN mem[f].text # "whole" ELSE file[f].text # "whole"}

LostToCrashes == Cardinality(Lost) <= IF NoWriteback THEN 0 ELSE crashes

\* Every file that was there to be loaded has been.
Tried(f) == stage \in {"CallGraph", "Taint", "Range", "exit"} \/ (stage = "load" /\ f < cur)

LoadedIfWhole ==
    \A f \in Files : Tried(f) /\ file[f].text = "whole" => f \in Modules

\* A file holds what is in memory unless it could not be opened.
FileIsMemory ==
    ~NoWriteback => \A f \in Modules \ skipped : Writing(f) \/ file[f] = mem[f]

\* The marks a module has collected in this run.
Finalized(f) == f < cur \/ Writing(f)

Collected(f) ==
    {"id"}
      \cup (IF stage \in {"Range", "exit"} \/ (stage = "Taint" /\ Finalized(f))
            THEN {"taint"} ELSE {})
      \cup (IF stage = "exit" \/ (stage = "Range" /\ Finalized(f))
            THEN {"intrange"} ELSE {})

MarksInMemory ==
    \A f \in Modules : mem[f].text = "whole" => Collected(f) \subseteq mem[f].marks

Inv ==
    /\ TypeOK
    /\ WritebackInPlace
    /\ SameText
    /\ LostToCrashes
    /\ LoadedIfWhole
    /\ FileIsMemory
    /\ MarksInMemory

\* What the files hold and the passes make of it.
LEMMA ContentType ==
    /\ \A t \in {"partial", "empty", "gone"} : Torn(t) \in Content /\ Torn(t).text = t
    /\ \A m \in SUBSET Mark :
          Whole(m) \in Content /\ Whole(m).text = "whole" /\ Whole(m).marks = m
    /\ \A c \in Content : c = [text |-> c.text, marks |-> c.marks] /\ c.marks \subseteq Mark
<1>1. \A t \in {"partial", "empty", "gone"} : Torn(t) \in Content /\ Torn(t).text = t
  BY DEF Torn, Content
<1>2. \A m \in SUBSET Mark :
        Whole(m) \in Content /\ Whole(m).text = "whole" /\ Whole(m).marks = m
  BY DEF Whole, Content
<1>3. \A c \in Content : c = [text |-> c.text, marks |-> c.marks] /\ c.marks \subseteq Mark
  BY DEF Content
<1> QED
  BY <1>1, <1>2, <1>3

\* AddMark adds the mark to a module that is whole and changes nothing else.
LEMMA MarkAdds ==
    ASSUME TypeOK, cur \in Files, NEW mark \in Mark, AddMark(mark)
    PROVE  /\ mem' \in [Files -> Content]
           /\ \A f \in Files : /\ mem'[f].text = mem[f].text
                               /\ mem[f].marks \subseteq mem'[f].marks
                               /\ f # cur => mem'[f] = mem[f]
           /\ mem[cur].text = "whole" => mark \in mem'[cur].marks
<1> DEFINE new == IF mem[cur].text = "whole" THEN mem[cur].marks \cup {mark} ELSE mem[cur].marks
<1>1. mem[cur] \in Content /\ mem \in [Files -> Content]
  BY DEF TypeOK
<1>2. mem[cur] = [text |-> mem[cur].text, marks |-> mem[cur].marks]
  BY <1>1, ContentType
<1>3. [mem[cur] EXCEPT !.marks = new] = [text |-> mem[cur].text, marks |-> new]
  BY <1>2
<1>4. [text |-> mem[cur].text, marks |-> new] \in Content
  BY <1>1 DEF Content
<1>5. mem' = [mem EXCEPT ![cur] = [text |-> mem[cur].text, marks |-> new]]
  BY <1>3 DEF AddMark
<1> HIDE DEF new
<1>6. /\ mem' \in [Files -> Content]
      /\ mem'[cur] = [text |-> mem[cur].text, marks |-> new]
      /\ \A f \in Files : f # cur => mem'[f] = mem[f]
  BY <1>1, <1>4, <1>5
<1>7. mem'[cur].text = mem[cur].text /\ mem'[cur].marks = new
  BY <1>6
<1>8. mem[cur].marks \subseteq new /\ (mem[cur].text = "whole" => mark \in new)
  BY DEF new
<1> QED
  BY <1>6, <1>7, <1>8

LEMMA InvInit == Init => Inv
<1> SUFFICES ASSUME Init PROVE Inv
  OBVIOUS
<1> USE WorkflowAssumption DEF Init, Nothing, Files
<1>1. TypeOK
  <2>1. Whole({}) \in Content /\ Torn("gone") \in Content
    BY ContentType
  <2>2. out \in BOOLEAN /\ NoWriteback \in BOOLEAN
    BY Zenon
  <2> QED
    BY <2>1, <2>2 DEF TypeOK, Stage
<1>2. LostToCrashes
  <2>1. Lost = {}
    BY ContentType DEF Lost, Writing
  <2> QED
    BY <2>1, FS_EmptySet DEF LostToCrashes
<1> QED
  BY <1>1, <1>2 DEF Inv, WritebackInPlace, SameText, LoadedIfWhole, FileIsMemory,
                    MarksInMemory, Tried

\* Every step keeps the variables in their types.
LEMMA TypeStep == TypeOK /\ WritebackInPlace /\ [Next]_vars => TypeOK'
<1> SUFFICES ASSUME TypeOK, WritebackInPlace, [Next]_vars
             PROVE  TypeOK'
  OBVIOUS
<1> USE WorkflowAssumption DEF TypeOK, WritebackInPlace, Files, Stage
<1>1. CASE Start
  BY <1>1 DEF Start
<1>2. ASSUME Writeback, cur \in Files
      PROVE  file' \in [Files -> Content] /\ cur' \in 1..(NumFiles + 1)
             /\ out' \in BOOLEAN /\ skipped' \subseteq Files
  <2>1. CASE NoWriteback
    <3>1. cur' = cur + 1 /\ file' = file /\ skipped' = skipped /\ out' = out
      BY <1>2, <2>1 DEF Writeback
    <3>2. out' \in BOOLEAN
      BY <3>1, Zenon
    <3> QED
      BY <1>2, <3>1, <3>2
  <2>2. CASE ~NoWriteback /\ Open
    <3>1. out' = TRUE
      BY <2>2 DEF Open
    <3>2. out' \in BOOLEAN
      BY <3>1, Zenon
    <3> QED
      BY <1>2, <2>2, <3>2, ContentType DEF Open
  <2>3. CASE ~NoWriteback /\ CannotOpen
    BY <1>2, <2>3 DEF CannotOpen
  <2> QED
    BY <1>2, <2>1, <2>2, <2>3 DEF Writeback
<1>3. CASE Load
  <2>1. cur \in Files
    BY <1>3 DEF Load
  <2>2. IF file[cur].text = "whole" THEN Whole(file[cur].marks \cup {"id"}) \in Content
                                   ELSE file[cur] \in Content
    BY <2>1, ContentType DEF Mark
  <2> QED
    BY <2>1, <2>2, <1>2, <1>3 DEF Load
<1>4. CASE LoadFails
  BY <1>4 DEF LoadFails
<1>5. CASE NextStage
  BY <1>5 DEF NextStage
<1>6. CASE Finalize
  <2>1. PICK mark \in Mark : AddMark(mark)
    BY <1>6 DEF Finalize, Mark
  <2>2. mem' \in [Files -> Content]
    BY <2>1, <1>6, MarkAdds DEF Finalize
  <2> QED
    BY <2>2, <1>2, <1>6 DEF Finalize
<1>7. CASE NotLoaded
  BY <1>7 DEF NotLoaded
<1>8. CASE PrintPart
  BY <1>8, ContentType DEF PrintPart
<1>9. CASE Keep
  <2>1. out' = FALSE /\ cur \in Files
    BY <1>9 DEF Keep
  <2>2. out' \in BOOLEAN
    BY <2>1, Zenon
  <2> QED
    BY <2>1, <2>2, <1>9 DEF Keep
<1>10. CASE Crash
  <2>1. out' = FALSE
    BY <1>10 DEF Crash
  <2>2. out' \in BOOLEAN
    BY <2>1, Zenon
  <2>3. file' \in [Files -> Content]
    BY <1>10, ContentType DEF Crash
  <2>4. mem' \in [Files -> Content] /\ Modules' = {}
    BY <1>10, ContentType DEF Crash, Nothing
  <2>5. cur' = 1 /\ stage' = "stopped" /\ skipped' = skipped /\ NoWriteback' = NoWriteback
        /\ crashes' \in 0..MaxCrashes
    BY <1>10 DEF Crash
  <2> QED
    BY <2>2, <2>3, <2>4, <2>5
<1>11. CASE UNCHANGED vars
  BY <1>11 DEF vars
<1> QED
  BY <1>1, <1>3, <1>4, <1>5, <1>6, <1>7, <1>8, <1>9, <1>10, <1>11 DEF Next, Run, Exited

\* What writing the current file back does, after a stage has marked it.
LEMMA WritebackEffect ==
    ASSUME TypeOK, cur \in Files, ~out, Writeback
    PROVE  /\ \A f \in Files : f # cur => file'[f] = file[f]
           /\ skipped \subseteq skipped'
           /\ out' => /\ ~NoWriteback /\ cur' = cur /\ skipped' = skipped
                      /\ file'[cur].text = "empty"
           /\ ~out' => /\ cur' = cur + 1 /\ file' = file
                       /\ ~NoWriteback => cur \in skipped'
<1>1. CASE NoWriteback
  BY <1>1 DEF Writeback
<1>2. CASE ~NoWriteback /\ Open
  BY <1>2, ContentType DEF Open, TypeOK
<1>3. CASE ~NoWriteback /\ CannotOpen
  BY <1>3 DEF CannotOpen
<1> QED
  BY <1>1, <1>2, <1>3 DEF Writeback

\* What loading or finalizing the current file does to the modules in memory.
LEMMA LoadEffect ==
    ASSUME TypeOK, Load
    PROVE  /\ cur \in Files /\ ~out /\ Writeback
           /\ stage = "load" /\ UNCHANGED <<NoWriteback, stage, crashes>>
           /\ Modules' = Modules \cup {cur}
           /\ \A f \in Files : f # cur => mem'[f] = mem[f]
           /\ mem'[cur].text = file[cur].text
           /\ mem'[cur].text = "whole" => "id" \in mem'[cur].marks
<1>1. cur \in Files
  BY DEF Load, TypeOK, Files
<1>2. mem'[cur] = IF file[cur].text = "whole" THEN Whole(file[cur].marks \cup {"id"})
                  ELSE file[cur]
  BY <1>1 DEF Load, TypeOK
<1>3. CASE file[cur].text = "whole"
  BY <1>1, <1>2, <1>3 DEF Load, TypeOK, Whole
<1>4. CASE file[cur].text # "whole"
  BY <1>1, <1>2, <1>4 DEF Load, TypeOK
<1> QED
  BY <1>3, <1>4

LEMMA FinalizeEffect ==
    ASSUME TypeOK, Finalize
    PROVE  /\ cur \in Files /\ ~out /\ Writeback
           /\ stage \in {"Taint", "Range"} /\ cur \in Modules
           /\ UNCHANGED <<NoWriteback, stage, Modules, crashes>>
           /\ \A f \in Files : /\ mem'[f].text = mem[f].text
                               /\ mem[f].marks \subseteq mem'[f].marks
                               /\ f # cur => mem'[f] = mem[f]
           /\ mem[cur].text = "whole" =>
                 (IF stage = "Taint" THEN "taint" ELSE "intrange") \in mem'[cur].marks
<1> DEFINE mark == IF stage = "Taint" THEN "taint" ELSE "intrange"
<1>1. /\ cur \in Files /\ ~out /\ Writeback
      /\ stage \in {"Taint", "Range"} /\ cur \in Modules
      /\ UNCHANGED <<NoWriteback, stage, Modules, crashes>>
  BY DEF Finalize, TypeOK
<1>2. mark \in Mark /\ AddMark(mark)
  BY DEF Finalize, Mark
<1> HIDE DEF mark
<1>3. /\ \A f \in Files : /\ mem'[f].text = mem[f].text
                          /\ mem[f].marks \subseteq mem'[f].marks
                          /\ f # cur => mem'[f] = mem[f]
      /\ mem[cur].text = "whole" => mark \in mem'[cur].marks
  BY <1>1, <1>2, MarkAdds
<1> QED
  BY <1>1, <1>3 DEF mark

LEMMA InPlaceStep == Inv /\ [Next]_vars => WritebackInPlace'
<1> SUFFICES ASSUME TypeOK, WritebackInPlace, [Next]_vars
             PROVE  WritebackInPlace'
  BY DEF Inv
<1> USE DEF WritebackInPlace
<1>1. CASE Load
  BY <1>1 DEF Load, Writeback, Open, CannotOpen
<1>2. CASE Finalize
  BY <1>2 DEF Finalize, Writeback, Open, CannotOpen
<1>3. CASE UNCHANGED vars
  BY <1>3 DEF vars
<1> QED
  BY <1>1, <1>2, <1>3 DEF Next, Run, Exited, Start, LoadFails, NextStage, NotLoaded,
                          PrintPart, Keep, Crash

LEMMA SameTextStep == Inv /\ [Next]_vars => SameText'
<1> SUFFICES ASSUME Inv, [Next]_vars
             PROVE  SameText'
  OBVIOUS
<1> USE DEF Inv, TypeOK, WritebackInPlace, SameText, Writing
<1>1. CASE Load
  BY <1>1, LoadEffect, WritebackEffect
<1>2. CASE Finalize
  <2>1. /\ TypeOK /\ cur \in Files /\ ~out /\ Writeback
        /\ Modules' = Modules /\ UNCHANGED <<NoWriteback, stage>>
        /\ \A f \in Files : mem'[f].text = mem[f].text
    BY <1>2, FinalizeEffect
  <2> QED
    BY <2>1, WritebackEffect
<1>3. CASE PrintPart
  BY <1>3 DEF PrintPart
<1>4. CASE Keep
  BY <1>4 DEF Keep
<1>5. CASE Start \/ LoadFails \/ NextStage \/ NotLoaded \/ Crash
  BY <1>5 DEF Start, LoadFails, NextStage, NotLoaded, Crash
<1>6. CASE UNCHANGED vars
  BY <1>6 DEF vars
<1> QED
  BY <1>1, <1>2, <1>3, <1>4, <1>5, <1>6 DEF Next, Run, Exited

LEMMA LoadedStep == Inv /\ [Next]_vars => LoadedIfWhole'
<1> SUFFICES ASSUME Inv, [Next]_vars
             PROVE  LoadedIfWhole'
  OBVIOUS
<1> USE WorkflowAssumption DEF Inv, TypeOK, WritebackInPlace, LoadedIfWhole, Tried, Files
<1>1. CASE Load
  BY <1>1, LoadEffect, WritebackEffect
<1>2. CASE Finalize
  BY <1>2, FinalizeEffect, WritebackEffect
<1>3. CASE LoadFails
  BY <1>3 DEF LoadFails, MayFail
<1>4. CASE NextStage
  BY <1>4 DEF NextStage
<1>5. CASE PrintPart
  BY <1>5, ContentType DEF PrintPart
<1>6. CASE Keep
  BY <1>6 DEF Keep
<1>7. CASE Start
  BY <1>7 DEF Start
<1>9. CASE NotLoaded
  BY <1>9 DEF NotLoaded
<1>10. CASE Crash
  BY <1>10 DEF Crash
<1>8. CASE UNCHANGED vars
  BY <1>8 DEF vars
<1> QED
  BY <1>1, <1>2, <1>3, <1>4, <1>5, <1>6, <1>7, <1>8, <1>9, <1>10 DEF Next, Run, Exited

LEMMA FileIsMemoryStep == Inv /\ [Next]_vars => FileIsMemory'
<1> SUFFICES ASSUME Inv, [Next]_vars
             PROVE  FileIsMemory'
  OBVIOUS
<1> USE DEF Inv, TypeOK, WritebackInPlace, FileIsMemory, Writing
<1>1. CASE Load
  BY <1>1, LoadEffect, WritebackEffect
<1>2. CASE Finalize
  <2>1. /\ TypeOK /\ cur \in Files /\ ~out /\ Writeback
        /\ Modules' = Modules /\ UNCHANGED <<NoWriteback, stage>>
        /\ \A f \in Files : f # cur => mem'[f] = mem[f]
    BY <1>2, FinalizeEffect
  <2> QED
    BY <2>1, WritebackEffect
<1>3. CASE PrintPart
  BY <1>3 DEF PrintPart
<1>4. CASE Keep
  BY <1>4 DEF Keep
<1>5. CASE Start \/ LoadFails \/ NextStage \/ NotLoaded \/ Crash
  BY <1>5 DEF Start, LoadFails, NextStage, NotLoaded, Crash
<1>6. CASE UNCHANGED vars
  BY <1>6 DEF vars
<1> QED
  BY <1>1, <1>2, <1>3, <1>4, <1>5, <1>6 DEF Next, Run, Exited

LEMMA MarksStep == Inv /\ [Next]_vars => MarksInMemory'
<1> SUFFICES ASSUME Inv, [Next]_vars
             PROVE  MarksInMemory'
  OBVIOUS
<1> USE WorkflowAssumption DEF Inv, TypeOK, WritebackInPlace, MarksInMemory, Collected, Finalized, Writing, Files
<1>1. CASE Load
  <2>1. /\ cur \in Files /\ stage' = "load" /\ stage = "load"
        /\ Modules' = Modules \cup {cur}
        /\ \A f \in Files : f # cur => mem'[f] = mem[f]
        /\ mem'[cur].text = "whole" => "id" \in mem'[cur].marks
    BY <1>1, LoadEffect
  <2>2. \A f \in Files : Collected(f) = {"id"} /\ Collected(f)' = {"id"}
    BY <2>1
  <2> QED
    BY <2>1, <2>2
<1>2. CASE Finalize
  <2>1. /\ TypeOK /\ cur \in Files /\ ~out /\ Writeback
        /\ stage \in {"Taint", "Range"}
        /\ Modules' = Modules /\ UNCHANGED <<NoWriteback, stage>>
        /\ \A f \in Files : /\ mem'[f].text = mem[f].text
                            /\ mem[f].marks \subseteq mem'[f].marks
                            /\ f # cur => mem'[f] = mem[f]
        /\ mem[cur].text = "whole" =>
              (IF stage = "Taint" THEN "taint" ELSE "intrange") \in mem'[cur].marks
    BY <1>2, FinalizeEffect
  <2>2. ASSUME NEW f \in Modules, mem'[f].text = "whole"
        PROVE  Collected(f)' \subseteq mem'[f].marks
    <3>1. Finalized(f)' => Finalized(f) \/ f = cur
      BY <2>1, WritebackEffect
    <3>2. Collected(f) \subseteq mem'[f].marks
      BY <2>1, <2>2
    <3> QED
      BY <2>1, <2>2, <3>1, <3>2
  <2> QED
    BY <2>1, <2>2
<1>3. CASE NextStage
  BY <1>3 DEF NextStage
<1>4. CASE PrintPart
  BY <1>4 DEF PrintPart
<1>5. CASE Keep
  <2>1. /\ out /\ ~out' /\ cur' = cur + 1
        /\ UNCHANGED <<NoWriteback, stage, Modules, mem>>
    BY <1>5 DEF Keep
  <2>2. \A f \in Files : Finalized(f)' => Finalized(f)
    BY <2>1
  <2>3. \A f \in Files : Collected(f)' \subseteq Collected(f)
    BY <2>1, <2>2
  <2> QED
    BY <2>1, <2>3
<1>8. CASE Start
  BY <1>8 DEF Start
<1>9. CASE LoadFails
  BY <1>9 DEF LoadFails
<1>10. CASE NotLoaded
  BY <1>10 DEF NotLoaded
<1>6. CASE Crash
  BY <1>6 DEF Crash
<1>7. CASE UNCHANGED vars
  BY <1>7 DEF vars
<1> QED
  BY <1>1, <1>2, <1>3, <1>4, <1>5, <1>6, <1>7, <1>8, <1>9, <1>10 DEF Next, Run, Exited

\* A set of files is finite.
LEMMA FilesFinite ==
    ASSUME NEW S \in SUBSET Files
    PROVE  IsFiniteSet(S) /\ Cardinality(S) \in Nat
<1>1. IsFiniteSet(Files)
  BY WorkflowAssumption, FS_Interval DEF Files
<1> QED
  BY <1>1, FS_Subset, FS_CardinalityType

\* Only a crash loses a file, and it loses one.
LEMMA LostStep ==
    ASSUME Inv, [Next]_vars
    PROVE  \/ Lost' \subseteq Lost
           \/ /\ ~NoWriteback /\ crashes' = crashes + 1
              /\ Lost' \subseteq Lost \cup {cur}
<1> USE DEF Inv, TypeOK, WritebackInPlace, SameText, Lost, Writing
<1>1. CASE Load
  <2>1. /\ cur \in Files /\ ~out /\ Writeback
        /\ Modules' = Modules \cup {cur}
        /\ mem'[cur].text = file[cur].text
    BY <1>1, LoadEffect
  <2> QED
    BY <2>1, WritebackEffect
<1>2. CASE Finalize
  <2>1. /\ cur \in Files /\ ~out /\ Writeback /\ cur \in Modules
        /\ \A f \in Files : mem'[f].text = mem[f].text
    BY <1>2, FinalizeEffect
  <2> QED
    BY <2>1, WritebackEffect
<1>3. CASE PrintPart
  BY <1>3 DEF PrintPart
<1>4. CASE Keep
  BY <1>4 DEF Keep
<1>5. CASE Start \/ LoadFails \/ NextStage \/ NotLoaded
  BY <1>5 DEF Start, LoadFails, NextStage, NotLoaded
<1>6. CASE Crash
  <2>1. CASE out /\ file' = [file EXCEPT ![cur] = Torn("gone")]
    BY <1>6, <2>1 DEF Crash
  <2>2. CASE UNCHANGED file /\ out
    BY <1>6, <2>2 DEF Crash
  <2>3. CASE UNCHANGED file /\ ~out
    BY <1>6, <2>3 DEF Crash
  <2> QED
    BY <1>6, <2>1, <2>2, <2>3 DEF Crash
<1>7. CASE UNCHANGED vars
  BY <1>7 DEF vars
<1> QED
  BY <1>1, <1>2, <1>3, <1>4, <1>5, <1>6, <1>7 DEF Next, Run, Exited

LEMMA LostToCrashesStep == Inv /\ [Next]_vars => LostToCrashes'
<1> SUFFICES ASSUME Inv, [Next]_vars
             PROVE  LostToCrashes'
  OBVIOUS
<1>1. /\ NoWriteback' = NoWriteback
      /\ crashes \in Nat /\ (crashes' = crashes \/ crashes' = crashes + 1)
  BY DEF Inv, TypeOK, Next, Run, Exited, vars, Start, Load, LoadFails, NextStage, Finalize,
         NotLoaded, PrintPart, Keep, Crash
<1>2. Lost \in SUBSET Files /\ Lost' \in SUBSET Files
  BY DEF Lost, Files
<1>3. /\ IsFiniteSet(Lost) /\ Cardinality(Lost) \in Nat
      /\ IsFiniteSet(Lost') /\ Cardinality(Lost') \in Nat
  BY <1>2, FilesFinite
<1>4. CASE Lost' \subseteq Lost
  <2>1. Cardinality(Lost') <= Cardinality(Lost)
    BY <1>3, <1>4, FS_Subset
  <2> QED
    BY <2>1, <1>1, <1>3 DEF Inv, LostToCrashes
<1>5. CASE /\ ~NoWriteback /\ crashes' = crashes + 1
           /\ Lost' \subseteq Lost \cup {cur}
  <2>1. /\ IsFiniteSet(Lost \cup {cur})
        /\ Cardinality(Lost \cup {cur}) <= Cardinality(Lost) + 1
        /\ Cardinality(Lost \cup {cur}) \in Nat
    <3>1. /\ IsFiniteSet(Lost \cup {cur})
          /\ Cardinality(Lost \cup {cur})
               = IF cur \in Lost THEN Cardinality(Lost) ELSE Cardinality(Lost) + 1
      BY <1>3, FS_AddElement
    <3> QED
      BY <1>3, <3>1
  <2>2. Cardinality(Lost') <= Cardinality(Lost \cup {cur})
    BY <2>1, <1>5, FS_Subset
  <2>3. Cardinality(Lost') <= Cardinality(Lost) + 1
    BY <2>1, <2>2, <1>3
  <2> QED
    BY <2>3, <1>1, <1>3, <1>5 DEF Inv, LostToCrashes
<1> QED
  BY <1>4, <1>5, LostStep

THEOREM Invariant == Spec => []Inv
<1>1. Init => Inv
  BY InvInit
<1>2. Inv /\ [Next]_vars => Inv'
  <2> SUFFICES ASSUME Inv, [Next]_vars PROVE Inv'
    OBVIOUS
  <2>1. TypeOK'
    BY TypeStep DEF Inv
  <2>2. WritebackInPlace' /\ SameText' /\ LostToCrashes'
    BY InPlaceStep, SameTextStep, LostToCrashesStep
  <2>3. LoadedIfWhole' /\ FileIsMemory' /\ MarksInMemory'
    BY LoadedStep, FileIsMemoryStep, MarksStep
  <2> QED
    BY <2>1, <2>2, <2>3 DEF Inv
<1> QED
  BY <1>1, <1>2, PTL DEF Spec

\* The variables of Workflow keep their types.
THEOREM TypeCorrect == Spec => []TypeOK
<1>1. Inv => TypeOK
  BY DEF Inv
<1> QED
  BY <1>1, Invariant, PTL

\* However many files there are and wherever the program is killed, a crash of
\* the writeback costs at most one of them, and none with -p.
THEOREM CrashesCostOneFile == Spec => []OneFilePerCrash
<1>1. Inv => OneFilePerCrash
  <2> SUFFICES ASSUME Inv PROVE OneFilePerCrash
    OBVIOUS
  <2> DEFINE D == Damaged \ (IF out THEN {cur} ELSE {})
  <2>1. D \subseteq Lost /\ Lost \in SUBSET Files
    BY DEF Damaged, Lost, Writing
  <2> HIDE DEF D
  <2>2. IsFiniteSet(Lost) /\ Cardinality(Lost) \in Nat
    BY <2>1, FilesFinite
  <2>3. Cardinality(D) <= Cardinality(Lost) /\ Cardinality(D) \in Nat
    BY <2>1, <2>2, FS_Subset, FS_CardinalityType
  <2>4. crashes \in Nat
    BY DEF Inv, TypeOK
  <2>5. Cardinality(D) <= IF NoWriteback THEN 0 ELSE crashes
    BY <2>2, <2>3, <2>4 DEF Inv, LostToCrashes
  <2> QED
    BY <2>5 DEF D, OneFilePerCrash
<1> QED
  BY <1>1, Invariant, PTL

\* When the program exits, every file that is whole and could be written last
\* carries the marks of all the passes.
THEOREM ExitsComplete == Spec => []ExitIsComplete
<1>1. Inv => ExitIsComplete
  <2> SUFFICES ASSUME Inv, stage = "exit", ~NoWriteback,
                      NEW f \in Files \ skipped, file[f].text = "whole"
               PROVE  file[f].marks = Mark
    BY DEF ExitIsComplete
  <2>1. f \in Modules \ skipped
    BY DEF Inv, LoadedIfWhole, Tried
  <2>2. file[f] = mem[f]
    BY <2>1 DEF Inv, FileIsMemory, WritebackInPlace, Writing
  <2>3. Collected(f) = Mark
    BY DEF Collected, Mark
  <2>4. Mark \subseteq mem[f].marks
    BY <2>1, <2>2, <2>3 DEF Inv, MarksInMemory
  <2>5. mem[f].marks \subseteq Mark
    BY ContentType DEF Inv, TypeOK
  <2> QED
    BY <2>2, <2>4, <2>5
<1> QED
  BY <1>1, Invariant, PTL
=============================================================================
