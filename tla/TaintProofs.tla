----------------------------- MODULE TaintProofs ----------------------------
(***************************************************************************)
(* Proofs about Taint, for every program over any number of modules.         *)
(***************************************************************************)
EXTENDS Taint, FiniteSetTheorems, TLAPS

----------------------------------------------------------------------------
(* Identifiers *)

\* The qualifier of a global value's identifiers is a stem or none.
LEMMA ScopeStemType ==
    ASSUME NEW gv \in GlobalValue
    PROVE  ScopeStem(gv) \in STRING \cup {NoStem}
<1>1. gv.mod \in 1..NumModules
  BY DEF GlobalValue, ModuleNo
<1>2. Stem[gv.mod] \in STRING
  BY <1>1, IdsAssumption
<1> QED
  BY <1>2 DEF ScopeStem

\* An argument identifier is an identifier, for any argument number.
LEMMA ArgIdType ==
    ASSUME NEW f \in GlobalValue, NEW n \in Nat
    PROVE  ArgId(f, n) \in Id
<1>1. ScopeStem(f) \in STRING \cup {NoStem}
  BY ScopeStemType
<1>2. <<"arg">> \in Seq({"var", "arg", "ret", "struct"})
  OBVIOUS
<1> QED
  BY <1>1, <1>2 DEF ArgId, Id, GlobalValue

\* So is a return identifier.
LEMMA RetIdType ==
    ASSUME NEW f \in GlobalValue
    PROVE  RetId(f) \in Id
<1>1. ScopeStem(f) \in STRING \cup {NoStem}
  BY ScopeStemType
<1>2. <<"ret">> \in Seq({"var", "arg", "ret", "struct"})
  OBVIOUS
<1> QED
  BY <1>1, <1>2 DEF RetId, Id, GlobalValue

----------------------------------------------------------------------------
(* The driver *)

LEMMA DriverInitType == DriverInit => DriverTypeOK
  BY IdsAssumption DEF DriverInit, DriverTypeOK, Phase

\* The loops around doInitialization and doFinalization.
LEMMA ForModuleType ==
    ASSUME DriverTypeOK, NEW p, ForModule(p)
    PROVE  DriverTypeOK' /\ mod \in ModuleNo /\ phase' = phase /\ phase = p
  BY IdsAssumption DEF DriverTypeOK, ForModule, ModuleNo

LEMMA EndModulePassType ==
    ASSUME DriverTypeOK, NEW r, EndModulePass(r)
    PROVE  DriverTypeOK'
  BY IdsAssumption DEF DriverTypeOK, EndModulePass, InModulePass

\* The driver's own steps start from the end of a loop.
LEMMA DriveType ==
    ASSUME DriverTypeOK, BeginSweep \/ BeginFinal \/ Finish
    PROVE  DriverTypeOK' /\ mod > NumModules
<1>1. CASE BeginSweep
  BY <1>1, IdsAssumption DEF BeginSweep, DriverTypeOK, Phase
<1>2. CASE BeginFinal
  BY <1>2, IdsAssumption DEF BeginFinal, DriverTypeOK, Phase
<1>3. CASE Finish
  BY <1>3 DEF Finish, DriverTypeOK, Phase
<1> QED
  BY <1>1, <1>2, <1>3

----------------------------------------------------------------------------
(* TaintMap *)

\* Well-formed entries: descriptions, and at least one.
Entries(map) == \A x \in DOMAIN map : map[x] \subseteq Desc /\ map[x] # {}

\* What is in a map stays there.
Grows(map, new) == \A x \in DOMAIN map : x \in DOMAIN new /\ map[x] \subseteq new[x]

LEMMA GrowsTransitive ==
    ASSUME NEW A, NEW B, NEW C, Grows(A, B), Grows(B, C)
    PROVE  Grows(A, C)
  BY DEF Grows

LEMMA GrowsReflexive == \A A : Grows(A, A)
  BY DEF Grows

\* Inserting descriptions keeps entries well formed and takes nothing away.
LEMMA InsertEntries ==
    ASSUME NEW map, NEW keys, NEW descs, Entries(map),
           keys # {} => descs \subseteq Desc /\ descs # {}
    PROVE  /\ Entries(Insert(map, keys, descs))
           /\ Grows(map, Insert(map, keys, descs))
           /\ DOMAIN Insert(map, keys, descs) = DOMAIN map \cup keys
<1> DEFINE new == Insert(map, keys, descs)
<1>1. DOMAIN new = DOMAIN map \cup keys
  BY DEF Insert
<1>2. \A x \in DOMAIN new :
        new[x] = (IF x \in DOMAIN map THEN map[x] ELSE {})
                   \cup (IF x \in keys THEN descs ELSE {})
  BY DEF Insert
<1> HIDE DEF new
<1>3. Entries(new)
  BY <1>1, <1>2 DEF Entries
<1>4. Grows(map, new)
  BY <1>1, <1>2 DEF Grows
<1> QED
  BY <1>1, <1>3, <1>4 DEF new

LEMMA AddGlobalEntries ==
    ASSUME NEW G, NEW ids \in SUBSET Id, NEW descs, Entries(G), DOMAIN G \subseteq Id,
           ids \ {NoId} # {} => descs \subseteq Desc /\ descs # {}
    PROVE  /\ Entries(AddGlobal(G, ids, descs))
           /\ Grows(G, AddGlobal(G, ids, descs))
           /\ DOMAIN AddGlobal(G, ids, descs) = DOMAIN G \cup (ids \ {NoId})
  BY InsertEntries DEF AddGlobal

\* Whatever getTaint finds under identifiers is a set of descriptions, and if
\* there is an entry it is not empty.
LEMMA FromGlobalEntries ==
    ASSUME NEW G, Entries(G), NEW v
    PROVE  /\ FromGlobal(G, v) \subseteq Desc
           /\ GlobalIds(v) \cap DOMAIN G # {} => FromGlobal(G, v) # {}
<1> DEFINE ids == GlobalIds(v) \cap DOMAIN G
<1>1. FromGlobal(G, v) = UNION {G[x] : x \in ids}
  BY DEF FromGlobal
<1>2. \A x \in ids : G[x] \subseteq Desc /\ G[x] # {}
  BY DEF Entries
<1> HIDE DEF ids
<1>3. UNION {G[x] : x \in ids} \subseteq Desc
  BY <1>2
<1>4. ids # {} => UNION {G[x] : x \in ids} # {}
  BY <1>2
<1> QED
  BY <1>1, <1>3, <1>4 DEF ids

\* The cache keeps its entries and takes over well-formed ones.
LEMMA CacheEntries ==
    ASSUME NEW G, NEW V, NEW vs, Entries(G), Entries(V)
    PROVE  /\ Entries(Cache(G, V, vs))
           /\ Grows(V, Cache(G, V, vs))
           /\ DOMAIN Cache(G, V, vs) \subseteq DOMAIN V \cup vs
<1> DEFINE fresh == {v \in vs : ~Known(V, v) /\ GlobalIds(v) \cap DOMAIN G # {}}
           new == Cache(G, V, vs)
<1>1. new = [v \in DOMAIN V \cup fresh |-> IF v \in fresh THEN FromGlobal(G, v) ELSE V[v]]
  BY DEF Cache
<1>2. \A v \in fresh : /\ v \notin DOMAIN V /\ v \in vs
                       /\ FromGlobal(G, v) \subseteq Desc /\ FromGlobal(G, v) # {}
  BY FromGlobalEntries DEF Known
<1> HIDE DEF fresh, new
<1>3. /\ DOMAIN new = DOMAIN V \cup fresh
      /\ \A v \in fresh : new[v] = FromGlobal(G, v)
      /\ \A v \in DOMAIN V : new[v] = V[v]
  BY <1>1, <1>2
<1>4. Entries(new) /\ Grows(V, new) /\ DOMAIN new \subseteq DOMAIN V \cup vs
  BY <1>2, <1>3 DEF Entries, Grows
<1> QED
  BY <1>4 DEF new

\* What is known of a value is a set of descriptions, and not the empty one.
LEMMA GetTaintEntries ==
    ASSUME NEW G, NEW V, NEW v, Entries(G), Entries(V)
    PROVE  /\ getTaint(G, V, v) \subseteq Desc
           /\ Known(V, v) => getTaint(G, V, v) # {}
<1>1. CASE v \in DOMAIN V
  BY <1>1 DEF getTaint, Entries
<1>2. CASE v \notin DOMAIN V /\ Strip(v) \in DOMAIN V
  BY <1>2 DEF getTaint, Entries
<1>3. CASE v \notin DOMAIN V /\ Strip(v) \notin DOMAIN V
  BY <1>3, FromGlobalEntries DEF getTaint, Known
<1> QED
  BY <1>1, <1>2, <1>3

----------------------------------------------------------------------------
(* Type correctness *)

\* A call stays the current instruction until its callees have been entered.
CallInProgress ==
    todo # <<>> =>
        InModulePass /\ k <= Len(Code) /\ Current.op = "call" /\ no < Len(Current.ops)

Inv == TypeOK /\ CallInProgress /\ EntriesNonEmpty

\* The program is not touched by the pass.
LEMMA ProgramKept == [Next]_vars => prog' = prog
  BY DEF Next, vars, passVars, doInitialization, Drive, Done, VisitCall, VisitArgument, VisitOther,
         SweepAgain, ReturnFromModule, MarkInstruction, doFinalization, NextInstruction

LEMMA InvEntries == Inv => Entries(GTS) /\ Entries(VTS)
  BY DEF Inv, TypeOK, EntriesNonEmpty, Entries

\* The instruction of a module that is being visited, and its value.
LEMMA CurrentType ==
    ASSUME TypeOK, mod <= NumModules, k <= Len(Code)
    PROVE  /\ mod \in ModuleNo /\ Code \in Seq(Instr) /\ k \in DOMAIN Code
           /\ Current \in Instr /\ Len(Current.ops) \in Nat
           /\ Result \in Value
           /\ \A i \in DOMAIN Current.ops : Current.ops[i] \in Value
<1>1. mod \in ModuleNo
  BY IdsAssumption DEF TypeOK, DriverTypeOK, ModuleNo
<1>2. Code \in Seq(Instr)
  BY <1>1 DEF TypeOK, Program, Code
<1>3. k \in 1..Len(Code)
  BY <1>2 DEF TypeOK
<1>4. Current \in Instr
  BY <1>2, <1>3 DEF Current
<1>5. Current.ops \in Seq(Value) /\ Current.label \in Int
  BY <1>4 DEF Instr
<1>6. Result \in Value
  BY <1>1, <1>5 DEF Result, Value
<1>7. \A i \in DOMAIN Current.ops : Current.ops[i] \in Value
  BY <1>5
<1> QED
  BY <1>1, <1>2, <1>3, <1>4, <1>5, <1>6, <1>7

\* The order in which callees are entered is a sequence of them.
LEMMA OrdersType ==
    ASSUME NEW S \in SUBSET Fns, NEW s \in Orders(S)
    PROVE  s \in Seq(Fns) /\ (S = {} => s = <<>>)
<1>1. IsFiniteSet(S)
  BY TaintAssumption, FS_Subset
<1>2. Cardinality(S) \in Nat
  BY <1>1, FS_CardinalityType
<1>3. s \in [1..Cardinality(S) -> S]
  BY DEF Orders
<1>4. s \in Seq(S) /\ Len(s) = Cardinality(S)
  BY <1>2, <1>3
<1>5. S = {} => Cardinality(S) = 0
  BY FS_EmptySet
<1>6. Cardinality(S) = 0 => s = <<>>
  BY <1>4
<1>7. s \in Seq(Fns)
  BY <1>4
<1> QED
  BY <1>5, <1>6, <1>7

\* checkTaintSource leaves the maps well formed.
LEMMA SourceEntries ==
    ASSUME Inv, mod <= NumModules, k <= Len(Code)
    PROVE  /\ Entries(SourceVTS) /\ Grows(VTS, SourceVTS) /\ DOMAIN SourceVTS \subseteq Value
           /\ Entries(SourceGTS) /\ Grows(GTS, SourceGTS)
           /\ DOMAIN SourceGTS = DOMAIN GTS \cup SourceIds
           /\ DOMAIN SourceGTS \subseteq Id
<1>1. Current \in Instr /\ Result \in Value
  BY CurrentType DEF Inv
<1>2. /\ Current.src \subseteq Desc /\ Current.id \in Id /\ Current.fields \subseteq Id
      /\ DOMAIN GTS \subseteq Id /\ DOMAIN VTS \subseteq Value
      /\ Entries(GTS) /\ Entries(VTS)
  BY <1>1, InvEntries DEF Instr, Inv, TypeOK
<1>3. CASE Current.src = {}
  BY <1>2, <1>3, GrowsReflexive DEF SourceVTS, SourceGTS, SourceIds
<1>4. CASE Current.src # {}
  <2>1. SourceVTS = Insert(VTS, {Result}, Current.src)
    BY <1>4 DEF SourceVTS
  <2>2. /\ Entries(SourceVTS) /\ Grows(VTS, SourceVTS)
        /\ DOMAIN SourceVTS = DOMAIN VTS \cup {Result}
    BY <2>1, <1>2, <1>4, InsertEntries
  <2>3. SourceVTS[Result] \subseteq Desc /\ SourceVTS[Result] # {}
    BY <2>2 DEF Entries
  <2>4. /\ SourceGTS = AddGlobal(GTS, SourceIds, SourceVTS[Result])
        /\ SourceIds \in SUBSET Id /\ SourceIds \ {NoId} = SourceIds
    BY <1>2, <1>4 DEF SourceGTS, SourceIds
  <2>5. /\ Entries(SourceGTS) /\ Grows(GTS, SourceGTS)
        /\ DOMAIN SourceGTS = DOMAIN GTS \cup SourceIds
    BY <1>2, <2>3, <2>4, AddGlobalEntries
  <2> QED
    BY <1>1, <1>2, <2>2, <2>4, <2>5
<1> QED
  BY <1>3, <1>4

\* What every step does to the maps and the metadata: they stay well formed and
\* lose nothing.
MapsGrow ==
    /\ Entries(GTS)' /\ Grows(GTS, GTS') /\ DOMAIN GTS' \subseteq Id
    /\ Entries(VTS)' /\ Grows(VTS, VTS') /\ DOMAIN VTS' \subseteq Value
    /\ Source \subseteq Source' /\ Source' \subseteq DOMAIN GTS'
    /\ Grows(Marks, Marks') /\ \A s \in DOMAIN Marks' : Marks'[s] \subseteq Desc

LEMMA UnchangedMaps ==
    ASSUME Inv, UNCHANGED <<GTS, Source, VTS, Marks>>
    PROVE  MapsGrow
<1>1. Entries(GTS) /\ Entries(VTS)
  BY InvEntries
<1>2. /\ DOMAIN GTS \subseteq Id /\ DOMAIN VTS \subseteq Value /\ Source \subseteq DOMAIN GTS
      /\ \A s \in DOMAIN Marks : Marks[s] \subseteq Desc
  BY DEF Inv, TypeOK
<1> QED
  BY <1>1, <1>2, GrowsReflexive DEF MapsGrow

LEMMA VisitCallMaps ==
    ASSUME Inv, VisitCall
    PROVE  MapsGrow
<1>1. /\ VTS' = SourceVTS /\ GTS' = SourceGTS /\ Source' = Source \cup SourceIds
      /\ Marks' = Marks
      /\ mod <= NumModules /\ k <= Len(Code)
  BY DEF VisitCall, AtInstruction, InModulePass
<1>2. /\ DOMAIN GTS \subseteq Id /\ Source \subseteq DOMAIN GTS
      /\ \A s \in DOMAIN Marks : Marks[s] \subseteq Desc
  BY DEF Inv, TypeOK
<1>3. /\ Entries(GTS') /\ Grows(GTS, GTS') /\ DOMAIN GTS' = DOMAIN GTS \cup SourceIds
      /\ DOMAIN GTS' \subseteq Id
      /\ Entries(VTS') /\ Grows(VTS, VTS') /\ DOMAIN VTS' \subseteq Value
  BY <1>1, SourceEntries
<1> QED
  BY <1>1, <1>2, <1>3, GrowsReflexive DEF MapsGrow, Entries

LEMMA VisitArgumentMaps ==
    ASSUME Inv, VisitArgument
    PROVE  MapsGrow
<1> DEFINE v == Current.ops[no + 1]
           id == ArgId(Head(todo), no)
           found == Cache(GTS, VTS, {v})
<1>1. /\ VTS' = found
      /\ \/ /\ Known(found, v)
            /\ GTS' = AddGlobal(GTS, {id}, getTaint(GTS, found, v))
         \/ GTS' = GTS
      /\ UNCHANGED <<Source, Marks>>
  BY DEF VisitArgument
<1>2. /\ todo # <<>> /\ mod <= NumModules /\ k <= Len(Code) /\ no < Len(Current.ops)
  BY DEF Inv, CallInProgress, VisitArgument, InModulePass
<1>3. v \in Value
  <2>1. no \in Nat /\ Len(Current.ops) \in Nat /\ Current.ops \in Seq(Value)
    BY <1>2, CurrentType DEF Inv, TypeOK, Instr
  <2>2. no + 1 \in 1..Len(Current.ops)
    BY <1>2, <2>1
  <2> QED
    BY <2>1, <2>2
<1>4. id \in Id
  <2>1. todo \in Seq(Fns) /\ no \in Nat
    BY DEF Inv, TypeOK
  <2>2. Head(todo) \in Fns
    BY <1>2, <2>1
  <2> QED
    BY <2>1, <2>2, TaintAssumption, ArgIdType
<1>5. /\ Entries(GTS) /\ Entries(VTS) /\ DOMAIN GTS \subseteq Id /\ DOMAIN VTS \subseteq Value
      /\ Source \subseteq DOMAIN GTS
      /\ \A s \in DOMAIN Marks : Marks[s] \subseteq Desc
  BY InvEntries DEF Inv, TypeOK
<1> HIDE DEF v, id
<1>6. Entries(found) /\ Grows(VTS, found) /\ DOMAIN found \subseteq Value
  BY <1>3, <1>5, CacheEntries
<1> HIDE DEF found
<1>7. CASE Known(found, v) /\ GTS' = AddGlobal(GTS, {id}, getTaint(GTS, found, v))
  <2>1. getTaint(GTS, found, v) \subseteq Desc /\ getTaint(GTS, found, v) # {}
    BY <1>5, <1>6, <1>7, GetTaintEntries
  <2>2. /\ Entries(GTS') /\ Grows(GTS, GTS') /\ DOMAIN GTS' = DOMAIN GTS \cup ({id} \ {NoId})
    BY <1>4, <1>5, <1>7, <2>1, AddGlobalEntries
  <2> QED
    BY <1>1, <1>4, <1>5, <1>6, <2>2, GrowsReflexive DEF MapsGrow, Entries
<1>8. CASE GTS' = GTS
  BY <1>1, <1>5, <1>6, <1>8, GrowsReflexive DEF MapsGrow, Entries
<1> QED
  BY <1>1, <1>7, <1>8

LEMMA VisitOtherMaps ==
    ASSUME Inv, VisitOther
    PROVE  MapsGrow
<1> DEFINE operands == {Current.ops[i] : i \in DOMAIN Current.ops}
           D == UNION {getTaint(SourceGTS, SourceVTS, v) : v \in operands}
           found == Cache(SourceGTS, SourceVTS, operands)
           out == IF Propagates(D) THEN Written ELSE {}
<1>1. /\ VTS' = IF Propagates(D) THEN Insert(found, {Result}, D) ELSE found
      /\ GTS' = AddGlobal(SourceGTS, out, D)
      /\ Source' = Source \cup SourceIds
      /\ Marks' = Marks
      /\ mod <= NumModules /\ k <= Len(Code)
  BY DEF VisitOther, AtInstruction, InModulePass, NextInstruction
<1>2. /\ Entries(SourceVTS) /\ Grows(VTS, SourceVTS) /\ DOMAIN SourceVTS \subseteq Value
      /\ Entries(SourceGTS) /\ Grows(GTS, SourceGTS) /\ DOMAIN SourceGTS \subseteq Id
      /\ DOMAIN SourceGTS = DOMAIN GTS \cup SourceIds
  BY <1>1, SourceEntries
<1>3. /\ Source \subseteq DOMAIN GTS
      /\ \A s \in DOMAIN Marks : Marks[s] \subseteq Desc
  BY DEF Inv, TypeOK
<1>4. operands \subseteq Value /\ Result \in Value /\ Current \in Instr
  BY <1>1, CurrentType DEF Inv
<1>5. D \subseteq Desc
  BY <1>2, GetTaintEntries
<1>6. Written \subseteq Id
  <2>1. Current.id \in Id /\ Current.fn \in Fns
    BY <1>4 DEF Instr
  <2>2. RetId(Current.fn) \in Id
    BY <2>1, TaintAssumption, RetIdType
  <2> QED
    BY <2>1, <2>2 DEF Written
<1> HIDE DEF operands, D
<1>7. Entries(found) /\ Grows(SourceVTS, found) /\ DOMAIN found \subseteq Value
  BY <1>2, <1>4, CacheEntries
<1>8. out \in SUBSET Id /\ (out # {} => D # {})
  BY <1>6 DEF Propagates
<1> HIDE DEF found, out
<1>9. /\ Entries(GTS') /\ Grows(SourceGTS, GTS')
      /\ DOMAIN GTS' = DOMAIN SourceGTS \cup (out \ {NoId})
  <2>1. out \ {NoId} # {} => D \subseteq Desc /\ D # {}
    BY <1>5, <1>8
  <2>2. GTS' = AddGlobal(SourceGTS, out, D) /\ Entries(SourceGTS) /\ DOMAIN SourceGTS \subseteq Id
    BY <1>1, <1>2
  <2> QED
    BY <1>8, <2>1, <2>2, AddGlobalEntries
<1>10. Entries(VTS') /\ Grows(found, VTS') /\ DOMAIN VTS' \subseteq Value
  <2>1. CASE Propagates(D)
    <3>1. VTS' = Insert(found, {Result}, D) /\ D # {}
      BY <1>1, <2>1 DEF Propagates
    <3>2. Entries(VTS') /\ Grows(found, VTS') /\ DOMAIN VTS' = DOMAIN found \cup {Result}
      BY <3>1, <1>5, <1>7, InsertEntries
    <3> QED
      BY <3>2, <1>4, <1>7
  <2>2. CASE ~Propagates(D)
    BY <1>1, <1>7, <2>2, GrowsReflexive
  <2> QED
    BY <2>1, <2>2
<1>11. Grows(GTS, GTS') /\ Grows(VTS, VTS')
  <2>1. Grows(GTS, GTS')
    BY <1>2, <1>9 DEF Grows
  <2>2. Grows(VTS, VTS')
    BY <1>2, <1>7, <1>10 DEF Grows
  <2> QED
    BY <2>1, <2>2
<1> QED
  BY <1>1, <1>2, <1>3, <1>8, <1>9, <1>10, <1>11, GrowsReflexive DEF MapsGrow, Entries

LEMMA MarkInstructionMaps ==
    ASSUME Inv, MarkInstruction
    PROVE  MapsGrow
<1> DEFINE found == Cache(GTS, VTS, {Result})
           D == getTaint(GTS, found, Result)
           new == Insert(Marks, {<<mod, k>>}, D)
<1>1. /\ VTS' = found /\ UNCHANGED <<GTS, Source>>
      /\ Marks' = IF Known(found, Result) THEN new ELSE Marks
      /\ mod <= NumModules /\ k <= Len(Code)
  BY DEF MarkInstruction
<1>2. Result \in Value
  BY <1>1, CurrentType DEF Inv
<1>3. /\ Entries(GTS) /\ Entries(VTS) /\ DOMAIN GTS \subseteq Id /\ DOMAIN VTS \subseteq Value
      /\ Source \subseteq DOMAIN GTS
      /\ \A s \in DOMAIN Marks : Marks[s] \subseteq Desc
  BY InvEntries DEF Inv, TypeOK
<1>4. Entries(found) /\ Grows(VTS, found) /\ DOMAIN found \subseteq Value
  BY <1>2, <1>3, CacheEntries
<1> HIDE DEF found
<1>5. D \subseteq Desc
  BY <1>3, <1>4, GetTaintEntries
<1> HIDE DEF D
<1>6. /\ \A s \in DOMAIN new : new[s] \subseteq Desc
      /\ Grows(Marks, new)
  BY <1>3, <1>5 DEF Insert, Grows
<1> HIDE DEF new
<1>7. /\ \A s \in DOMAIN Marks' : Marks'[s] \subseteq Desc
      /\ Grows(Marks, Marks')
  BY <1>1, <1>3, <1>6, GrowsReflexive
<1> QED
  BY <1>1, <1>3, <1>4, <1>7, GrowsReflexive DEF MapsGrow, Entries

LEMMA MapsStep == Inv /\ [Next]_vars => MapsGrow
<1> SUFFICES ASSUME Inv, [Next]_vars PROVE MapsGrow
  OBVIOUS
<1>1. CASE UNCHANGED <<GTS, Source, VTS, Marks>>
  BY <1>1, UnchangedMaps
<1> QED
  BY <1>1, VisitCallMaps, VisitArgumentMaps, VisitOtherMaps, MarkInstructionMaps
  DEF Next, vars, passVars, doInitialization, Drive, Done, SweepAgain, ReturnFromModule,
      doFinalization

LEMMA InvInit == Init => Inv
<1> SUFFICES ASSUME Init PROVE Inv
  OBVIOUS
<1>1. DriverTypeOK /\ prog \in Program
  BY DriverInitType DEF Init
<1>2. Changed \in BOOLEAN /\ ret \in BOOLEAN
  BY Zenon DEF Init
<1>3. TypeOK
  BY <1>1, <1>2 DEF Init, TypeOK
<1> QED
  BY <1>3 DEF Init, Inv, CallInProgress, EntriesNonEmpty

\* Where no call can be in progress.
LEMMA IdleOutsideCalls ==
    ASSUME Inv, AtEnd \/ phase # "pass" \/ mod > NumModules
    PROVE  todo = <<>>
<1> SUFFICES ASSUME todo # <<>> PROVE FALSE
  OBVIOUS
<1>1. InModulePass /\ k <= Len(Code)
  BY DEF Inv, CallInProgress
<1>2. Code \in Seq(Instr) /\ k \in Nat /\ mod \in Nat /\ mod <= NumModules
  BY <1>1, CurrentType, IdsAssumption DEF Inv, TypeOK, InModulePass, ModuleNo
<1> QED
  BY <1>1, <1>2, IdsAssumption DEF AtEnd, InModulePass

\* The steps that move through the program keep their place in it.
LEMMA PlaceStep ==
    ASSUME Inv, [Next]_vars
    PROVE  /\ DriverTypeOK' /\ k' \in Nat \ {0} /\ no' \in Nat /\ todo' \in Seq(Fns)
           /\ CallInProgress'
<1> USE DEF driverVars, passVars
<1>0. /\ DriverTypeOK /\ k \in Nat \ {0} /\ no \in Nat /\ todo \in Seq(Fns)
      /\ CallInProgress /\ prog' = prog
  BY ProgramKept DEF Inv, TypeOK
<1>1. CASE VisitCall
  <2>1. /\ DriverTypeOK' /\ no' = 0 /\ InModulePass' /\ Code' = Code
        /\ mod <= NumModules /\ k <= Len(Code) /\ Current.op = "call"
    BY <1>0, <1>1
    DEF VisitCall, AtInstruction, DriverTypeOK, InModulePass, Code
  <2>2. Current \in Instr /\ Len(Current.ops) \in Nat
    BY <2>1, CurrentType DEF Inv
  <2>3. (IF Current.ops = <<>> THEN {} ELSE Entered) \in SUBSET Fns
    BY <2>2 DEF Entered, Instr
  <2>4. todo' \in Seq(Fns) /\ (Current.ops = <<>> => todo' = <<>>)
    BY <1>1, <2>3, OrdersType DEF VisitCall
  <2>5. Current.ops # <<>> => Len(Current.ops) > 0
    BY <2>2 DEF Instr
  <2>6. k' = IF todo' = <<>> THEN k + 1 ELSE k
    BY <1>1 DEF VisitCall
  <2>7. CallInProgress'
    <3> SUFFICES ASSUME todo' # <<>> PROVE CallInProgress'
      BY DEF CallInProgress
    <3>1. k' = k /\ Current' = Current
      BY <2>1, <2>6 DEF Current
    <3> QED
      BY <2>1, <2>2, <2>4, <2>5, <3>1 DEF CallInProgress
  <2> QED
    BY <1>0, <2>1, <2>4, <2>6, <2>7
<1>2. CASE VisitArgument
  <2>1. /\ DriverTypeOK' /\ InModulePass' /\ Code' = Code /\ todo # <<>>
        /\ mod <= NumModules /\ k <= Len(Code) /\ Current.op = "call"
        /\ no < Len(Current.ops)
    BY <1>0, <1>2 DEF VisitArgument, CallInProgress, DriverTypeOK, InModulePass, Code
  <2>2. Current \in Instr /\ Len(Current.ops) \in Nat
    BY <2>1, CurrentType DEF Inv
  <2>3. CASE no + 1 < Len(Current.ops)
    <3>1. no' = no + 1 /\ todo' = todo /\ k' = k
      BY <1>2, <2>3 DEF VisitArgument
    <3>2. Current' = Current
      BY <2>1, <3>1 DEF Current
    <3> QED
      BY <1>0, <2>1, <2>3, <3>1, <3>2 DEF CallInProgress
  <2>4. CASE ~(no + 1 < Len(Current.ops))
    <3>1. no' = 0 /\ todo' = Tail(todo) /\ k' = IF todo' = <<>> THEN k + 1 ELSE k
      BY <1>2, <2>4 DEF VisitArgument
    <3>2. todo' \in Seq(Fns)
      BY <1>0, <2>1, <3>1
    <3>3. CallInProgress'
      <4> SUFFICES ASSUME todo' # <<>> PROVE CallInProgress'
        BY DEF CallInProgress
      <4>1. k' = k /\ Current' = Current
        BY <2>1, <3>1 DEF Current
      <4> QED
        BY <1>0, <2>1, <2>2, <3>1, <4>1 DEF CallInProgress
    <3> QED
      BY <1>0, <2>1, <3>1, <3>2, <3>3
  <2> QED
    BY <2>3, <2>4
<1>3. CASE VisitOther
  BY <1>0, <1>3 DEF VisitOther, AtInstruction, NextInstruction, DriverTypeOK, CallInProgress
<1>4. CASE SweepAgain
  <2>1. todo = <<>>
    BY <1>4, IdleOutsideCalls DEF SweepAgain
  <2> QED
    BY <1>0, <1>4, <2>1 DEF SweepAgain, DriverTypeOK, CallInProgress
<1>5. CASE ReturnFromModule
  <2>1. todo = <<>>
    BY <1>5, IdleOutsideCalls DEF ReturnFromModule
  <2>2. DriverTypeOK'
    BY <1>0, <1>5, EndModulePassType DEF ReturnFromModule
  <2> QED
    BY <1>0, <1>5, <2>1, <2>2 DEF ReturnFromModule, CallInProgress
<1>6. CASE doInitialization
  <2>1. DriverTypeOK' /\ phase = "init"
    BY <1>0, <1>6, ForModuleType DEF doInitialization
  <2>2. todo = <<>>
    BY <2>1, IdleOutsideCalls
  <2> QED
    BY <1>0, <1>6, <2>1, <2>2 DEF doInitialization, CallInProgress
<1>7. CASE MarkInstruction
  <2>1. todo = <<>>
    BY <1>7, IdleOutsideCalls DEF MarkInstruction
  <2> QED
    BY <1>0, <1>7, <2>1 DEF MarkInstruction, DriverTypeOK, CallInProgress
<1>8. CASE doFinalization
  <2>1. DriverTypeOK' /\ phase = "final"
    BY <1>0, <1>8, ForModuleType DEF doFinalization
  <2>2. todo = <<>>
    BY <2>1, IdleOutsideCalls
  <2> QED
    BY <1>0, <1>8, <2>1, <2>2 DEF doFinalization, CallInProgress
<1>9. CASE Drive
  <2>1. DriverTypeOK' /\ mod > NumModules
    BY <1>0, <1>9, DriveType DEF Drive
  <2>2. todo = <<>>
    BY <2>1, IdleOutsideCalls
  <2> QED
    BY <1>0, <1>9, <2>1, <2>2 DEF Drive, CallInProgress
<1>10. CASE UNCHANGED vars
  BY <1>0, <1>10 DEF vars, DriverTypeOK, CallInProgress, InModulePass, Code, Current
<1> QED
  BY <1>1, <1>2, <1>3, <1>4, <1>5, <1>6, <1>7, <1>8, <1>9, <1>10 DEF Next, Done

LEMMA InvStep == Inv /\ [Next]_vars => Inv'
<1> SUFFICES ASSUME Inv, [Next]_vars PROVE Inv'
  OBVIOUS
<1>1. MapsGrow
  BY MapsStep
<1>2. Changed' \in BOOLEAN /\ ret' \in BOOLEAN
  <2>1. Changed \in BOOLEAN /\ ret \in BOOLEAN
    BY DEF Inv, TypeOK
  <2>2. CASE UNCHANGED <<Changed, ret>>
    BY <2>1, <2>2
  <2>3. CASE SweepAgain
    BY <2>3, Zenon DEF SweepAgain
  <2>4. CASE ReturnFromModule
    BY <2>1, <2>4, Zenon DEF ReturnFromModule
  <2>5. CASE VisitCall
    BY <2>1, <2>5, Zenon DEF VisitCall
  <2>6. CASE VisitArgument
    BY <2>1, <2>6, Zenon DEF VisitArgument
  <2>7. CASE VisitOther
    BY <2>1, <2>7, Zenon DEF VisitOther, NextInstruction
  <2> QED
    BY <2>2, <2>3, <2>4, <2>5, <2>6, <2>7
    DEF Next, vars, passVars, doInitialization, Drive, Done, MarkInstruction, doFinalization
<1>3. prog' \in Program
  BY ProgramKept DEF Inv, TypeOK
<1>4. TypeOK'
  BY <1>1, <1>2, <1>3, PlaceStep DEF TypeOK, MapsGrow, Entries
<1>5. EntriesNonEmpty'
  BY <1>1 DEF MapsGrow, Entries, EntriesNonEmpty
<1> QED
  BY <1>4, <1>5, PlaceStep DEF Inv

THEOREM Invariant == Spec => []Inv
<1> QED
  BY InvInit, InvStep, PTL DEF Spec

\* Every state of the pass has its types, whatever the program: values that
\* stand for no instruction and identifiers that are empty included.
THEOREM TypeCorrect == Spec => []TypeOK
<1>1. Inv => TypeOK
  BY DEF Inv
<1> QED
  BY <1>1, Invariant, PTL

\* No entry is ever empty, so that no sweep takes an old entry for a new one.
THEOREM NoEmptyEntries == Spec => []EntriesNonEmpty
<1>1. Inv => EntriesNonEmpty
  BY DEF Inv
<1> QED
  BY <1>1, Invariant, PTL

\* No step forgets a description, a source or a mark: what has been found in one
\* sweep is there in the next, and what is written to the module is final.
OnlyGrows ==
    Grows(GTS, GTS') /\ Grows(VTS, VTS') /\ Source \subseteq Source' /\ Grows(Marks, Marks')

\* The steps of the pass on any program only add to what is known.
THEOREM TaintOnlyGrows == Spec => [][OnlyGrows]_vars
<1>1. Inv /\ [Next]_vars => [OnlyGrows]_vars
  BY MapsStep DEF MapsGrow, OnlyGrows
<1> QED
  BY <1>1, Invariant, PTL DEF Spec

----------------------------------------------------------------------------
(* The end of the sweeps: nothing that flows forward is missing *)

\* Nothing has changed since this sweep over all the modules began.
Quiet == phase = "pass" /\ changed = 0 /\ ~ret /\ ~Changed

\* Between two visits of modules the pass has nothing to remember.
Rest ==
    /\ phase = "init" \/ (phase = "pass" /\ mod > NumModules) => k = 1
    /\ phase # "pass" \/ mod > NumModules => ~Changed /\ ~ret

VisitedSatisfied ==
    Quiet => \A m \in ModuleNo : \A j \in DOMAIN prog[m] :
                Before(m, j, mod, k) => Satisfied(m, j)

\* Of a call that is being visited, the arguments that have been passed.
Passed(f, i) == f \notin {todo[x] : x \in DOMAIN todo} \/ (f = Head(todo) /\ i <= no)

CallPartlySatisfied ==
    Quiet /\ todo # <<>> =>
        /\ SourceDone(mod, k)
        /\ \A f \in EnteredBy(Current) : \A i \in DOMAIN Current.ops :
              Passed(f, i) => ArgumentDone(mod, k, f, i)

FlowInv == Rest /\ VisitedSatisfied /\ CallPartlySatisfied /\ Closed

\* New entries of the cache are for values whose identifiers are tainted, and
\* every such value that was asked for is known afterwards.
LEMMA CacheDomain ==
    ASSUME NEW G, NEW V, NEW vs
    PROVE  /\ DOMAIN V \subseteq DOMAIN Cache(G, V, vs)
           /\ \A v \in DOMAIN Cache(G, V, vs) \ DOMAIN V : GlobalIds(v) \cap DOMAIN G # {}
           /\ \A v \in vs : GlobalIds(v) \cap DOMAIN G # {} => Known(Cache(G, V, vs), v)
<1> DEFINE fresh == {v \in vs : ~Known(V, v) /\ GlobalIds(v) \cap DOMAIN G # {}}
<1>1. DOMAIN Cache(G, V, vs) = DOMAIN V \cup fresh
  BY DEF Cache
<1>2. \A v \in vs : GlobalIds(v) \cap DOMAIN G # {} => v \in fresh \/ Known(V, v)
  OBVIOUS
<1> QED
  BY <1>1, <1>2 DEF Known

\* While no identifier gets an entry an instruction stays satisfied, whatever is
\* cached and whatever later instructions yield.
LEMMA SatisfiedStays ==
    ASSUME prog' = prog, DOMAIN GTS' = DOMAIN GTS, DOMAIN VTS \subseteq DOMAIN VTS',
           NEW m, NEW j,
           \A v \in DOMAIN VTS' \ DOMAIN VTS :
              GlobalIds(v) \cap DOMAIN GTS # {} \/ ~Early(m, j, v)
    PROVE  /\ Satisfied(m, j) => Satisfied(m, j)'
           /\ SourceDone(m, j) => SourceDone(m, j)'
           /\ \A f, i : ArgumentDone(m, j, f, i) => ArgumentDone(m, j, f, i)'
<1>1. \A v : GlobalIds(v)' = GlobalIds(v)
  BY DEF GlobalIds, InstrOf
<1>2. \A v : Early(m, j, v)' <=> Early(m, j, v)
  BY DEF Early, ResultOf
<1>3. \A v : Early(m, j, v) /\ Tainted(v)' => Tainted(v)
  BY <1>1 DEF Tainted
<1>4. ResultOf(m, j)' = ResultOf(m, j)
  BY DEF ResultOf
<1>5. SourceDone(m, j) => SourceDone(m, j)'
  BY <1>4 DEF SourceDone
<1>6. \A f, i : ArgumentDone(m, j, f, i) => ArgumentDone(m, j, f, i)'
  BY <1>2, <1>3 DEF ArgumentDone
<1>7. \A i : OperandDone(m, j, i) => OperandDone(m, j, i)'
  BY <1>2, <1>3, <1>4 DEF OperandDone
<1>8. Satisfied(m, j) => Satisfied(m, j)'
  BY <1>5, <1>6, <1>7 DEF Satisfied
<1> QED
  BY <1>5, <1>6, <1>8

\* The order of the callees leaves none of them out.
LEMMA OrdersCover ==
    ASSUME NEW S \in SUBSET Fns, NEW s \in Orders(S)
    PROVE  S = {s[x] : x \in DOMAIN s}
<1>1. IsFiniteSet(S)
  BY TaintAssumption, FS_Subset
<1>2. Cardinality(S) \in Nat
  BY <1>1, FS_CardinalityType
<1> DEFINE N == 1..Cardinality(S)
<1>3. IsFiniteSet(N) /\ Cardinality(N) = Cardinality(S)
  BY <1>2, FS_Interval
<1>4. s \in [N -> S] /\ \A i, j \in N : s[i] = s[j] => i = j
  BY DEF Orders
<1> HIDE DEF N
<1>5. s \in Injection(N, S)
  BY <1>4 DEF Injection, IsInjective
<1>6. s \in Surjection(N, S)
  BY <1>1, <1>3, <1>5, FS_Injection
<1> QED
  BY <1>4, <1>6 DEF Surjection

\* A source that is visited is done, and unless the pass has changed something
\* no identifier has got an entry by it.
LEMMA SourceVisited ==
    ASSUME Inv, mod <= NumModules, k <= Len(Code)
    PROVE  /\ SourceIdsOf(Current) \subseteq DOMAIN SourceGTS
           /\ Current.src # {} => ResultOf(mod, k) \in DOMAIN SourceVTS
           /\ DOMAIN VTS \subseteq DOMAIN SourceVTS
           /\ DOMAIN SourceVTS \subseteq DOMAIN VTS \cup {ResultOf(mod, k)}
           /\ ~IsNew(GTS, SourceIds) => DOMAIN SourceGTS = DOMAIN GTS
<1>1. SourceIds = SourceIdsOf(Current) /\ ResultOf(mod, k) = Result
  BY DEF SourceIds, SourceIdsOf, ResultOf, Result, Current, Code
<1>2. DOMAIN SourceGTS = DOMAIN GTS \cup SourceIds /\ Grows(VTS, SourceVTS)
  BY SourceEntries
<1>3. DOMAIN SourceVTS = IF Current.src = {} THEN DOMAIN VTS ELSE DOMAIN VTS \cup {Result}
  BY DEF SourceVTS, Insert
<1>4. NoId \notin SourceIds
  BY DEF SourceIds
<1>5. ~IsNew(GTS, SourceIds) => SourceIds \subseteq DOMAIN GTS
  BY <1>4 DEF IsNew
<1> QED
  BY <1>1, <1>2, <1>3, <1>5

LEMMA SitesType ==
    ASSUME TypeOK, NEW m \in ModuleNo, NEW j \in DOMAIN prog[m]
    PROVE  m \in Nat /\ j \in Nat \ {0} /\ j <= Len(prog[m]) /\ Len(prog[m]) \in Nat
<1>1. prog[m] \in Seq(Instr)
  BY DEF TypeOK, Program
<1> QED
  BY <1>1, IdsAssumption DEF ModuleNo

\* A quiet visit of the current instruction: the instructions before it stay
\* satisfied.
LEMMA VisitKeepsSatisfied ==
    ASSUME Inv, mod <= NumModules, k <= Len(Code), prog' = prog,
           DOMAIN GTS' = DOMAIN GTS, DOMAIN VTS \subseteq DOMAIN VTS',
           \A v \in DOMAIN VTS' \ DOMAIN VTS :
              GlobalIds(v) \cap DOMAIN GTS # {} \/ v = ResultOf(mod, k),
           NEW m \in ModuleNo, NEW j \in DOMAIN prog[m], Before(m, j, mod, k)
    PROVE  Satisfied(m, j) => Satisfied(m, j)'
<1>1. mod \in ModuleNo /\ k \in DOMAIN prog[mod]
  BY CurrentType DEF Inv, Code
<1>2. m \in Nat /\ j \in Nat /\ mod \in Nat /\ k \in Nat
  BY <1>1, SitesType DEF Inv
<1>3. ~Early(m, j, ResultOf(mod, k))
  <2> SUFFICES ASSUME Early(m, j, ResultOf(mod, k)) PROVE FALSE
    OBVIOUS
  <2>1. Before(mod, k, m, j)
    BY <1>1 DEF Early
  <2> QED
    BY <1>2, <2>1 DEF Before
<1> QED
  BY <1>3, SatisfiedStays

\* The instructions visited once the current one has been.
LEMMA BeforeNext ==
    ASSUME TypeOK, NEW m \in ModuleNo, NEW j \in DOMAIN prog[m], mod \in Nat,
           Before(m, j, mod, k + 1)
    PROVE  Before(m, j, mod, k) \/ (m = mod /\ j = k)
<1>1. m \in Nat /\ j \in Nat /\ k \in Nat
  BY SitesType DEF TypeOK
<1> QED
  BY <1>1 DEF Before

LEMMA VisitCallFlow ==
    ASSUME Inv, FlowInv, VisitCall, Quiet'
    PROVE  VisitedSatisfied' /\ CallPartlySatisfied'
<1>1. /\ VTS' = SourceVTS /\ GTS' = SourceGTS /\ no' = 0
      /\ Current.op = "call" /\ prog' = prog /\ mod' = mod
      /\ todo' \in Orders(IF Current.ops = <<>> THEN {} ELSE Entered)
      /\ k' = IF todo' = <<>> THEN k + 1 ELSE k
      /\ mod <= NumModules /\ k <= Len(Code)
  BY DEF VisitCall, AtInstruction, InModulePass, driverVars
<1>2. Quiet /\ ~IsNew(GTS, SourceIds)
  BY DEF VisitCall, Quiet, driverVars
<1>3. /\ mod \in ModuleNo /\ k \in DOMAIN prog[mod] /\ Current = prog[mod][k]
      /\ Current \in Instr /\ mod \in Nat
  BY <1>1, CurrentType, IdsAssumption DEF Inv, Code, Current, ModuleNo
<1>4. /\ DOMAIN GTS' = DOMAIN GTS /\ DOMAIN VTS \subseteq DOMAIN VTS'
      /\ DOMAIN VTS' \subseteq DOMAIN VTS \cup {ResultOf(mod, k)}
  BY <1>1, <1>2, SourceVisited
<1>0. PICK m0, j0 : m0 = mod /\ j0 = k
  OBVIOUS
<1>5. SourceDone(m0, j0)'
  <2>1. /\ SourceIdsOf(prog[m0][j0]) \subseteq DOMAIN GTS'
        /\ prog[m0][j0].src # {} => ResultOf(m0, j0) \in DOMAIN VTS'
    BY <1>0, <1>1, <1>3, SourceVisited
  <2> QED
    BY <1>1, <2>1 DEF SourceDone, ResultOf
<1>6. \A m \in ModuleNo : \A j \in DOMAIN prog[m] : Before(m, j, mod, k) => Satisfied(m, j)'
  BY <1>1, <1>2, <1>4, VisitKeepsSatisfied DEF FlowInv, VisitedSatisfied
<1>7. (IF Current.ops = <<>> THEN {} ELSE Entered) = {todo'[x] : x \in DOMAIN todo'}
  <2>1. (IF Current.ops = <<>> THEN {} ELSE Entered) \in SUBSET Fns
    BY <1>3 DEF Entered, Instr
  <2> QED
    BY <1>1, <2>1, OrdersCover
<1>8. EnteredBy(Current) = Entered
  BY DEF EnteredBy, Entered
<1>9. CASE todo' = <<>>
  <2>1. Current.ops = <<>> \/ Entered = {}
    BY <1>7, <1>9
  <2>2. Satisfied(m0, j0)'
    BY <1>0, <1>1, <1>3, <1>5, <1>8, <2>1 DEF Satisfied
  <2>3. ASSUME NEW m \in ModuleNo, NEW j \in DOMAIN prog[m], Before(m, j, mod, k + 1)
        PROVE  Satisfied(m, j)'
    BY <1>0, <1>3, <1>6, <2>2, <2>3, BeforeNext DEF Inv
  <2>4. VisitedSatisfied'
    BY <1>1, <1>9, <2>3 DEF VisitedSatisfied, Before
  <2> QED
    BY <1>9, <2>4 DEF CallPartlySatisfied
<1>10. CASE todo' # <<>>
  <2>1. VisitedSatisfied'
    BY <1>1, <1>6, <1>10 DEF VisitedSatisfied, Before
  <2>2. Current' = Current
    BY <1>1, <1>10 DEF Current, Code
  <2>3. \A i \in DOMAIN Current.ops : i \in Nat \ {0} /\ Current.ops # <<>>
    BY <1>3 DEF Instr
  <2>4. ASSUME NEW f \in EnteredBy(Current), NEW i \in DOMAIN Current.ops
        PROVE  ~Passed(f, i)'
    BY <1>1, <1>7, <1>8, <2>3, <2>4 DEF Passed
  <2>5. CallPartlySatisfied'
    BY <1>0, <1>1, <1>5, <1>10, <2>2, <2>4 DEF CallPartlySatisfied
  <2> QED
    BY <2>1, <2>5
<1> QED
  BY <1>9, <1>10

LEMMA VisitArgumentFlow ==
    ASSUME Inv, FlowInv, VisitArgument, Quiet'
    PROVE  VisitedSatisfied' /\ CallPartlySatisfied'
<1>0. PICK m0, j0, v0, f0, i0 :
         /\ m0 = mod /\ j0 = k /\ f0 = Head(todo)
         /\ i0 = no + 1 /\ v0 = Current.ops[no + 1]
  OBVIOUS
<1> DEFINE v == Current.ops[no + 1]
           id == ArgId(Head(todo), no)
           found == Cache(GTS, VTS, {v})
           L == Len(Current.ops)
<1>1. /\ VTS' = found /\ todo # <<>> /\ prog' = prog /\ mod' = mod
      /\ \/ /\ Known(found, v)
            /\ DOMAIN GTS' = DOMAIN GTS \cup ({id} \ {NoId})
            /\ ~IsNew(GTS, {id})
         \/ ~Known(found, v) /\ GTS' = GTS
      /\ \/ no + 1 < L /\ no' = no + 1 /\ todo' = todo /\ k' = k
         \/ /\ ~(no + 1 < L) /\ no' = 0 /\ todo' = Tail(todo)
            /\ k' = IF todo' = <<>> THEN k + 1 ELSE k
  BY DEF VisitArgument, Quiet, driverVars, AddGlobal, Insert
<1>2. Quiet
  BY DEF VisitArgument, Quiet, driverVars
<1>3. mod <= NumModules /\ k <= Len(Code) /\ Current.op = "call" /\ no < L
  BY <1>1 DEF Inv, CallInProgress, InModulePass
<1>4. /\ mod \in ModuleNo /\ k \in DOMAIN prog[mod] /\ Current = prog[mod][k]
      /\ Current \in Instr /\ mod \in Nat /\ no \in Nat /\ L \in Nat
      /\ DOMAIN Current.ops = 1..L /\ todo \in Seq(Fns)
  <2>1. Current \in Instr
    BY <1>3, CurrentType DEF Inv
  <2>2. Current.ops \in Seq(Value)
    BY <2>1 DEF Instr
  <2> QED
    BY <1>3, <2>1, <2>2, CurrentType, IdsAssumption DEF Inv, TypeOK, Code, Current, ModuleNo
<1>5. /\ DOMAIN VTS \subseteq DOMAIN found
      /\ \A w \in DOMAIN found \ DOMAIN VTS : GlobalIds(w) \cap DOMAIN GTS # {}
      /\ GlobalIds(v) \cap DOMAIN GTS # {} => Known(found, v)
  BY CacheDomain
<1> HIDE DEF found
<1>6. DOMAIN GTS' = DOMAIN GTS /\ (Known(found, v) => id \in DOMAIN GTS \cup {NoId})
  BY <1>1 DEF IsNew
<1>7. ArgumentDone(m0, j0, f0, i0)'
  <2>1. GlobalIds(v0)' = GlobalIds(v0)
    BY <1>1 DEF GlobalIds, InstrOf
  <2>2. v0 = v /\ id = ArgId(f0, i0 - 1) /\ prog'[m0][j0].ops[i0] = v0
    BY <1>0, <1>1, <1>4
  <2>3. Tainted(v0)' => Known(found, v)
    BY <1>1, <1>5, <1>6, <2>1, <2>2 DEF Tainted, Known
  <2>4. Tainted(v0)' => ArgId(f0, i0 - 1) \in DOMAIN GTS' \cup {NoId}
    BY <1>6, <2>2, <2>3
  <2> QED
    BY <2>2, <2>4 DEF ArgumentDone
<1> HIDE DEF v, id
<1>8. /\ SourceDone(m0, j0)'
      /\ \A f, i : ArgumentDone(m0, j0, f, i) => ArgumentDone(m0, j0, f, i)'
  <2>1. SourceDone(m0, j0)
    BY <1>0, <1>1, <1>2 DEF FlowInv, CallPartlySatisfied
  <2> QED
    BY <1>1, <1>5, <1>6, <2>1, SatisfiedStays
<1>9. ASSUME NEW f \in EnteredBy(Current), NEW i \in DOMAIN Current.ops,
             f \notin {todo[x] : x \in DOMAIN todo} \/ (f = Head(todo) /\ i <= no + 1)
      PROVE  ArgumentDone(m0, j0, f, i)'
  <2>1. Passed(f, i) \/ (f = Head(todo) /\ i = no + 1)
    BY <1>4, <1>9 DEF Passed
  <2>2. Passed(f, i) => ArgumentDone(m0, j0, f, i)
    BY <1>0, <1>1, <1>2 DEF FlowInv, CallPartlySatisfied
  <2> QED
    BY <1>0, <1>7, <1>8, <2>1, <2>2
<1>10. \A m \in ModuleNo : \A j \in DOMAIN prog[m] : Before(m, j, mod, k) => Satisfied(m, j)'
  BY <1>1, <1>2, <1>3, <1>5, <1>6, VisitKeepsSatisfied DEF FlowInv, VisitedSatisfied
<1>11. ~(no + 1 < L) =>
         \A f : f \notin {Tail(todo)[x] : x \in DOMAIN Tail(todo)} =>
                  f \notin {todo[x] : x \in DOMAIN todo} \/ f = Head(todo)
  <2> SUFFICES ASSUME NEW x \in DOMAIN todo, todo[x] # Head(todo)
               PROVE  \E y \in DOMAIN Tail(todo) : Tail(todo)[y] = todo[x]
    OBVIOUS
  <2>1. x \in 2..Len(todo)
    BY <1>1, <1>4
  <2>2. x - 1 \in DOMAIN Tail(todo) /\ Tail(todo)[x - 1] = todo[x]
    BY <1>1, <1>4, <2>1
  <2> QED
    BY <2>2
<1>12. CASE k' = k
  <2>1. VisitedSatisfied'
    BY <1>1, <1>10, <1>12 DEF VisitedSatisfied, Before
  <2>2. Current' = Current
    BY <1>1, <1>12 DEF Current, Code
  <2>3. ASSUME todo' # <<>>, NEW f \in EnteredBy(Current), NEW i \in DOMAIN Current.ops, Passed(f, i)'
        PROVE  ArgumentDone(m0, j0, f, i)'
    <3>1. CASE todo' = todo /\ no' = no + 1
      BY <1>9, <2>3, <3>1 DEF Passed
    <3>2. CASE ~(no + 1 < L) /\ no' = 0 /\ todo' = Tail(todo)
      <4>1. i \in Nat /\ i <= no + 1 /\ i # 0
        BY <1>3, <1>4, <3>2
      <4>2. f \notin {Tail(todo)[x] : x \in DOMAIN Tail(todo)}
        BY <2>3, <3>2, <4>1 DEF Passed
      <4> QED
        BY <1>9, <1>11, <3>2, <4>1, <4>2
    <3> QED
      BY <1>1, <3>1, <3>2
  <2>4. CallPartlySatisfied'
    BY <1>0, <1>1, <1>8, <1>12, <2>2, <2>3 DEF CallPartlySatisfied
  <2> QED
    BY <2>1, <2>4
<1>13. CASE k' # k
  <2>1. todo' = <<>> /\ k' = k + 1 /\ ~(no + 1 < L) /\ Tail(todo) = <<>>
    BY <1>1, <1>13
  <2>2. ASSUME NEW f \in EnteredBy(Current), NEW i \in DOMAIN Current.ops
        PROVE  ArgumentDone(m0, j0, f, i)'
    <3>1. f \notin {Tail(todo)[x] : x \in DOMAIN Tail(todo)}
      BY <2>1
    <3>2. i \in Nat /\ i <= no + 1
      BY <1>3, <1>4, <2>1
    <3> QED
      BY <1>9, <1>11, <2>1, <3>1, <3>2
  <2>3. Satisfied(m0, j0)'
    BY <1>0, <1>1, <1>3, <1>4, <1>8, <2>2 DEF Satisfied
  <2>4. ASSUME NEW m \in ModuleNo, NEW j \in DOMAIN prog[m], Before(m, j, mod, k + 1)
        PROVE  Satisfied(m, j)'
    BY <1>0, <1>4, <1>10, <2>3, <2>4, BeforeNext DEF Inv
  <2>5. VisitedSatisfied'
    BY <1>1, <2>1, <2>4 DEF VisitedSatisfied, Before
  <2> QED
    BY <2>1, <2>5 DEF CallPartlySatisfied
<1> QED
  BY <1>12, <1>13

\* getTaint finds something wherever there is an entry.
LEMMA GetTaintFinds ==
    ASSUME NEW G, NEW V, NEW v, Entries(G), Entries(V),
           v \in DOMAIN V \/ GlobalIds(v) \cap DOMAIN G # {}
    PROVE  getTaint(G, V, v) # {}
<1>1. CASE Known(V, v)
  BY <1>1, GetTaintEntries
<1>2. CASE ~Known(V, v)
  BY <1>2, FromGlobalEntries DEF getTaint, Known
<1> QED
  BY <1>1, <1>2

LEMMA VisitOtherFlow ==
    ASSUME Inv, FlowInv, VisitOther, Quiet'
    PROVE  VisitedSatisfied' /\ CallPartlySatisfied'
<1>0. PICK m0, j0 : m0 = mod /\ j0 = k
  OBVIOUS
<1> DEFINE operands == {Current.ops[i] : i \in DOMAIN Current.ops}
           D == UNION {getTaint(SourceGTS, SourceVTS, v) : v \in operands}
           found == Cache(SourceGTS, SourceVTS, operands)
           out == IF Propagates(D) THEN Written ELSE {}
<1>1. /\ VTS' = (IF Propagates(D) THEN Insert(found, {Result}, D) ELSE found)
      /\ GTS' = AddGlobal(SourceGTS, out, D)
      /\ ~IsNew(GTS, SourceIds) /\ ~IsNew(SourceGTS, out)
      /\ Current.op # "call" /\ todo = <<>> /\ todo' = todo
      /\ k' = k + 1 /\ mod' = mod /\ prog' = prog
      /\ mod <= NumModules /\ k <= Len(Code)
  BY DEF VisitOther, AtInstruction, InModulePass, NextInstruction, Quiet, driverVars
<1>2. Quiet
  BY DEF VisitOther, NextInstruction, Quiet, driverVars
<1>3. /\ mod \in ModuleNo /\ k \in DOMAIN prog[mod] /\ Current = prog[mod][k] /\ mod \in Nat
      /\ Result = ResultOf(mod, k)
  BY <1>1, CurrentType, IdsAssumption DEF Inv, Code, Current, ModuleNo, Result, ResultOf
<1>4. /\ SourceIdsOf(Current) \subseteq DOMAIN SourceGTS
      /\ Current.src # {} => ResultOf(mod, k) \in DOMAIN SourceVTS
      /\ DOMAIN VTS \subseteq DOMAIN SourceVTS
      /\ DOMAIN SourceVTS \subseteq DOMAIN VTS \cup {ResultOf(mod, k)}
      /\ DOMAIN SourceGTS = DOMAIN GTS
      /\ Entries(SourceGTS) /\ Entries(SourceVTS)
  BY <1>1, SourceVisited, SourceEntries
<1>5. /\ DOMAIN SourceVTS \subseteq DOMAIN found
      /\ \A v \in DOMAIN found \ DOMAIN SourceVTS : GlobalIds(v) \cap DOMAIN SourceGTS # {}
  BY CacheDomain
<1>6. \A v \in operands :
        v \in DOMAIN SourceVTS \/ GlobalIds(v) \cap DOMAIN SourceGTS # {} => D # {}
  <2> SUFFICES ASSUME NEW v \in operands,
                      v \in DOMAIN SourceVTS \/ GlobalIds(v) \cap DOMAIN SourceGTS # {}
               PROVE  D # {}
    OBVIOUS
  <2>1. getTaint(SourceGTS, SourceVTS, v) # {}
    BY <1>4, GetTaintFinds
  <2> QED
    BY <2>1
<1>7. Written = WrittenBy(Current)
  BY DEF Written, WrittenBy
<1>8. \A i \in DOMAIN Current.ops : Current.ops[i] \in operands
  OBVIOUS
<1> HIDE DEF operands, D, found
<1>9. /\ DOMAIN GTS' = DOMAIN GTS
      /\ D # {} => WrittenBy(Current) \subseteq DOMAIN GTS \cup {NoId}
  <2>1. DOMAIN GTS' = DOMAIN SourceGTS \cup (out \ {NoId})
    BY <1>1 DEF AddGlobal, Insert
  <2>2. out \ {NoId} \subseteq DOMAIN SourceGTS
    BY <1>1 DEF IsNew
  <2> QED
    BY <1>4, <1>7, <2>1, <2>2 DEF Propagates
<1>10. /\ DOMAIN found \subseteq DOMAIN VTS'
       /\ DOMAIN VTS' \subseteq DOMAIN found \cup {ResultOf(mod, k)}
       /\ D # {} => ResultOf(mod, k) \in DOMAIN VTS'
  BY <1>1, <1>3 DEF Insert, Propagates
<1>11. SourceDone(m0, j0)'
  <2>1. /\ SourceIdsOf(prog[m0][j0]) \subseteq DOMAIN GTS'
        /\ prog[m0][j0].src # {} => ResultOf(m0, j0) \in DOMAIN VTS'
    BY <1>0, <1>3, <1>4, <1>5, <1>9, <1>10
  <2> QED
    BY <1>1, <2>1 DEF SourceDone, ResultOf
<1>12. ASSUME NEW i \in DOMAIN Current.ops
       PROVE  OperandDone(m0, j0, i)'
  <2>0. PICK v0 : v0 = Current.ops[i]
    OBVIOUS
  <2>1. GlobalIds(v0)' = GlobalIds(v0)
    BY <1>1 DEF GlobalIds, InstrOf
  <2>2. v0 \in operands /\ prog[m0][j0].ops[i] = v0
    BY <1>0, <1>3, <1>8, <2>0
  <2>3. Early(m0, j0, v0)' => v0 # ResultOf(mod, k)
    <3>1. k \in Nat /\ ~Before(m0, j0, m0, j0)
      BY <1>0, <1>3 DEF Inv, TypeOK, Before
    <3> QED
      BY <1>0, <1>1, <1>3, <3>1 DEF Early, ResultOf, Before
  <2>4. Early(m0, j0, v0)' /\ Tainted(v0)' => D # {}
    BY <1>4, <1>5, <1>6, <1>9, <1>10, <2>1, <2>2, <2>3 DEF Tainted
  <2>5. Early(m0, j0, v0)' /\ Tainted(v0)' =>
           /\ ResultOf(m0, j0)' \in DOMAIN VTS'
           /\ WrittenBy(prog'[m0][j0]) \subseteq DOMAIN GTS' \cup {NoId}
    BY <1>0, <1>1, <1>3, <1>9, <1>10, <2>4 DEF ResultOf
  <2> QED
    BY <1>1, <2>2, <2>5 DEF OperandDone
<1>13. Satisfied(m0, j0)'
  BY <1>0, <1>1, <1>3, <1>11, <1>12 DEF Satisfied
<1>14. \A m \in ModuleNo : \A j \in DOMAIN prog[m] : Before(m, j, mod, k) => Satisfied(m, j)'
  <2>1. /\ DOMAIN VTS \subseteq DOMAIN VTS'
        /\ \A v \in DOMAIN VTS' \ DOMAIN VTS :
              GlobalIds(v) \cap DOMAIN GTS # {} \/ v = ResultOf(mod, k)
    BY <1>4, <1>5, <1>10
  <2> QED
    BY <1>1, <1>2, <1>9, <2>1, VisitKeepsSatisfied DEF FlowInv, VisitedSatisfied
<1>15. ASSUME NEW m \in ModuleNo, NEW j \in DOMAIN prog[m], Before(m, j, mod, k + 1)
       PROVE  Satisfied(m, j)'
  BY <1>0, <1>3, <1>13, <1>14, <1>15, BeforeNext DEF Inv
<1>16. VisitedSatisfied'
  BY <1>1, <1>15 DEF VisitedSatisfied, Before
<1> QED
  BY <1>1, <1>16 DEF CallPartlySatisfied

\* A visit of a module that is satisfied goes on to the next one.
LEMMA ReturnFromModuleFlow ==
    ASSUME Inv, FlowInv, ReturnFromModule
    PROVE  FlowInv'
<1>1. /\ mod <= NumModules /\ phase = "pass" /\ k > Len(Code) /\ ~Changed /\ todo = <<>>
      /\ mod' = mod + 1 /\ phase' = phase /\ k' = 1 /\ ret' = FALSE
      /\ UNCHANGED <<prog, GTS, VTS, todo, Changed>>
      /\ changed' = IF ret THEN changed + 1 ELSE changed
  BY IdleOutsideCalls DEF ReturnFromModule, AtEnd, EndModulePass, InModulePass
<1>2. Rest' /\ Closed' /\ CallPartlySatisfied'
  BY <1>1 DEF Rest, Closed, CallPartlySatisfied
<1>3. Quiet' => Quiet
  BY <1>1 DEF Quiet, Inv, TypeOK, DriverTypeOK
<1>4. ASSUME NEW m \in ModuleNo, NEW j \in DOMAIN prog[m], Before(m, j, mod + 1, 1)
      PROVE  Before(m, j, mod, k)
  <2>1. /\ m \in Nat /\ j \in Nat \ {0} /\ j <= Len(prog[m]) /\ Len(prog[m]) \in Nat
        /\ mod \in Nat /\ k \in Nat
    BY SitesType, IdsAssumption DEF Inv, TypeOK, DriverTypeOK
  <2> QED
    BY <1>1, <1>4, <2>1 DEF Before, Code
<1>5. ASSUME Quiet', NEW m \in ModuleNo, NEW j \in DOMAIN prog[m], Before(m, j, mod + 1, 1)
      PROVE  Satisfied(m, j)'
  <2>1. Satisfied(m, j)
    BY <1>3, <1>4, <1>5 DEF FlowInv, VisitedSatisfied
  <2> QED
    BY <1>1, <2>1, SatisfiedStays
<1>6. VisitedSatisfied'
  BY <1>1, <1>5 DEF VisitedSatisfied, Before
<1> QED
  BY <1>2, <1>6 DEF FlowInv

\* The driver's steps: a sweep begins with nothing to be satisfied, and the last
\* one, which was quiet to its end, leaves everything so.
LEMMA DriveFlow ==
    ASSUME Inv, FlowInv, Drive
    PROVE  FlowInv'
<1>1. /\ mod > NumModules /\ todo = <<>>
      /\ UNCHANGED <<prog, GTS, VTS, todo, k, Changed, ret>>
  BY DriveType, IdleOutsideCalls DEF Drive, passVars, Inv, TypeOK
<1>2. CallPartlySatisfied'
  BY <1>1 DEF CallPartlySatisfied
<1>3. \A m, j : Satisfied(m, j) => Satisfied(m, j)'
  BY <1>1, SatisfiedStays
<1>4. CASE BeginSweep
  <2>1. phase' = "pass" /\ mod' = 1 /\ k = 1 /\ ~Changed /\ ~ret
    BY <1>1, <1>4 DEF BeginSweep, FlowInv, Rest
  <2>2. ASSUME NEW m \in ModuleNo, NEW j \in DOMAIN prog[m]
        PROVE  ~Before(m, j, 1, 1)
    BY SitesType DEF Inv, Before, ModuleNo
  <2> QED
    BY <1>1, <1>2, <2>1, <2>2 DEF FlowInv, Rest, Closed, VisitedSatisfied, Before
<1>5. CASE BeginFinal
  <2>1. phase' = "final" /\ Quiet
    BY <1>1, <1>5 DEF BeginFinal, FlowInv, Rest, Quiet
  <2>2. ASSUME NEW m \in ModuleNo, NEW j \in DOMAIN prog[m]
        PROVE  Satisfied(m, j)
    <3>1. m < mod
      BY <1>1, IdsAssumption DEF ModuleNo, Inv, TypeOK, DriverTypeOK
    <3> QED
      BY <2>1, <3>1 DEF FlowInv, VisitedSatisfied, Before
  <2>3. Closed'
    BY <1>1, <1>3, <2>2 DEF Closed
  <2> QED
    BY <1>1, <1>2, <2>1, <2>3 DEF FlowInv, Rest, Quiet, VisitedSatisfied
<1>6. CASE Finish
  <2>1. phase = "final" /\ phase' = "done"
    BY <1>6 DEF Finish
  <2>2. Closed'
    BY <1>1, <1>3, <2>1 DEF FlowInv, Closed
  <2> QED
    BY <1>1, <1>2, <2>1, <2>2 DEF FlowInv, Rest, Quiet, VisitedSatisfied
<1> QED
  BY <1>4, <1>5, <1>6 DEF Drive

\* Marking asks for the taint of every result, which only fills the cache.
LEMMA MarkInstructionFlow ==
    ASSUME Inv, FlowInv, MarkInstruction
    PROVE  FlowInv'
<1>1. /\ VTS' = Cache(GTS, VTS, {Result}) /\ phase = "final"
      /\ UNCHANGED <<prog, GTS, mod, phase, Changed, ret>>
  BY DEF MarkInstruction, driverVars
<1>2. /\ DOMAIN VTS \subseteq DOMAIN VTS'
      /\ \A v \in DOMAIN VTS' \ DOMAIN VTS : GlobalIds(v) \cap DOMAIN GTS # {}
  BY <1>1, CacheDomain
<1>3. \A m, j : Satisfied(m, j) => Satisfied(m, j)'
  BY <1>1, <1>2, SatisfiedStays
<1> QED
  BY <1>1, <1>3 DEF FlowInv, Rest, Quiet, VisitedSatisfied, CallPartlySatisfied, Closed

LEMMA FlowInit == Init => FlowInv
  BY DEF Init, DriverInit, FlowInv, Rest, Quiet, VisitedSatisfied, CallPartlySatisfied, Closed

LEMMA FlowStep ==
    ASSUME Inv, FlowInv, [Next]_vars
    PROVE  FlowInv'
<1>1. CASE VisitCall \/ VisitArgument \/ VisitOther
  <2>1. Quiet' => VisitedSatisfied' /\ CallPartlySatisfied'
    BY <1>1, VisitCallFlow, VisitArgumentFlow, VisitOtherFlow
  <2>2. ~Quiet' => VisitedSatisfied' /\ CallPartlySatisfied'
    BY DEF VisitedSatisfied, CallPartlySatisfied
  <2>3. InModulePass /\ UNCHANGED driverVars
    BY <1>1 DEF VisitCall, VisitArgument, VisitOther, AtInstruction, NextInstruction, Inv,
       CallInProgress
  <2>4. Rest' /\ Closed'
    BY <2>3, IdsAssumption DEF InModulePass, driverVars, Rest, Closed, Inv, TypeOK, DriverTypeOK
  <2> QED
    BY <2>1, <2>2, <2>4 DEF FlowInv
<1>2. CASE SweepAgain
  BY <1>2, IdsAssumption DEF SweepAgain, AtEnd, InModulePass, driverVars, FlowInv, Rest, Quiet, VisitedSatisfied,
     CallPartlySatisfied, Closed, Inv, TypeOK, DriverTypeOK
<1>3. CASE ReturnFromModule
  BY <1>3, ReturnFromModuleFlow
<1>4. CASE MarkInstruction
  BY <1>4, MarkInstructionFlow
<1>5. CASE Drive
  BY <1>5, DriveFlow
<1>6. CASE doInitialization
  BY <1>6 DEF doInitialization, ForModule, passVars, FlowInv, Rest, Quiet, VisitedSatisfied,
     CallPartlySatisfied, Closed
<1>7. CASE doFinalization \/ UNCHANGED vars
  <2>1. /\ UNCHANGED <<phase, prog, GTS, VTS, todo, no, Changed, ret>>
        /\ phase = "final" \/ UNCHANGED <<mod, changed, k>>
    BY <1>7 DEF doFinalization, ForModule, vars, driverVars, passVars
  <2>2. \A m, j : Satisfied(m, j) => Satisfied(m, j)'
    BY <2>1, SatisfiedStays
  <2>3. Closed'
    BY <2>1, <2>2 DEF FlowInv, Closed
  <2>4. CASE phase = "final"
    BY <2>1, <2>3, <2>4 DEF FlowInv, Rest, Quiet, VisitedSatisfied, CallPartlySatisfied
  <2>5. CASE UNCHANGED <<mod, changed, k>>
    <3>0. PICK m0, j0 : m0 = mod /\ j0 = k
      OBVIOUS
    <3>1. /\ SourceDone(m0, j0) => SourceDone(m0, j0)'
          /\ \A f, i : ArgumentDone(m0, j0, f, i) => ArgumentDone(m0, j0, f, i)'
      BY <2>1, SatisfiedStays
    <3>2. Current' = Current /\ \A f, i : Passed(f, i)' = Passed(f, i)
      BY <2>1, <2>5 DEF Current, Code, Passed
    <3>3. CallPartlySatisfied'
      BY <2>1, <2>5, <3>0, <3>1, <3>2 DEF FlowInv, Quiet, CallPartlySatisfied
    <3>4. VisitedSatisfied'
      BY <2>1, <2>2, <2>5 DEF FlowInv, Quiet, VisitedSatisfied, Before
    <3> QED
      BY <2>1, <2>3, <2>5, <3>3, <3>4 DEF FlowInv, Rest
  <2> QED
    BY <2>1, <2>4, <2>5
<1> QED
  BY <1>1, <1>2, <1>3, <1>4, <1>5, <1>6, <1>7 DEF Next, Done

\* Closed holds for every program over any number of modules, and whatever the
\* order in which callees are taken.
THEOREM NothingForwardMissing == Spec => []Closed
<1>1. Inv /\ FlowInv => Closed
  BY DEF FlowInv
<1>2. Inv /\ FlowInv /\ [Next]_vars => FlowInv'
  BY FlowStep
<1> QED
  BY <1>1, <1>2, FlowInit, InvInit, InvStep, PTL DEF Spec

----------------------------------------------------------------------------
(* Nothing is invented *)

\* VX relates values, GX identifiers to descriptions.  What instruction j of
\* module m asks of them: a source has its descriptions and so has what stands
\* for it, an argument those of what is passed, a result those of its operands,
\* and what is written those of the value.
Follows(VX, GX, m, j) ==
    LET I == prog[m][j]
    IN /\ \A d \in I.src : <<ResultOf(m, j), d>> \in VX
       /\ \A x \in SourceIdsOf(I), d \in Desc : <<ResultOf(m, j), d>> \in VX => <<x, d>> \in GX
       /\ \A i \in DOMAIN I.ops, d \in Desc : <<I.ops[i], d>> \in VX =>
             IF I.op = "call"
             THEN \A f \in EnteredBy(I) : <<ArgId(f, i - 1), d>> \in GX \cup ({NoId} \X Desc)
             ELSE /\ <<ResultOf(m, j), d>> \in VX
                  /\ \A x \in WrittenBy(I) \ {NoId} : <<x, d>> \in GX

\* What every instruction asks, and getTaint: a value is what its identifiers
\* are, and what it is without pointer casts.
Solution(VX, GX) ==
    /\ \A m \in ModuleNo : \A j \in DOMAIN prog[m] : Follows(VX, GX, m, j)
    /\ \A v \in Value, d \in Desc :
          /\ \A x \in GlobalIds(v) : <<x, d>> \in GX => <<v, d>> \in VX
          /\ <<Strip(v), d>> \in VX => <<v, d>> \in VX

\* All that the pass holds is in the solution.
Below(VX, GX) ==
    /\ \A x \in DOMAIN GTS : \A d \in GTS[x] : <<x, d>> \in GX
    /\ \A v \in DOMAIN VTS : \A d \in VTS[v] : <<v, d>> \in VX
    /\ \A s \in DOMAIN Marks : \A d \in Marks[s] : <<ResultOf(s[1], s[2]), d>> \in VX

DerivedOnly ==
    \A VX \in SUBSET (Value \X Desc), GX \in SUBSET (Id \X Desc) :
        Solution(VX, GX) => Below(VX, GX)

\* The callees that are left are callees of the call, and of one with arguments.
CalleesLeft == todo # <<>> => \A x \in DOMAIN todo : todo[x] \in EnteredBy(Current)

\* Entries of a map that are in a relation.
In(map, X) == \A x \in DOMAIN map : \A d \in map[x] : <<x, d>> \in X

\* What is inserted in a map and what was there stay in the relation.
LEMMA InsertIn ==
    ASSUME NEW map, NEW keys, NEW descs, NEW X, In(map, X),
           \A x \in keys : \A d \in descs : <<x, d>> \in X
    PROVE  In(Insert(map, keys, descs), X)
  BY DEF In, Insert

LEMMA AddGlobalIn ==
    ASSUME NEW map, NEW keys, NEW descs, NEW X, In(map, X),
           \A x \in keys \ {NoId} : \A d \in descs : <<x, d>> \in X
    PROVE  In(AddGlobal(map, keys, descs), X)
  BY InsertIn DEF AddGlobal

\* What is found of a value is in the solution.
LEMMA FromGlobalIn ==
    ASSUME NEW VX, NEW GX, Solution(VX, GX), NEW G, In(G, GX), Entries(G), NEW v \in Value
    PROVE  \A d \in FromGlobal(G, v) : <<v, d>> \in VX
<1> SUFFICES ASSUME NEW x \in GlobalIds(v) \cap DOMAIN G, NEW d \in G[x]
             PROVE  <<v, d>> \in VX
  BY DEF FromGlobal
<1>1. d \in Desc /\ <<x, d>> \in GX
  BY DEF Entries, In
<1> QED
  BY <1>1 DEF Solution

\* So is what getTaint answers, from the cache or from the global map.
LEMMA GetTaintIn ==
    ASSUME NEW VX, NEW GX, Solution(VX, GX), NEW G, NEW V, In(G, GX), In(V, VX),
           Entries(G), Entries(V), NEW v \in Value
    PROVE  \A d \in getTaint(G, V, v) : <<v, d>> \in VX
<1>1. CASE v \in DOMAIN V
  BY <1>1 DEF getTaint, In
<1>2. CASE v \notin DOMAIN V /\ Strip(v) \in DOMAIN V
  <2>1. \A d \in V[Strip(v)] : d \in Desc /\ <<Strip(v), d>> \in VX
    BY <1>2 DEF In, Entries
  <2> QED
    BY <1>2, <2>1 DEF getTaint, Solution
<1>3. CASE v \notin DOMAIN V /\ Strip(v) \notin DOMAIN V
  BY <1>3, FromGlobalIn DEF getTaint
<1> QED
  BY <1>1, <1>2, <1>3

\* The cache takes over only what is in the solution.
LEMMA CacheIn ==
    ASSUME NEW VX, NEW GX, Solution(VX, GX), NEW G, NEW V, In(G, GX), In(V, VX),
           Entries(G), NEW vs \in SUBSET Value
    PROVE  In(Cache(G, V, vs), VX)
<1> DEFINE fresh == {v \in vs : ~Known(V, v) /\ GlobalIds(v) \cap DOMAIN G # {}}
           new == Cache(G, V, vs)
<1>1. new = [v \in DOMAIN V \cup fresh |-> IF v \in fresh THEN FromGlobal(G, v) ELSE V[v]]
  BY DEF Cache
<1>2. \A v \in fresh : \A d \in FromGlobal(G, v) : <<v, d>> \in VX
  BY FromGlobalIn
<1> HIDE DEF fresh, new
<1>3. In(new, VX)
  BY <1>1, <1>2 DEF In
<1> QED
  BY <1>3 DEF new

\* checkTaintSource enters only what the instruction is annotated with.
LEMMA SourceIn ==
    ASSUME Inv, NEW VX, NEW GX, Solution(VX, GX), In(GTS, GX), In(VTS, VX),
           mod <= NumModules, k <= Len(Code)
    PROVE  In(SourceGTS, GX) /\ In(SourceVTS, VX)
<1>1. /\ mod \in ModuleNo /\ k \in DOMAIN prog[mod] /\ Current = prog[mod][k]
      /\ Result = ResultOf(mod, k) /\ Current \in Instr
  BY CurrentType DEF Inv, Code, Current, Result, ResultOf
<1>2. /\ \A d \in Current.src : <<Result, d>> \in VX
      /\ \A x \in SourceIdsOf(Current), d \in Desc : <<Result, d>> \in VX => <<x, d>> \in GX
  BY <1>1 DEF Solution, Follows
<1>3. In(SourceVTS, VX)
  BY <1>2, InsertIn DEF SourceVTS
<1>4. Entries(SourceVTS)
  BY SourceEntries
<1>5. CASE Current.src = {}
  BY <1>3, <1>5 DEF SourceGTS
<1>6. CASE Current.src # {}
  <2>1. Result \in DOMAIN SourceVTS
    BY <1>6 DEF SourceVTS, Insert
  <2>2. \A d \in SourceVTS[Result] : d \in Desc /\ <<Result, d>> \in VX
    BY <1>3, <1>4, <2>1 DEF In, Entries
  <2>3. SourceIds = SourceIdsOf(Current)
    BY DEF SourceIds, SourceIdsOf
  <2>4. \A x \in SourceIds \ {NoId} : \A d \in SourceVTS[Result] : <<x, d>> \in GX
    BY <1>2, <2>2, <2>3
  <2> QED
    BY <1>3, <1>6, <2>4, AddGlobalIn DEF SourceGTS
<1> QED
  BY <1>3, <1>5, <1>6

\* The three visits, for one solution.
LEMMA VisitCallBelow ==
    ASSUME Inv, VisitCall, NEW VX, NEW GX, Solution(VX, GX), In(GTS, GX), In(VTS, VX)
    PROVE  In(GTS', GX) /\ In(VTS', VX)
<1>1. VTS' = SourceVTS /\ GTS' = SourceGTS /\ mod <= NumModules /\ k <= Len(Code)
  BY DEF VisitCall, AtInstruction, InModulePass
<1> QED
  BY <1>1, SourceIn

LEMMA VisitArgumentBelow ==
    ASSUME Inv, CalleesLeft, VisitArgument,
           NEW VX, NEW GX, Solution(VX, GX), In(GTS, GX), In(VTS, VX)
    PROVE  In(GTS', GX) /\ In(VTS', VX)
<1> DEFINE v == Current.ops[no + 1]
           id == ArgId(Head(todo), no)
           found == Cache(GTS, VTS, {v})
           D == getTaint(GTS, found, v)
<1>1. /\ VTS' = found
      /\ GTS' = AddGlobal(GTS, {id}, D) \/ GTS' = GTS
  BY DEF VisitArgument
<1>2. /\ todo # <<>> /\ mod <= NumModules /\ k <= Len(Code) /\ no < Len(Current.ops)
      /\ Current.op = "call"
  BY DEF Inv, CallInProgress, VisitArgument, InModulePass
<1>3. /\ mod \in ModuleNo /\ k \in DOMAIN prog[mod] /\ Current = prog[mod][k]
      /\ Current \in Instr
  BY <1>2, CurrentType DEF Inv, Code, Current
<1>4. /\ no + 1 \in DOMAIN Current.ops /\ v \in Value /\ no \in Nat
  <2>1. no \in Nat /\ Len(Current.ops) \in Nat /\ Current.ops \in Seq(Value)
    BY <1>2, CurrentType DEF Inv, TypeOK, Instr
  <2>2. no + 1 \in 1..Len(Current.ops)
    BY <1>2, <2>1
  <2> QED
    BY <2>1, <2>2
<1>5. Head(todo) \in EnteredBy(Current)
  <2>1. todo \in Seq(Fns)
    BY DEF Inv, TypeOK
  <2>2. 1 \in DOMAIN todo /\ Head(todo) = todo[1]
    BY <1>2, <2>1
  <2> QED
    BY <1>2, <2>2 DEF CalleesLeft
<1>6. \A d \in Desc : <<v, d>> \in VX => id = NoId \/ <<id, d>> \in GX
  <2>1. Follows(VX, GX, mod, k)
    BY <1>3 DEF Solution
  <2>2. (no + 1) - 1 = no
    BY <1>4
  <2>3. \A d \in Desc : <<v, d>> \in VX => <<id, d>> \in GX \cup ({NoId} \X Desc)
    BY <1>2, <1>3, <1>4, <1>5, <2>1, <2>2 DEF Follows
  <2> QED
    BY <2>3
<1> HIDE DEF v, id
<1>7. Entries(GTS) /\ Entries(VTS)
  BY InvEntries
<1>8. In(found, VX) /\ Entries(found)
  BY <1>4, <1>7, CacheIn, CacheEntries
<1> HIDE DEF found
<1>9. \A d \in D : d \in Desc /\ <<v, d>> \in VX
  BY <1>4, <1>7, <1>8, GetTaintIn, GetTaintEntries
<1> HIDE DEF D
<1>10. In(AddGlobal(GTS, {id}, D), GX)
  <2>1. \A x \in {id} \ {NoId} : \A d \in D : <<x, d>> \in GX
    BY <1>6, <1>9
  <2> QED
    BY <2>1, AddGlobalIn
<1> QED
  BY <1>1, <1>8, <1>10

LEMMA VisitOtherBelow ==
    ASSUME Inv, VisitOther, NEW VX, NEW GX, Solution(VX, GX), In(GTS, GX), In(VTS, VX)
    PROVE  In(GTS', GX) /\ In(VTS', VX)
<1> DEFINE operands == {Current.ops[i] : i \in DOMAIN Current.ops}
           D == UNION {getTaint(SourceGTS, SourceVTS, v) : v \in operands}
           found == Cache(SourceGTS, SourceVTS, operands)
           out == IF Propagates(D) THEN Written ELSE {}
<1>1. /\ VTS' = (IF Propagates(D) THEN Insert(found, {Result}, D) ELSE found)
      /\ GTS' = AddGlobal(SourceGTS, out, D)
      /\ Current.op # "call" /\ mod <= NumModules /\ k <= Len(Code)
  BY DEF VisitOther, AtInstruction, InModulePass
<1>2. /\ mod \in ModuleNo /\ k \in DOMAIN prog[mod] /\ Current = prog[mod][k]
      /\ Result = ResultOf(mod, k) /\ operands \subseteq Value
  BY <1>1, CurrentType DEF Inv, Code, Current, Result, ResultOf
<1>3. /\ In(SourceGTS, GX) /\ In(SourceVTS, VX) /\ Entries(SourceGTS) /\ Entries(SourceVTS)
  BY <1>1, SourceIn, SourceEntries
<1>4. \A v \in operands, d \in Desc : <<v, d>> \in VX =>
         /\ <<Result, d>> \in VX
         /\ \A x \in Written \ {NoId} : <<x, d>> \in GX
  <2>1. Follows(VX, GX, mod, k)
    BY <1>2 DEF Solution
  <2>2. Written = WrittenBy(Current)
    BY DEF Written, WrittenBy
  <2> QED
    BY <1>1, <1>2, <2>1, <2>2 DEF Follows
<1>5. \A d \in D : /\ <<Result, d>> \in VX
                   /\ \A x \in Written \ {NoId} : <<x, d>> \in GX
  <2> SUFFICES ASSUME NEW v \in operands, NEW d \in getTaint(SourceGTS, SourceVTS, v)
               PROVE  /\ <<Result, d>> \in VX
                      /\ \A x \in Written \ {NoId} : <<x, d>> \in GX
    OBVIOUS
  <2>1. v \in Value
    BY <1>2
  <2>2. d \in Desc /\ <<v, d>> \in VX
    BY <1>3, <2>1, GetTaintIn, GetTaintEntries
  <2> QED
    BY <1>4, <2>2
<1> HIDE DEF operands, D
<1>6. In(found, VX)
  BY <1>2, <1>3, CacheIn
<1> HIDE DEF found
<1>7. In(VTS', VX)
  <2>1. In(Insert(found, {Result}, D), VX)
    BY <1>5, <1>6, InsertIn
  <2> QED
    BY <1>1, <1>6, <2>1
<1>8. In(GTS', GX)
  <2>1. \A x \in out \ {NoId} : \A d \in D : <<x, d>> \in GX
    BY <1>5
  <2> QED
    BY <1>1, <1>3, <2>1, AddGlobalIn
<1> QED
  BY <1>7, <1>8

\* Marking asks for the taint of each result.
LEMMA MarkInstructionBelow ==
    ASSUME Inv, MarkInstruction, NEW VX, NEW GX, Solution(VX, GX), Below(VX, GX)
    PROVE  Below(VX, GX)'
<1> DEFINE found == Cache(GTS, VTS, {Result})
           D == getTaint(GTS, found, Result)
<1>1. /\ VTS' = found /\ UNCHANGED <<GTS, prog>>
      /\ Marks' = IF Known(found, Result) THEN Insert(Marks, {<<mod, k>>}, D) ELSE Marks
      /\ mod <= NumModules /\ k <= Len(Code)
  BY DEF MarkInstruction
<1>2. Result \in Value /\ Result = ResultOf(mod, k)
  BY <1>1, CurrentType DEF Inv, Result, ResultOf, Code, Current
<1>3. Entries(GTS) /\ Entries(VTS) /\ In(GTS, GX) /\ In(VTS, VX)
  BY InvEntries DEF Below, In
<1>4. In(found, VX) /\ Entries(found)
  BY <1>2, <1>3, CacheIn, CacheEntries
<1> HIDE DEF found
<1>5. \A d \in D : <<ResultOf(mod, k), d>> \in VX
  BY <1>2, <1>3, <1>4, GetTaintIn
<1> HIDE DEF D
<1>6. \A s \in DOMAIN Marks' : \A d \in Marks'[s] : <<ResultOf(s[1], s[2]), d>> \in VX
  <2>1. CASE Marks' = Marks
    BY <2>1 DEF Below
  <2>2. CASE Marks' = Insert(Marks, {<<mod, k>>}, D)
    BY <2>2, <1>5 DEF Below, Insert
  <2> QED
    BY <1>1, <2>1, <2>2
<1>7. \A s : ResultOf(s[1], s[2])' = ResultOf(s[1], s[2])
  BY <1>1 DEF ResultOf
<1> QED
  BY <1>1, <1>3, <1>4, <1>6, <1>7 DEF Below, In

\* One step for one solution.
LEMMA BelowStep ==
    ASSUME Inv, CalleesLeft, [Next]_vars, NEW VX, NEW GX, Solution(VX, GX), Below(VX, GX)
    PROVE  Below(VX, GX)'
<1>1. In(GTS, GX) /\ In(VTS, VX)
  BY DEF Below, In
<1>2. CASE VisitCall \/ VisitArgument \/ VisitOther
  <2>1. In(GTS', GX) /\ In(VTS', VX)
    BY <1>1, <1>2, VisitCallBelow, VisitArgumentBelow, VisitOtherBelow
  <2>2. UNCHANGED <<prog, Marks>>
    BY <1>2 DEF VisitCall, VisitArgument, VisitOther, NextInstruction
  <2> QED
    BY <2>1, <2>2 DEF Below, In, ResultOf
<1>3. CASE MarkInstruction
  BY <1>3, MarkInstructionBelow
<1>4. CASE UNCHANGED <<prog, GTS, VTS, Marks>>
  BY <1>4 DEF Below, ResultOf
<1> QED
  BY <1>2, <1>3, <1>4 DEF Next, vars, passVars, doInitialization, Drive, Done,
     SweepAgain, ReturnFromModule, doFinalization

\* The callees that are left stay those of the call.
LEMMA CalleesLeftStep ==
    ASSUME Inv, CalleesLeft, [Next]_vars
    PROVE  CalleesLeft'
<1>1. CASE VisitCall
  <2> SUFFICES ASSUME todo' # <<>>, NEW x \in DOMAIN todo'
               PROVE  todo'[x] \in EnteredBy(Current')
    BY DEF CalleesLeft, EnteredBy
  <2>0. PICK S : S = (IF Current.ops = <<>> THEN {} ELSE Entered)
    OBVIOUS
  <2>1. todo' \in Orders(S) /\ k' = k /\ mod' = mod /\ prog' = prog
    BY <1>1, <2>0 DEF VisitCall, driverVars
  <2>2. Current' = Current
    BY <2>1 DEF Current, Code
  <2>3. todo' \in [1..Cardinality(S) -> S]
    BY <2>1 DEF Orders
  <2>4. todo'[x] \in S
    BY <2>3
  <2> QED
    BY <2>0, <2>2, <2>4 DEF Entered, EnteredBy
<1>2. CASE VisitArgument
  <2> SUFFICES ASSUME todo' # <<>>, NEW x \in DOMAIN todo'
               PROVE  todo'[x] \in EnteredBy(Current')
    BY DEF CalleesLeft, EnteredBy
  <2>1. /\ todo # <<>> /\ k' = k /\ mod' = mod /\ prog' = prog
        /\ todo' = todo \/ todo' = Tail(todo)
    BY <1>2 DEF VisitArgument, driverVars
  <2>2. Current' = Current /\ todo \in Seq(Fns)
    BY <2>1 DEF Current, Code, Inv, TypeOK
  <2>3. CASE todo' = todo
    BY <2>1, <2>2, <2>3 DEF CalleesLeft
  <2>4. CASE todo' = Tail(todo)
    <3>1. x + 1 \in DOMAIN todo /\ todo'[x] = todo[x + 1]
      BY <2>1, <2>2, <2>4
    <3> QED
      BY <2>1, <2>2, <3>1 DEF CalleesLeft
  <2> QED
    BY <2>1, <2>3, <2>4
<1>3. CASE VisitOther
  <2>1. todo' = <<>>
    BY <1>3 DEF VisitOther, AtInstruction
  <2> QED
    BY <2>1 DEF CalleesLeft
<1>4. CASE UNCHANGED <<todo, mod, k, prog>>
  <2>1. Current' = Current
    BY <1>4 DEF Current, Code
  <2> QED
    BY <1>4, <2>1 DEF CalleesLeft, EnteredBy
<1>5. CASE todo = <<>> /\ todo' = todo
  BY <1>5 DEF CalleesLeft
<1>6. CASE SweepAgain \/ ReturnFromModule \/ MarkInstruction \/ doFinalization \/ doInitialization \/ Drive
  <2>1. todo' = todo
    BY <1>6 DEF SweepAgain, ReturnFromModule, MarkInstruction, doFinalization, doInitialization,
       Drive, passVars
  <2>2. AtEnd \/ phase # "pass" \/ mod > NumModules
    BY <1>6, DriveType DEF SweepAgain, ReturnFromModule, MarkInstruction, doFinalization,
       doInitialization, ForModule, Drive, Inv, TypeOK
  <2>3. todo = <<>>
    BY <2>2, IdleOutsideCalls
  <2> QED
    BY <1>5, <2>1, <2>3
<1> QED
  BY <1>1, <1>2, <1>3, <1>4, <1>6 DEF Next, vars, driverVars, passVars, Done

\* Whatever the pass holds or marks follows from the sources by the rules of the
\* program: it is in every solution of them, for every program and every order
\* of callees.
THEOREM NothingInvented == Spec => []DerivedOnly
<1>1. Init => DerivedOnly /\ CalleesLeft
  BY DEF Init, DerivedOnly, CalleesLeft, Below
<1>2. Inv /\ CalleesLeft /\ DerivedOnly /\ [Next]_vars => DerivedOnly' /\ CalleesLeft'
  <2> SUFFICES ASSUME Inv, CalleesLeft, DerivedOnly, [Next]_vars
               PROVE  DerivedOnly' /\ CalleesLeft'
    OBVIOUS
  <2>1. prog' = prog
    BY ProgramKept
  <2>2. ASSUME NEW VX, NEW GX
        PROVE  Solution(VX, GX)' => Solution(VX, GX)
    <3>1. \A v : GlobalIds(v)' = GlobalIds(v) /\ Strip(v)' = Strip(v)
      BY <2>1 DEF GlobalIds, Strip, InstrOf
    <3>2. \A m, j : Follows(VX, GX, m, j)' = Follows(VX, GX, m, j)
      BY <2>1 DEF Follows, ResultOf
    <3> QED
      BY <2>1, <3>1, <3>2 DEF Solution
  <2>3. ASSUME NEW VX \in SUBSET (Value \X Desc), NEW GX \in SUBSET (Id \X Desc),
               Solution(VX, GX)'
        PROVE  Below(VX, GX)'
    <3>1. Solution(VX, GX) /\ Below(VX, GX)
      BY <2>2, <2>3 DEF DerivedOnly
    <3> QED
      BY <3>1, BelowStep
  <2> QED
    BY <2>3, CalleesLeftStep DEF DerivedOnly
<1> QED
  BY <1>1, <1>2, InvInit, InvStep, PTL DEF Spec
=============================================================================
